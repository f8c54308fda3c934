--------------------------- MODULE CachePlanProofs ---------------------------
(***************************************************************************)
(* Proofs about updateCacheQueue, for playlists, limits and caches of any  *)
(* size: the properties of CachePlanning, and that the planner keeps what  *)
(* VideoCache assumes of it (PlannerIsSound).                              *)
(*                                                                         *)
(* The loops over the playlist are folds. Each is turned into a sequence of*)
(* states, one per item (FoldByPosition), whose steps are described by a   *)
(* relation (DropsFrom, PlayStep, DeleteStep); what holds at the end of a  *)
(* loop is shown by induction over such a sequence.                        *)
(***************************************************************************)
EXTENDS CachePlanning, ListsProofs, FiniteSetTheorems

\* The last of the first n numbers, and what is before it.
LEMMA LastNumber ==
    ASSUME NEW n \in Nat, n # 0
    PROVE  Max(1 .. n) = n /\ (1 .. n) \ {n} = 1 .. n - 1 /\ 1 .. n # {}
<1>1. n \in 1 .. n /\ \A y \in 1 .. n : n >= y
  OBVIOUS
<1>2. \A x \in 1 .. n : (\A y \in 1 .. n : x >= y) => x = n
  OBVIOUS
<1>3. Max(1 .. n) = n
  BY <1>1, <1>2 DEF Max
<1>4. QED
  BY <1>1, <1>3

\* A fold over a list is defined by recursion over the sets of its positions. The
\* function that does this exists.
IsFold(f, N, S, base, G) ==
    /\ f \in [SUBSET (1 .. N) -> S]
    /\ \A s \in SUBSET (1 .. N) :
         f[s] = IF s = {} THEN base ELSE G[<<Max(s), f[s \ {Max(s)}]>>]

\* The function of a fold exists when its values have a type.
LEMMA FoldRecursion ==
    ASSUME NEW N \in Nat, NEW S, NEW base \in S, NEW G \in [(1 .. N) \X S -> S]
    PROVE  \E f : IsFold(f, N, S, base, G)
<1> DEFINE Step(f, s) == IF s = {} THEN base ELSE G[<<Max(s), f[s \ {Max(s)}]>>]
           Fcn(n, f) == /\ f = [s \in SUBSET (1 .. n) |-> Step(f, s)]
                        /\ f \in [SUBSET (1 .. n) -> S]
           Defined == {n \in 0 .. N : \E f : Fcn(n, f)}
<1>1. 0 \in Defined
  <2> DEFINE f == [s \in SUBSET (1 .. 0) |-> base]
  <2>1. \A s \in SUBSET (1 .. 0) : s = {}
    OBVIOUS
  <2>2. Fcn(0, f)
    BY <2>1
  <2>3. \E g : Fcn(0, g)
    <3> HIDE DEF Fcn
    <3>1. QED
      BY <2>2
  <2>4. QED
    <3> HIDE DEF Fcn
    <3>1. QED
      BY <2>3
<1>2. ASSUME NEW n \in 0 .. N, n # N, n \in Defined
      PROVE  n + 1 \in Defined
  <2>1. PICK f : Fcn(n, f)
    BY <1>2
  <2> DEFINE g == [s \in SUBSET (1 .. n + 1) |->
                     IF n + 1 \in s THEN G[<<n + 1, f[s \ {n + 1}]>>] ELSE f[s]]
  <2>2. ASSUME NEW s \in SUBSET (1 .. n + 1)
        PROVE  g[s] = Step(g, s) /\ g[s] \in S
    <3>1. CASE n + 1 \in s
      <4>1. Max(s) = n + 1
        <5>1. \A y \in s : n + 1 >= y
          OBVIOUS
        <5>2. \A x \in s : (\A y \in s : x >= y) => x = n + 1
          BY <3>1
        <5>3. QED
          BY <3>1, <5>1, <5>2 DEF Max
      <4>2. s \ {n + 1} \in SUBSET (1 .. n)
        OBVIOUS
      <4>3. n + 1 \notin s \ {n + 1} /\ s \ {n + 1} \in SUBSET (1 .. n + 1)
        OBVIOUS
      <4>4. g[s \ {n + 1}] = f[s \ {n + 1}] /\ f[s \ {n + 1}] \in S
        BY <2>1, <4>2, <4>3
      <4>5. g[s] = G[<<n + 1, f[s \ {n + 1}]>>]
        BY <3>1
      <4>6. n + 1 \in 1 .. N
        BY <1>2
      <4>7. g[s] \in S
        BY <4>4, <4>5, <4>6
      <4>8. s # {}
        BY <3>1
      <4>9. QED
        BY <4>1, <4>4, <4>5, <4>7, <4>8
    <3>2. CASE n + 1 \notin s
      <4>1. s \in SUBSET (1 .. n)
        BY <3>2
      <4>2. g[s] = f[s] /\ f[s] \in S /\ f[s] = Step(f, s)
        BY <2>1, <3>2, <4>1
      <4>3. g[s \ {Max(s)}] = f[s \ {Max(s)}]
        BY <3>2
      <4>4. QED
        BY <4>2, <4>3
    <3>3. QED
      BY <3>1, <3>2
  <2>3. Fcn(n + 1, g)
    BY <2>2
  <2>4. \E h : Fcn(n + 1, h)
    <3> HIDE DEF Fcn, g
    <3>1. QED
      BY <2>3
  <2>5. n + 1 \in 0 .. N
    BY <1>2
  <2>6. QED
    BY <2>4, <2>5
<1>3. N \in Defined
  <2> HIDE DEF Defined
  <2>1. \A n \in 0 .. N : n \in Defined
    BY <1>1, <1>2, Induction
  <2>2. QED
    BY <2>1
<1>4. PICK f : Fcn(N, f)
  BY <1>3
<1>5. \A s \in SUBSET (1 .. N) : f[s] = Step(f, s)
  BY <1>4
<1>6. IsFold(f, N, S, base, G)
  BY <1>4, <1>5 DEF IsFold
<1>7. QED
  BY <1>6

\* The next position.
LEMMA NextNumber ==
    ASSUME NEW N \in Nat, NEW n \in 0 .. N, n # N
    PROVE  n + 1 \in 1 .. N /\ n + 1 \in 0 .. N /\ (n + 1) - 1 = n
  OBVIOUS

\* Positions in a list have a last one.
LEMMA MaxOfPositions ==
    ASSUME NEW N \in Nat, NEW s \in SUBSET (1 .. N), s # {}
    PROVE  Max(s) \in s /\ \A m \in s : m <= Max(s)
<1> DEFINE Below == {N - m : m \in s}
<1>1. Below \subseteq Nat /\ Below # {}
  <2>1. \A m \in s : N - m \in Nat
    OBVIOUS
  <2>2. QED
    BY <2>1
<1>2. PICK b \in Below : \A c \in Below : b <= c
  <2> HIDE DEF Below
  <2>1. QED
    BY <1>1, LeastNumber
<1>3. PICK m \in s : b = N - m
  OBVIOUS
<1>4. ASSUME NEW n \in s
      PROVE  m >= n
  <2>1. N - n \in Below
    OBVIOUS
  <2>2. b <= N - n
    BY <1>2, <2>1
  <2>3. QED
    BY <1>3, <2>2
<1>5. \E x \in s : \A y \in s : x >= y
  BY <1>4
<1>6. Max(s) \in s /\ \A y \in s : Max(s) >= y
  <2> DEFINE M == CHOOSE x \in s : \A y \in s : x >= y
  <2>1. M \in s /\ \A y \in s : M >= y
    BY <1>5
  <2>2. QED
    BY <2>1 DEF Max
<1>7. QED
  BY <1>6

\* Along the list a fold is a recursion over the positions, up to its value.
IsRecursion(h, N, S, base, G, value) ==
    /\ h \in [0 .. N -> S]
    /\ h[0] = base
    /\ h[N] = value
    /\ \A n \in 1 .. N : h[n] = G[<<n, h[n - 1]>>]

\* ... whatever else the function of the fold is where its values have no type.
FoldsTyped(iter, N, S, base, G) ==
    /\ iter[{}] = base
    /\ \A s \in SUBSET (1 .. N) : s # {} /\ iter[s \ {Max(s)}] \in S =>
         iter[s] = G[<<Max(s), iter[s \ {Max(s)}]>>]

\* The value of a fold is that of a recursion along the list.
LEMMA FoldByPosition ==
    ASSUME NEW N \in Nat, NEW S, NEW base \in S, NEW G \in [(1 .. N) \X S -> S],
           NEW iter, FoldsTyped(iter, N, S, base, G)
    PROVE  \E h : IsRecursion(h, N, S, base, G, iter[1 .. N])
<1> DEFINE h == [n \in 0 .. N |-> iter[1 .. n]]
           T == {n \in 0 .. N : h[n] \in S}
<1>1. h[0] = base
  <2>1. 1 .. 0 = {}
    OBVIOUS
  <2>2. QED
    BY <2>1 DEF FoldsTyped
<1>2. ASSUME NEW n \in 1 .. N, h[n - 1] \in S
      PROVE  h[n] = G[<<n, h[n - 1]>>] /\ h[n] \in S
  <2>1. Max(1 .. n) = n /\ (1 .. n) \ {n} = 1 .. n - 1 /\ 1 .. n # {}
    <3>1. n \in Nat /\ n # 0
      OBVIOUS
    <3>2. QED
      BY <3>1, LastNumber
  <2>2. 1 .. n \in SUBSET (1 .. N) /\ n \in 0 .. N /\ n - 1 \in 0 .. N
    OBVIOUS
  <2>3. h[n] = iter[1 .. n] /\ h[n - 1] = iter[1 .. n - 1]
    BY <2>2
  <2>4. iter[1 .. n] = G[<<n, iter[1 .. n - 1]>>]
    BY <1>2, <2>1, <2>2, <2>3 DEF FoldsTyped
  <2>5. QED
    BY <1>2, <2>3, <2>4
<1> HIDE DEF h
<1>3. ASSUME NEW n \in 0 .. N, n # N, n \in T
      PROVE  n + 1 \in T
  <2>1. n + 1 \in 1 .. N /\ n + 1 \in 0 .. N /\ (n + 1) - 1 = n
    BY <1>3
  <2>2. QED
    BY <1>2, <1>3, <2>1
<1>4. \A n \in 0 .. N : h[n] \in S
  <2>1. 0 \in T
    BY <1>1
  <2> HIDE DEF T
  <2>2. \A n \in 0 .. N : n \in T
    BY <1>3, <2>1, Induction
  <2>3. QED
    BY <2>2 DEF T
<1>5. h \in [0 .. N -> S]
  BY <1>4 DEF h
<1>6. \A n \in 1 .. N : h[n] = G[<<n, h[n - 1]>>]
  <2>1. \A n \in 1 .. N : n - 1 \in 0 .. N
    OBVIOUS
  <2>2. QED
    BY <1>2, <1>4, <2>1
<1>7. h[N] = iter[1 .. N]
  BY DEF h
<1>8. QED
  BY <1>1, <1>5, <1>6, <1>7 DEF IsRecursion

\* What is cached of the items of a list can be counted.
Countable(items, held) == \A k \in DOMAIN items : IsFiniteSet(held[items[k]])

\* The memory of a number of frames is a number.
LEMMA SpaceType ==
    ASSUME NEW i \in Item, NEW n \in Int
    PROVE  SpaceOf(i, n) \in Int /\ (n \in Nat => SpaceOf(i, n) \in Nat)
<1>1. FrameSize[i] \in Nat
  BY ItemAssumption
<1>2. QED
  BY <1>1 DEF SpaceOf

\* So is the memory of what is cached of an item.
LEMMA HeldType ==
    ASSUME NEW i \in Item, NEW held, IsFiniteSet(held[i])
    PROVE  NrCached(held, i) \in Nat /\ SpaceOf(i, NrCached(held, i)) \in Nat
<1>1. NrCached(held, i) \in Nat
  BY FS_CardinalityType DEF NrCached
<1>2. QED
  BY <1>1, SpaceType

\* The level is the sum of the memory that the cached frames of each item take.
Memory(held) == [i \in Item |-> SpaceOf(i, NrCached(held, i))]

LEMMA LevelIsTotal ==
    ASSUME NEW items \in Seq(Item), NEW held, Countable(items, held)
    PROVE  /\ LevelOf(items, held) = Total(items, Memory(held))
           /\ Valued(items, Memory(held))
           /\ \A k \in DOMAIN items :
                Memory(held)[items[k]] = SpaceOf(items[k], NrCached(held, items[k]))
<1>1. LevelOf(items, held) = Total(items, Memory(held))
  BY DEF LevelOf, Memory
<1>2. ASSUME NEW k \in DOMAIN items
      PROVE  /\ Memory(held)[items[k]] = SpaceOf(items[k], NrCached(held, items[k]))
             /\ Memory(held)[items[k]] \in Nat
  <2>1. items[k] \in Item /\ IsFiniteSet(held[items[k]])
    BY DEF Countable
  <2>2. QED
    BY <2>1, HeldType DEF Memory
<1>3. QED
  BY <1>1, <1>2 DEF Valued

\* Frames of one item change, and the level changes by their space.
LEMMA LevelChanged ==
    ASSUME NEW items \in Seq(Item), NEW held, NEW other, NEW p \in DOMAIN items,
           Countable(items, held), Countable(items, other),
           \A k \in DOMAIN items : k # p => held[items[k]] = other[items[k]]
    PROVE  LevelOf(items, other) = LevelOf(items, held)
             + SpaceOf(items[p], NrCached(other, items[p]))
             - SpaceOf(items[p], NrCached(held, items[p]))
<1>1. /\ LevelOf(items, held) = Total(items, Memory(held)) /\ Valued(items, Memory(held))
      /\ LevelOf(items, other) = Total(items, Memory(other)) /\ Valued(items, Memory(other))
  BY LevelIsTotal
<1>2. \A k \in DOMAIN items : k # p => Memory(held)[items[k]] = Memory(other)[items[k]]
  BY LevelIsTotal DEF NrCached
<1>3. Total(items, Memory(other))
        = Total(items, Memory(held)) + Memory(other)[items[p]] - Memory(held)[items[p]]
  <2> DEFINE old == Memory(held)  new == Memory(other)
  <2>1. /\ Valued(items, old) /\ Valued(items, new)
        /\ \A k \in DOMAIN items : k # p => old[items[k]] = new[items[k]]
    BY <1>1, <1>2
  <2> HIDE DEF old, new
  <2>2. Total(items, new) = Total(items, old) + new[items[p]] - old[items[p]]
    BY ONLY items \in Seq(Item), p \in DOMAIN items, <2>1, TotalChanged
  <2>3. QED
    BY <2>2 DEF old, new
<1>4. QED
  BY <1>1, <1>3, LevelIsTotal

\* The level of a list is a natural number.
LEMMA LevelType ==
    ASSUME NEW items \in Seq(Item), NEW held, Countable(items, held)
    PROVE  LevelOf(items, held) \in Nat
BY LevelIsTotal, TotalType

\* A cache without frames takes no memory.
LEMMA LevelEmpty ==
    ASSUME NEW items \in Seq(Item), NEW held,
           \A k \in DOMAIN items : held[items[k]] = {}
    PROVE  LevelOf(items, held) = 0
<1>1. Countable(items, held)
  BY FS_EmptySet DEF Countable
<1>2. ASSUME NEW k \in DOMAIN items
      PROVE  Memory(held)[items[k]] = 0
  <2>1. NrCached(held, items[k]) = 0
    BY FS_EmptySet DEF NrCached
  <2>2. FrameSize[items[k]] \in Nat
    BY ItemAssumption
  <2>3. SpaceOf(items[k], 0) = 0
    BY <2>2 DEF SpaceOf
  <2>4. QED
    BY <1>1, <2>1, <2>3, LevelIsTotal
<1>3. QED
  BY <1>1, <1>2, LevelIsTotal, TotalZero

\* getCachedFrames: the frames of a set in ascending order.
Ascending(frames, T) ==
    /\ frames \in [1 .. Cardinality(T) -> T]
    /\ \A m, n \in DOMAIN frames : m < n => frames[m] < frames[n]

\* Every finite set of frames can be listed in ascending order.
LEMMA AscendingExists ==
    ASSUME NEW T, T \subseteq Nat, IsFiniteSet(T)
    PROVE  \E frames : Ascending(frames, T)
<1>1. PICK N \in Nat : N = Cardinality(T)
  BY FS_CardinalityType
<1> DEFINE Listable(U) == \E frames : Ascending(frames, U)
           S == {n \in 0 .. N : \A U \in SUBSET T :
                   IsFiniteSet(U) /\ Cardinality(U) = n => Listable(U)}
<1>2. 0 \in S
  <2>1. ASSUME NEW U \in SUBSET T, IsFiniteSet(U), Cardinality(U) = 0
        PROVE  Listable(U)
    <3>1. Ascending(<<>>, U)
      BY <2>1 DEF Ascending
    <3>2. QED
      BY <3>1
  <2> HIDE DEF Listable
  <2>2. QED
    BY <2>1
<1>3. ASSUME NEW n \in 0 .. N, n # N, n \in S
      PROVE  n + 1 \in S
  <2>1. ASSUME NEW U \in SUBSET T, IsFiniteSet(U), Cardinality(U) = n + 1
        PROVE  Listable(U)
    <3>1. U # {}
      BY <2>1, FS_EmptySet
    <3>2. PICK x \in U : \A y \in U : x <= y
      BY <3>1, LeastNumber
    <3> DEFINE V == U \ {x}
    <3>3. IsFiniteSet(V) /\ Cardinality(V) = n
      <4>1. IsFiniteSet(U \ {x}) /\ Cardinality(U \ {x}) = Cardinality(U) - 1
        BY <2>1, FS_RemoveElement
      <4>2. QED
        BY <2>1, <4>1
    <3>4. Listable(V)
      BY <1>3, <3>3
    <3>5. PICK frames : Ascending(frames, V)
      BY <3>4
    <3> DEFINE more == [m \in 1 .. n + 1 |-> IF m = 1 THEN x ELSE frames[m - 1]]
    <3>6. frames \in [1 .. n -> V] /\ \A k, m \in 1 .. n : k < m => frames[k] < frames[m]
      BY <3>3, <3>5 DEF Ascending
    <3>7. \A m \in 1 .. n + 1 : m # 1 => m - 1 \in 1 .. n /\ frames[m - 1] \in V
      BY <3>6
    <3>8. more \in [1 .. n + 1 -> U]
      BY <3>7
    <3>9. \A y \in V : x < y
      BY <3>2
    <3>10. ASSUME NEW k \in 1 .. n + 1, NEW m \in 1 .. n + 1, k < m
           PROVE  more[k] < more[m]
      <4>1. m # 1 /\ more[m] = frames[m - 1] /\ m - 1 \in 1 .. n
        BY <3>10
      <4>2. CASE k = 1
        <5>1. more[k] = x /\ frames[m - 1] \in V
          BY <3>6, <4>1, <4>2
        <5> HIDE DEF V, more
        <5>2. QED
          BY <3>9, <4>1, <5>1
      <4>3. CASE k # 1
        <5>1. more[k] = frames[k - 1] /\ k - 1 \in 1 .. n /\ k - 1 < m - 1
          BY <3>10, <4>3
        <5> HIDE DEF V, more
        <5>2. QED
          BY <3>6, <4>1, <5>1
      <4>4. QED
        BY <4>2, <4>3
    <3>11. Ascending(more, U)
      <4>1. DOMAIN more = 1 .. n + 1
        OBVIOUS
      <4> HIDE DEF more
      <4>2. QED
        BY <2>1, <3>8, <3>10, <4>1 DEF Ascending
    <3>12. QED
      <4> HIDE DEF more
      <4>1. QED
        BY <3>11
  <2>2. n + 1 \in 0 .. N
    BY <1>3
  <2> HIDE DEF Listable
  <2>3. QED
    BY <2>1, <2>2
<1>4. N \in S
  <2> HIDE DEF S
  <2>1. \A n \in 0 .. N : n \in S
    BY <1>2, <1>3, Induction
  <2>2. QED
    BY <2>1
<1>5. QED
  BY <1>1, <1>4

\* The list names every frame of the set once.
LEMMA CachedListLemma ==
    ASSUME NEW held, NEW i, held[i] \subseteq Nat, IsFiniteSet(held[i])
    PROVE  /\ NrCached(held, i) \in Nat
           /\ CachedList(held, i) \in [1 .. NrCached(held, i) -> held[i]]
           /\ \A m, n \in 1 .. NrCached(held, i) :
                CachedList(held, i)[m] = CachedList(held, i)[n] => m = n
           /\ \A f \in held[i] : \E m \in 1 .. NrCached(held, i) : CachedList(held, i)[m] = f
<1> DEFINE T == held[i]
           frames == CachedList(held, i)
<1>1. PICK N \in Nat : N = Cardinality(T) /\ N = NrCached(held, i)
  BY FS_CardinalityType DEF NrCached
<1>2. \E s : Ascending(s, T)
  BY AscendingExists
<1>3. Ascending(frames, T)
  BY <1>2 DEF CachedList, Ascending, NrCached
<1>4. frames \in [1 .. N -> T] /\ \A m, n \in 1 .. N : m < n => frames[m] < frames[n]
  BY <1>1, <1>3 DEF Ascending
<1> HIDE DEF frames
<1>5. \A m, n \in 1 .. N : frames[m] = frames[n] => m = n
  <2>1. ASSUME NEW m \in 1 .. N, NEW n \in 1 .. N, m # n
        PROVE  frames[m] # frames[n]
    <3>1. frames[m] \in Nat /\ frames[n] \in Nat
      BY <1>4
    <3>2. m < n \/ n < m
      BY <2>1
    <3>3. QED
      BY <1>4, <3>1, <3>2
  <2>2. QED
    BY <2>1
<1>6. frames \in Injection(1 .. N, T)
  BY <1>4, <1>5 DEF Injection, IsInjective
<1>7. Cardinality(1 .. N) = N
  BY FS_Interval
<1>8. frames \in Surjection(1 .. N, T)
  BY <1>1, <1>6, <1>7, FS_Injection
<1>9. \A f \in T : \E m \in 1 .. N : frames[m] = f
  BY <1>8 DEF Surjection
<1>10. QED
  BY <1>1, <1>4, <1>5, <1>9 DEF frames

-----------------------------------------------------------------------------
\* The elements of a list, each at one place.
Elements(list) == {list[k] : k \in DOMAIN list}
Distinct(list) == \A k, m \in DOMAIN list : list[k] = list[m] => k = m

\* What Those leaves of a list.
LEMMA ThoseLemma ==
    ASSUME NEW E, NEW list \in Seq(E), NEW S
    PROVE  /\ Those(list, S) \in Seq(E \cap S)
           /\ Elements(Those(list, S)) = Elements(list) \cap S
           /\ Distinct(list) => Distinct(Those(list, S))
<1> DEFINE K == {k \in DOMAIN list : list[k] \in S}
           part == Part(list, K)
<1>1. PICK N \in Nat : N = Len(list) /\ DOMAIN list = 1 .. N
  BY LenProperties
<1>2. {list[k] : k \in K \cap DOMAIN list} = Elements(list) \cap S
  BY DEF Elements
<1>3. /\ part \in Seq(Elements(list) \cap S)
      /\ \A k \in K \cap DOMAIN list : \E n \in DOMAIN part : part[n] = list[k]
  <2> HIDE DEF K
  <2>1. QED
    BY <1>2, PartLemma
<1>4. Those(list, S) = part
  BY DEF Those
<1> HIDE DEF part
<1>5. \A n \in DOMAIN part : part[n] \in Elements(list) \cap S
  BY <1>3
<1>6. Elements(part) = Elements(list) \cap S
  <2>1. \A x \in Elements(list) \cap S : \E n \in DOMAIN part : part[n] = x
    BY <1>3 DEF Elements
  <2>2. QED
    BY <1>5, <2>1 DEF Elements
<1>7. Elements(list) \subseteq E
  BY <1>1 DEF Elements
<1>8. part \in Seq(E \cap S)
  <2>1. Elements(list) \cap S \subseteq E \cap S
    BY <1>7
  <2>2. QED
    BY <1>3, <2>1, SeqMonotonic
<1>9. ASSUME Distinct(list)
      PROVE  Distinct(part)
  <2>1. \A i, j \in DOMAIN list : list[i] = list[j] => i = j
    BY <1>9 DEF Distinct
  <2>2. \A a_1, b_1 \in DOMAIN Part(list, K) : Part(list, K)[a_1] = Part(list, K)[b_1] => a_1 = b_1
    <3> HIDE DEF K
    <3>1. QED
      BY <2>1, PartIsInjective
  <2>3. QED
    BY <2>2 DEF Distinct, part
<1>10. QED
  BY <1>4, <1>6, <1>8, <1>9

\* A list of all items of a set, in any order.
ListsAll(items, S) ==
    items \in Seq(S) /\ Elements(items) = S /\ Distinct(items)

\* getAllPlaylistItems: the items in the tree, each once.
LEMMA ListedItems ==
    ASSUME NEW inTree, inTree \subseteq Item
    PROVE  ListsAll(ItemList(inTree), inTree)
<1>1. Order \in Seq(Item) /\ Distinct(Order)
  BY ItemAssumption DEF Distinct
<1>2. Elements(Order) = Item
  BY <1>1, ItemAssumption DEF Elements
<1>3. /\ Those(Order, inTree) \in Seq(Item \cap inTree)
      /\ Elements(Those(Order, inTree)) = Item \cap inTree
      /\ Distinct(Those(Order, inTree))
  BY <1>1, <1>2, ThoseLemma
<1>4. Item \cap inTree = inTree
  OBVIOUS
<1>5. QED
  BY <1>3, <1>4 DEF ItemList, ListsAll

\* The selected item is at its position.
LEMMA SelectedLemma ==
    ASSUME NEW items, NEW S, ListsAll(items, S), S # {}, None \notin S,
           NEW sel \in S \cup {None}
    PROVE  /\ Len(items) \in Nat \ {0} /\ DOMAIN items = 1 .. Len(items)
           /\ SelectedPos(items, sel) \in 1 .. Len(items)
           /\ items[SelectedPos(items, sel)] \in S
           /\ sel # None => items[SelectedPos(items, sel)] = sel
<1>1. Len(items) \in Nat /\ DOMAIN items = 1 .. Len(items)
  BY LenProperties DEF ListsAll
<1>2. \E p \in DOMAIN items : TRUE
  BY DEF ListsAll, Elements
<1>3. sel # None => \E p \in DOMAIN items : items[p] = sel
  BY DEF ListsAll, Elements
<1>4. /\ SelectedPos(items, sel) \in DOMAIN items
      /\ sel # None => items[SelectedPos(items, sel)] = sel
  BY <1>1, <1>2, <1>3 DEF SelectedPos
<1>5. QED
  BY <1>1, <1>2, <1>4 DEF ListsAll

\* A position, once around.
LEMMA WrapLemma ==
    ASSUME NEW n \in Nat \ {0}, NEW i \in Int
    PROVE  /\ i \in 1 .. n => Wrap(n, i) = i
           /\ i \in 1 - n .. 0 => Wrap(n, i) = i + n
           /\ i \in n + 1 .. 2 * n => Wrap(n, i) = i - n
<1>1. i - 1 \in 0 .. n - 1 => (i - 1) % n = i - 1
  OBVIOUS
<1>2. i - 1 \in -n .. -1 => (i - 1) % n = (i - 1) + n
  OBVIOUS
<1>3. i - 1 \in n .. 2 * n - 1 => (i - 1) % n = (i - 1) - n
  OBVIOUS
<1>4. QED
  BY <1>1, <1>2, <1>3 DEF Wrap

\* A list with its elements in another order.
IsTurn(list, items, W) ==
    /\ list = [k \in 1 .. Len(items) |-> items[W[k]]]
    /\ W \in [1 .. Len(items) -> 1 .. Len(items)]
    /\ Distinct(W)
    /\ \A p \in 1 .. Len(items) : \E k \in 1 .. Len(items) : W[k] = p

\* Such a list has the same elements, each once.
LEMMA TurnedLemma ==
    ASSUME NEW S, NEW items, ListsAll(items, S), NEW list, NEW W, IsTurn(list, items, W)
    PROVE  ListsAll(list, S) /\ Len(list) = Len(items)
<1>1. PICK n \in Nat : n = Len(items) /\ DOMAIN items = 1 .. n /\ items \in Seq(S)
  BY LenProperties DEF ListsAll
<1>2. /\ list = [k \in 1 .. n |-> items[W[k]]] /\ W \in [1 .. n -> 1 .. n]
      /\ Distinct(W) /\ \A p \in 1 .. n : \E k \in 1 .. n : W[k] = p
  BY <1>1 DEF IsTurn
<1>3. list \in [1 .. n -> S]
  <2>1. \A k \in 1 .. n : W[k] \in 1 .. n
    BY <1>2
  <2>2. \A k \in 1 .. n : items[k] \in S
    BY <1>1
  <2>3. QED
    BY <1>2, <2>1, <2>2
<1>4. list \in Seq(S) /\ Len(list) = n /\ DOMAIN list = 1 .. n
  BY <1>3
<1>5. Elements(list) = S
  <2>1. \A s \in S : \E p \in 1 .. n : items[p] = s
    BY <1>1 DEF ListsAll, Elements
  <2>2. \A s \in S : \E k \in 1 .. n : list[k] = s
    BY <1>2, <2>1
  <2>3. QED
    BY <1>3, <1>4, <2>2 DEF Elements
<1>6. Distinct(list)
  <2>1. ASSUME NEW k \in 1 .. n, NEW m \in 1 .. n, list[k] = list[m]
        PROVE  k = m
    <3>1. items[W[k]] = items[W[m]] /\ W[k] \in 1 .. n /\ W[m] \in 1 .. n
      BY <1>2, <2>1
    <3>2. W[k] = W[m]
      BY <1>1, <3>1 DEF ListsAll, Distinct
    <3>3. QED
      BY <1>2, <3>2 DEF Distinct
  <2>2. QED
    BY <1>4, <2>1 DEF Distinct
<1>7. QED
  BY <1>1, <1>4, <1>5, <1>6 DEF ListsAll

\* Going back from the item before the selected one, all items are met, the selected
\* one last.
LEMMA BackwardsLemma ==
    ASSUME NEW S, NEW items, ListsAll(items, S), NEW pos \in 1 .. Len(items)
    PROVE  /\ ListsAll(Backwards(items, pos - 1), S)
           /\ Len(Backwards(items, pos - 1)) = Len(items)
           /\ Backwards(items, pos - 1)[Len(items)] = items[pos]
<1>1. PICK n \in Nat \ {0} : n = Len(items) /\ DOMAIN items = 1 .. n /\ items \in Seq(S)
  <2>1. Len(items) \in Nat /\ DOMAIN items = 1 .. Len(items) /\ items \in Seq(S)
    BY LenProperties DEF ListsAll
  <2>2. Len(items) # 0
    BY <2>1
  <2>3. QED
    BY <2>1, <2>2
<1> DEFINE list == Backwards(items, pos - 1)
           W(k) == IF k < pos THEN pos - k ELSE pos - k + n
<1>2. ASSUME NEW k \in 1 .. n
      PROVE  W(k) \in 1 .. n /\ Wrap(n, (pos - 1) - k + 1) = W(k)
  <2>1. (pos - 1) - k + 1 = pos - k /\ pos - k \in Int
    BY <1>1
  <2>2. CASE k < pos
    <3>1. pos - k \in 1 .. n
      BY <1>1, <2>2
    <3>2. QED
      BY <2>1, <2>2, <3>1, WrapLemma
  <2>3. CASE ~ (k < pos)
    <3>1. pos - k \in 1 - n .. 0 /\ pos - k + n \in 1 .. n
      BY <1>1, <2>3
    <3>2. QED
      BY <2>1, <2>3, <3>1, WrapLemma
  <2>4. QED
    BY <2>2, <2>3
<1>3. list = [k \in 1 .. n |-> items[W(k)]]
  <2>1. list = [k \in 1 .. n |-> items[Wrap(n, (pos - 1) - k + 1)]]
    BY <1>1 DEF Backwards
  <2> HIDE DEF list, W
  <2>2. QED
    BY <1>2, <2>1
<1>4. \A k, m \in 1 .. n : W(k) = W(m) => k = m
  BY <1>1
<1>5. W(n) = pos
  BY <1>1
<1>6. ASSUME NEW p \in 1 .. n
      PROVE  \E k \in 1 .. n : W(k) = p
  <2>1. CASE p < pos
    <3>1. pos - p \in 1 .. n /\ W(pos - p) = p
      BY <1>1, <2>1
    <3>2. QED
      BY <3>1
  <2>2. CASE p >= pos
    <3>1. pos - p + n \in 1 .. n /\ W(pos - p + n) = p
      BY <1>1, <2>2
    <3>2. QED
      BY <3>1
  <2>3. QED
    BY <1>1, <2>1, <2>2
<1> DEFINE V == [k \in 1 .. n |-> W(k)]
<1>7. IsTurn(list, items, V)
  <2> HIDE DEF W, list
  <2>1. QED
    BY <1>1, <1>2, <1>3, <1>4, <1>6 DEF IsTurn, Distinct
<1>8. ListsAll(list, S) /\ Len(list) = n
  <2> HIDE DEF V, list
  <2>1. QED
    BY <1>1, <1>7, TurnedLemma
<1>9. list[n] = items[pos]
  <2> HIDE DEF W, list
  <2>1. QED
    BY <1>3, <1>5
<1>10. QED
  BY <1>1, <1>8, <1>9

\* Going on from the selected item, all items are met, the selected one first.
LEMMA ForwardsLemma ==
    ASSUME NEW S, NEW items, ListsAll(items, S), NEW pos \in 1 .. Len(items)
    PROVE  /\ ListsAll(Forwards(items, pos), S)
           /\ Len(Forwards(items, pos)) = Len(items)
           /\ Forwards(items, pos)[1] = items[pos]
           /\ \A k \in 1 .. Len(items) :
                Forwards(items, pos)[k] = items[IF pos + k - 1 <= Len(items)
                                                  THEN pos + k - 1
                                                  ELSE pos + k - 1 - Len(items)]
<1>1. PICK n \in Nat \ {0} : n = Len(items) /\ DOMAIN items = 1 .. n /\ items \in Seq(S)
  <2>1. Len(items) \in Nat /\ DOMAIN items = 1 .. Len(items) /\ items \in Seq(S)
    BY LenProperties DEF ListsAll
  <2>2. Len(items) # 0
    BY <2>1
  <2>3. QED
    BY <2>1, <2>2
<1> DEFINE list == Forwards(items, pos)
           W(k) == IF pos + k - 1 <= n THEN pos + k - 1 ELSE pos + k - 1 - n
<1>2. ASSUME NEW k \in 1 .. n
      PROVE  W(k) \in 1 .. n /\ Wrap(n, pos + k - 1) = W(k)
  <2>1. pos + k - 1 \in Int
    BY <1>1
  <2>2. CASE pos + k - 1 <= n
    <3>1. pos + k - 1 \in 1 .. n
      BY <1>1, <2>2
    <3>2. QED
      BY <2>1, <2>2, <3>1, WrapLemma
  <2>3. CASE ~ (pos + k - 1 <= n)
    <3>1. pos + k - 1 \in n + 1 .. 2 * n /\ pos + k - 1 - n \in 1 .. n
      BY <1>1, <2>3
    <3>2. QED
      BY <2>1, <2>3, <3>1, WrapLemma
  <2>4. QED
    BY <2>2, <2>3
<1>3. list = [k \in 1 .. n |-> items[W(k)]]
  <2>1. list = [k \in 1 .. n |-> items[Wrap(n, pos + k - 1)]]
    BY <1>1 DEF Forwards
  <2> HIDE DEF list, W
  <2>2. QED
    BY <1>2, <2>1
<1>4. \A k, m \in 1 .. n : W(k) = W(m) => k = m
  BY <1>1
<1>5. W(1) = pos /\ 1 \in 1 .. n
  BY <1>1
<1>6. ASSUME NEW p \in 1 .. n
      PROVE  \E k \in 1 .. n : W(k) = p
  <2>1. CASE p >= pos
    <3>1. p - pos + 1 \in 1 .. n /\ W(p - pos + 1) = p
      BY <1>1, <2>1
    <3>2. QED
      BY <3>1
  <2>2. CASE p < pos
    <3>1. p - pos + 1 + n \in 1 .. n /\ W(p - pos + 1 + n) = p
      BY <1>1, <2>2
    <3>2. QED
      BY <3>1
  <2>3. QED
    BY <1>1, <2>1, <2>2
<1> DEFINE V == [k \in 1 .. n |-> W(k)]
<1>7. IsTurn(list, items, V)
  <2> HIDE DEF W, list
  <2>1. QED
    BY <1>1, <1>2, <1>3, <1>4, <1>6 DEF IsTurn, Distinct
<1>8. ListsAll(list, S) /\ Len(list) = n
  <2> HIDE DEF V, list
  <2>1. QED
    BY <1>1, <1>7, TurnedLemma
<1>9. \A k \in 1 .. n : list[k] = items[W(k)]
  <2> HIDE DEF W, list
  <2>1. QED
    BY <1>3
<1>10. list[1] = items[pos]
  BY <1>5, <1>9
<1>11. QED
  BY <1>1, <1>8, <1>9, <1>10

-----------------------------------------------------------------------------
\* The least of a set of numbers is one of them.
LEMMA LeastOf ==
    ASSUME NEW S, S \subseteq Nat, S # {}
    PROVE  Min(S) \in S /\ \A m \in S : Min(S) <= m
<1>1. \E n \in S : \A m \in S : n <= m
  BY LeastNumber
<1>2. QED
  BY <1>1 DEF Min

\* The range of an item and the size of its frames.
LEMMA RangeType ==
    ASSUME NEW i \in Item
    PROVE  /\ FirstFrame[i] \in Nat /\ LastFrame[i] \in Nat /\ FirstFrame[i] <= LastFrame[i]
           /\ FrameSize[i] \in Nat
           /\ FrameRange(i) \subseteq Frame /\ IsFiniteSet(FrameRange(i))
<1>1. /\ FirstFrame[i] \in Nat /\ LastFrame[i] \in Nat /\ FirstFrame[i] <= LastFrame[i]
      /\ FrameSize[i] \in Nat
  BY ItemAssumption
<1>2. IsFiniteSet(FrameRange(i))
  <2>1. FirstFrame[i] \in Int /\ LastFrame[i] \in Int
    BY <1>1
  <2>2. IsFiniteSet(FirstFrame[i] .. LastFrame[i])
    BY <2>1, FS_Interval
  <2>3. QED
    BY <2>2 DEF FrameRange
<1>3. FrameRange(i) \subseteq Frame
  BY DEF Frame
<1>4. QED
  BY <1>1, <1>2, <1>3

\* All frames are natural numbers.
LEMMA FramesAreNumbers == Frame \subseteq Nat
<1>1. ASSUME NEW i \in Item
      PROVE  FrameRange(i) \subseteq Nat
  <2>1. FirstFrame[i] \in Nat /\ LastFrame[i] \in Nat
    BY RangeType
  <2>2. QED
    BY <2>1 DEF FrameRange
<1>2. QED
  BY <1>1 DEF Frame

\* The first frames of the list of an item are taken out of its cache.
LEMMA TakenOut ==
    ASSUME NEW held, NEW i, held[i] \subseteq Nat, IsFiniteSet(held[i]),
           NEW n \in 0 .. NrCached(held, i)
    PROVE  LET rest == held[i] \ ToSet(SubSeq(CachedList(held, i), 1, n))
           IN  /\ IsFiniteSet(rest) /\ Cardinality(rest) = NrCached(held, i) - n
               /\ n = NrCached(held, i) => rest = {}
<1> DEFINE frames == CachedList(held, i)
           some == ToSet(SubSeq(frames, 1, n))
           rest == held[i] \ some
<1>1. PICK N \in Nat :
        /\ N = NrCached(held, i) /\ frames \in [1 .. N -> held[i]]
        /\ \A k, m \in 1 .. N : frames[k] = frames[m] => k = m
        /\ \A f \in held[i] : \E m \in 1 .. N : frames[m] = f
  BY CachedListLemma
<1>2. n \in 0 .. N /\ n \in Nat
  BY <1>1
<1> DEFINE part == SubSeq(frames, 1, n)
<1>3. part \in Seq(held[i]) /\ Len(part) = n /\ \A k \in 1 .. n : part[k] = frames[k]
  <2> HIDE DEF frames
  <2>1. frames \in Seq(held[i]) /\ Len(frames) = N
    BY <1>1
  <2>2. part = Restrict(frames, 1 .. n)
    BY <1>2, <2>1, SubSeqRestrict
  <2>3. part = [k \in 1 .. n |-> frames[k]]
    BY <1>1, <1>2, <2>2 DEF Restrict
  <2> HIDE DEF part
  <2>4. part \in [1 .. n -> held[i]]
    <3>1. \A k \in 1 .. n : k \in 1 .. N
      BY <1>2
    <3>2. QED
      BY <1>1, <2>3, <3>1
  <2>5. QED
    BY <1>2, <2>3, <2>4
<1>4. some = {frames[k] : k \in 1 .. n}
  <2>1. DOMAIN part = 1 .. n
    <3> HIDE DEF part
    <3>1. QED
      BY <1>3, LenProperties
  <2> HIDE DEF part
  <2>2. ToSet(part) = {frames[k] : k \in 1 .. n}
    BY <1>3, <2>1 DEF ToSet
  <2>3. QED
    BY <2>2 DEF part
<1> HIDE DEF part, frames, some
<1> DEFINE g == [k \in 1 .. n |-> frames[k]]
<1>5. g \in Surjection(1 .. n, some) /\ g \in Injection(1 .. n, some)
  <2>1. g \in [1 .. n -> some]
    BY <1>4
  <2>2. \A f \in some : \E k \in 1 .. n : g[k] = f
    BY <1>4
  <2>3. IsInjective(g)
    BY <1>1, <1>2 DEF IsInjective
  <2> HIDE DEF g
  <2>4. QED
    BY <2>1, <2>2, <2>3 DEF Surjection, Injection
<1>6. IsFiniteSet(1 .. n) /\ Cardinality(1 .. n) = n
  BY <1>2, FS_Interval
<1>7. Cardinality(some) = n
  <2> HIDE DEF g
  <2>1. QED
    BY <1>5, <1>6, FS_Surjection
<1>8. held[i] \cap some = some
  BY <1>1, <1>2, <1>4
<1>9. IsFiniteSet(rest) /\ Cardinality(rest) = Cardinality(held[i]) - n
  <2> HIDE DEF rest
  <2>1. /\ IsFiniteSet(held[i] \ some)
        /\ Cardinality(held[i] \ some) = Cardinality(held[i]) - Cardinality(held[i] \cap some)
    BY FS_Difference
  <2>2. QED
    BY <1>7, <1>8, <2>1 DEF rest
<1>10. n = N => rest = {}
  BY <1>1, <1>4
<1>11. QED
  BY <1>1, <1>9, <1>10 DEF NrCached, some, frames

\* The cached frames, with the memory they take.
Levelled(items, c) ==
    /\ c \in [cached: [Item -> SUBSET Frame], level: Int]
    /\ Countable(items, c.cached)
    /\ c.level = LevelOf(items, c.cached)

\* Less of the item i is cached, and either that is enough or nothing is left of it.
DropsFrom(items, max, c, i, d) ==
    /\ Levelled(items, d)
    /\ c.level < max => d = c
    /\ d.cached[i] \subseteq c.cached[i]
    /\ \A j \in Item : j # i => d.cached[j] = c.cached[j]
    /\ d.level < max \/ d.cached[i] = {}

\* That is what the loop over the frames of an item does.
LEMMA DropFromLemma ==
    ASSUME NEW S, S \subseteq Item, NEW items, ListsAll(items, S), NEW max \in Nat,
           NEW c, Levelled(items, c), NEW p \in DOMAIN items
    PROVE  DropsFrom(items, max, c, items[p], DropFrom(max, c, items[p]))
<1> DEFINE i == items[p]
           frames == CachedList(c.cached, i)
           N == NrCached(c.cached, i)
           Enough == {k \in 0 .. Len(frames) :
                        k = Len(frames) \/ c.level - SpaceOf(i, k) < max}
           n == Min(Enough)
           rest == c.cached[i] \ ToSet(SubSeq(frames, 1, n))
           d == DropFrom(max, c, i)
           less == [c.cached EXCEPT ![i] = rest]
<1>1. /\ items \in Seq(Item) /\ i \in Item
      /\ \A k \in DOMAIN items : items[k] \in Item /\ (k # p => items[k] # i)
  <2>1. items \in Seq(S) /\ DOMAIN items = 1 .. Len(items)
    BY LenProperties DEF ListsAll
  <2>2. \A k \in DOMAIN items : items[k] \in S /\ (k # p => items[k] # i)
    BY <2>1 DEF ListsAll, Distinct
  <2>3. items \in Seq(Item)
    BY <2>1, SeqMonotonic
  <2>4. QED
    BY <2>2, <2>3
<1>2. c.cached \in [Item -> SUBSET Frame] /\ c.level \in Int
  BY DEF Levelled
<1>3. c.cached[i] \subseteq Nat /\ IsFiniteSet(c.cached[i]) /\ c.cached[i] \subseteq Frame
  BY <1>1, <1>2, FramesAreNumbers DEF Levelled, Countable
<1>4. N \in Nat /\ frames \in [1 .. N -> c.cached[i]]
  <2> HIDE DEF i
  <2>1. QED
    BY <1>3, CachedListLemma
<1>5. Len(frames) = N
  BY <1>4
<1> HIDE DEF N, frames, i
<1>6. n \in Enough
  <2>1. N \in Enough /\ Enough \subseteq Nat
    BY <1>4, <1>5
  <2> HIDE DEF Enough
  <2>2. QED
    BY <2>1, LeastOf
<1>7. n \in 0 .. N /\ n \in Nat /\ (n = N \/ c.level - SpaceOf(i, n) < max)
  <2> HIDE DEF n
  <2>1. n \in 0 .. N /\ (n = N \/ c.level - SpaceOf(i, n) < max)
    BY <1>5, <1>6
  <2>2. QED
    BY <1>4, <2>1
<1> HIDE DEF n, Enough
<1>8. IsFiniteSet(rest) /\ Cardinality(rest) = N - n /\ (n = N => rest = {})
  BY <1>3, <1>7, TakenOut DEF N, frames
<1>9. d = IF c.level < max THEN c
          ELSE [cached |-> less, level |-> c.level - SpaceOf(i, n)]
  BY DEF DropFrom, n, Enough, frames
<1>10. rest \subseteq c.cached[i] /\ rest \subseteq Frame
  BY <1>3
<1> HIDE DEF rest, d
<1>11. CASE c.level < max
  <2>1. d = c
    BY <1>9, <1>11
  <2>2. QED
    BY <1>11, <2>1 DEF DropsFrom, d, i
<1>12. CASE ~ (c.level < max)
  <2>1. d.cached = less /\ d.level = c.level - SpaceOf(i, n)
    BY <1>9, <1>12
  <2>2. less \in [Item -> SUBSET Frame] /\ less[i] = rest
    BY <1>1, <1>2, <1>10
  <2>3. \A j \in Item : j # i => less[j] = c.cached[j]
    BY <1>2
  <2> HIDE DEF less
  <2>4. Countable(items, less)
    <3>1. ASSUME NEW k \in DOMAIN items
          PROVE  IsFiniteSet(less[items[k]])
      <4>1. items[k] \in Item /\ IsFiniteSet(c.cached[items[k]])
        BY <1>1 DEF Levelled, Countable
      <4>2. QED
        BY <1>8, <2>2, <2>3, <4>1
    <3>2. QED
      BY <3>1 DEF Countable
  <2>5. LevelOf(items, less) = LevelOf(items, c.cached)
                                 + SpaceOf(i, NrCached(less, i)) - SpaceOf(i, N)
    <3>1. \A k \in DOMAIN items : k # p => c.cached[items[k]] = less[items[k]]
      BY <1>1, <2>3
    <3>2. QED
      BY <1>1, <2>4, <3>1, LevelChanged DEF Levelled, i, N
  <2>6. SpaceOf(i, NrCached(less, i)) - SpaceOf(i, N) = - SpaceOf(i, n)
    <3>1. NrCached(less, i) = N - n
      BY <1>8, <2>2 DEF NrCached
    <3>2. FrameSize[i] \in Nat
      BY <1>1, RangeType
    <3>3. QED
      BY <1>4, <1>7, <3>1, <3>2 DEF SpaceOf
  <2>7. SpaceOf(i, n) \in Nat /\ LevelOf(items, c.cached) = c.level
    BY <1>1, <1>7, SpaceType DEF Levelled
  <2>8. LevelOf(items, less) = c.level - SpaceOf(i, n)
    <3>1. /\ SpaceOf(i, NrCached(less, i)) \in Int /\ SpaceOf(i, N) \in Int
          /\ SpaceOf(i, n) \in Int
      <4>1. NrCached(less, i) \in Int
        BY <1>4, <1>7, <1>8, <2>2 DEF NrCached
      <4>2. QED
        BY <1>1, <1>4, <1>7, <4>1, SpaceType
    <3>2. QED
      BY <1>2, <2>5, <2>6, <2>7, <3>1
  <2>9. Levelled(items, d)
    <3>1. d = [cached |-> less, level |-> c.level - SpaceOf(i, n)]
      BY <1>9, <1>12 DEF less
    <3>2. c.level - SpaceOf(i, n) \in Int
      BY <1>2, <2>7
    <3>3. QED
      BY <2>2, <2>4, <2>8, <3>1, <3>2 DEF Levelled
  <2>10. d.level < max \/ d.cached[i] = {}
    BY <1>7, <1>8, <2>1, <2>2
  <2>11. DropsFrom(items, max, c, i, d)
    BY <1>10, <1>12, <2>1, <2>2, <2>3, <2>9, <2>10 DEF DropsFrom
  <2>12. QED
    BY <2>11 DEF d, i
<1>13. QED
  BY <1>11, <1>12

\* Frames are dropped item by item along a list.
DropsAlong(items, max, start, list, h, value) ==
    /\ h[Len(list)] = value
    /\ h[0] = start
    /\ Levelled(items, h[0])
    /\ \A r \in 1 .. Len(list) :
         Levelled(items, h[r]) /\ DropsFrom(items, max, h[r - 1], list[r], h[r])

\* Freeing the cache item by item is such a sequence of steps.
LEMMA DropsFold ==
    ASSUME NEW S, S \subseteq Item, NEW items, ListsAll(items, S), NEW max \in Nat,
           NEW start, Levelled(items, start), NEW list, ListsAll(list, S)
    PROVE  \E h : DropsAlong(items, max, start, list, h, DropAlong(max, start, list))
<1>1. PICK N \in Nat : N = Len(list) /\ DOMAIN list = 1 .. N
  BY LenProperties DEF ListsAll
<1> DEFINE C == {c \in [cached: [Item -> SUBSET Frame], level: Int] : Levelled(items, c)}
           G == [q \in (1 .. N) \X C |-> DropFrom(max, q[2], list[q[1]])]
           Step(f, s) == IF s = {} THEN start
                         ELSE DropFrom(max, f[s \ {Max(s)}], list[Max(s)])
           iter == CHOOSE f : f = [s \in SUBSET (1 .. N) |-> Step(f, s)]
           value == DropAlong(max, start, list)
<1>2. value = iter[1 .. N]
  BY <1>1 DEF DropAlong, FoldLeft, MapThenFoldSet
<1>3. \A c : Levelled(items, c) <=> c \in C
  BY DEF Levelled
<1>4. ASSUME NEW n \in 1 .. N, NEW c \in C
      PROVE  DropsFrom(items, max, c, list[n], DropFrom(max, c, list[n]))
  <2>1. Levelled(items, c)
    OBVIOUS
  <2>2. list[n] \in Elements(items)
    BY <1>1 DEF ListsAll, Elements
  <2>3. PICK p \in DOMAIN items : items[p] = list[n]
    BY <2>2 DEF Elements
  <2>4. DropsFrom(items, max, c, items[p], DropFrom(max, c, items[p]))
    BY <2>1, DropFromLemma
  <2>5. QED
    BY <2>3, <2>4
<1>5. \A n \in 1 .. N, c \in C : DropFrom(max, c, list[n]) \in C
  BY <1>3, <1>4 DEF DropsFrom
<1> HIDE DEF C
<1>6. G \in [(1 .. N) \X C -> C]
  BY <1>5
<1>7. start \in C
  BY <1>3
<1>8. \A s \in SUBSET (1 .. N) : s # {} => Max(s) \in 1 .. N
  BY MaxOfPositions
<1>9. \E f : f = [s \in SUBSET (1 .. N) |-> Step(f, s)]
  <2> HIDE DEF G
  <2>1. PICK f : IsFold(f, N, C, start, G)
    BY <1>6, <1>7, FoldRecursion
  <2> USE DEF G
  <2>2. ASSUME NEW s \in SUBSET (1 .. N)
        PROVE  f[s] = Step(f, s)
    <3>1. CASE s = {}
      BY <2>1, <3>1 DEF IsFold
    <3>2. CASE s # {}
      <4>1. f[s] = G[<<Max(s), f[s \ {Max(s)}]>>]
        BY <2>1, <3>2 DEF IsFold
      <4>2. f[s \ {Max(s)}] \in C /\ Max(s) \in 1 .. N
        BY <2>1, <1>8, <3>2 DEF IsFold
      <4>3. QED
        BY <4>1, <4>2, <3>2
    <3>3. QED
      BY <3>1, <3>2
  <2>3. f = [s \in SUBSET (1 .. N) |-> f[s]]
    BY <2>1 DEF IsFold
  <2>4. f = [s \in SUBSET (1 .. N) |-> Step(f, s)]
    <3> HIDE DEF Step
    <3>1. QED
      BY <2>2, <2>3
  <2>5. QED
    BY <2>4
<1>10. iter = [s \in SUBSET (1 .. N) |-> Step(iter, s)]
  <2> HIDE DEF Step
  <2>1. QED
    BY <1>9
<1> HIDE DEF iter, value
<1>11. FoldsTyped(iter, N, C, start, G)
  <2>1. iter[{}] = start
    BY <1>10
  <2>2. ASSUME NEW s \in SUBSET (1 .. N), s # {}, iter[s \ {Max(s)}] \in C
        PROVE  iter[s] = G[<<Max(s), iter[s \ {Max(s)}]>>]
    <3>1. iter[s] = Step(iter, s) /\ Max(s) \in 1 .. N
      BY <1>8, <1>10, <2>2
    <3>2. QED
      BY <2>2, <3>1
  <2> HIDE DEF G
  <2>3. QED
    BY <2>1, <2>2 DEF FoldsTyped
<1>12. PICK h : IsRecursion(h, N, C, start, G, iter[1 .. N])
  <2> HIDE DEF G
  <2>1. QED
    BY <1>6, <1>7, <1>11, FoldByPosition
<1>13. ASSUME NEW r \in 1 .. N
       PROVE  Levelled(items, h[r]) /\ DropsFrom(items, max, h[r - 1], list[r], h[r])
  <2>1. h[r] = G[<<r, h[r - 1]>>] /\ h[r - 1] \in C /\ h[r] \in C
    <3> HIDE DEF G
    <3>1. r - 1 \in 0 .. N /\ r \in 0 .. N
      OBVIOUS
    <3>2. QED
      BY <1>12, <3>1 DEF IsRecursion
  <2>2. h[r] = DropFrom(max, h[r - 1], list[r])
    BY <2>1
  <2>3. QED
    BY <1>3, <1>4, <2>1, <2>2
<1>14. h[0] = start /\ h[N] = value
  BY <1>2, <1>12 DEF IsRecursion
<1>15. DropsAlong(items, max, start, list, h, value)
  BY <1>1, <1>13, <1>14 DEF DropsAlong
<1>16. QED
  BY <1>15 DEF value

\* Along the list nothing is dropped that need not be: the next item is dropped from
\* only when nothing is left of the items before.
InOrder(items, max, start, list, c, r) ==
    /\ Levelled(items, c)
    /\ \A j \in Item : c.cached[j] \subseteq start.cached[j]
    /\ c.level < max \/ \A k \in 1 .. r : c.cached[list[k]] = {}
    /\ \A k \in r + 1 .. Len(list) : c.cached[list[k]] = start.cached[list[k]]

\* Every prefix of the list has been dealt with in this order.
LEMMA DropsInOrder ==
    ASSUME NEW S, S \subseteq Item, NEW items, ListsAll(items, S), NEW max \in Nat,
           NEW start, NEW list, ListsAll(list, S), NEW h, NEW value,
           DropsAlong(items, max, start, list, h, value), NEW r \in 0 .. Len(list)
    PROVE  InOrder(items, max, start, list, h[r], r)
<1>1. PICK N \in Nat : N = Len(list) /\ DOMAIN list = 1 .. N
  BY LenProperties DEF ListsAll
<1>2. \A k \in 1 .. N : list[k] \in Item
  BY <1>1, LenProperties DEF ListsAll
<1> DEFINE Good(n) == /\ Levelled(items, h[n])
                      /\ \A j \in Item : h[n].cached[j] \subseteq start.cached[j]
                      /\ h[n].level < max \/ \A k \in 1 .. n : h[n].cached[list[k]] = {}
                      /\ \A k \in n + 1 .. N : h[n].cached[list[k]] = start.cached[list[k]]
           T == {n \in 0 .. N : Good(n)}
<1>3. 0 \in T
  <2>1. h[0] = start /\ Levelled(items, h[0])
    BY DEF DropsAlong
  <2>2. Good(0)
    BY <2>1
  <2>3. QED
    BY <2>2
<1>4. ASSUME NEW n \in 0 .. N, n # N, n \in T
      PROVE  n + 1 \in T
  <2>1. n + 1 \in 1 .. N /\ n + 1 \in 0 .. N /\ (n + 1) - 1 = n
    BY <1>4, NextNumber
  <2> DEFINE c == h[n]  d == h[n + 1]  i == list[n + 1]
  <2>2. Levelled(items, d) /\ DropsFrom(items, max, c, i, d)
    BY <1>1, <2>1 DEF DropsAlong
  <2>3. Good(n)
    BY <1>4
  <2>4. i \in Item /\ \A k \in 1 .. N : k # n + 1 => list[k] # i /\ list[k] \in Item
    BY <1>1, <1>2, <2>1 DEF ListsAll, Distinct
  <2>5. /\ c.level < max => d = c
        /\ d.cached[i] \subseteq c.cached[i]
        /\ \A j \in Item : j # i => d.cached[j] = c.cached[j]
        /\ d.level < max \/ d.cached[i] = {}
    BY <2>2 DEF DropsFrom
  <2>6. \A j \in Item : d.cached[j] \subseteq start.cached[j]
    BY <2>3, <2>5
  <2>7. d.level < max \/ \A k \in 1 .. n + 1 : d.cached[list[k]] = {}
    <3>1. CASE c.level < max
      BY <2>5, <3>1
    <3>2. CASE ~ (c.level < max)
      <4>1. \A k \in 1 .. n : c.cached[list[k]] = {}
        BY <2>3, <3>2
      <4>2. \A k \in 1 .. n : d.cached[list[k]] = {}
        <5>1. \A k \in 1 .. n : k \in 1 .. N /\ k # n + 1
          BY <2>1
        <5>2. QED
          BY <2>4, <2>5, <4>1, <5>1
      <4>3. \A k \in 1 .. n + 1 : k \in 1 .. n \/ k = n + 1
        BY <2>1
      <4>4. QED
        BY <2>5, <4>2, <4>3
    <3>3. QED
      BY <3>1, <3>2
  <2>8. \A k \in (n + 1) + 1 .. N : d.cached[list[k]] = start.cached[list[k]]
    <3>1. \A k \in (n + 1) + 1 .. N : k \in n + 1 .. N /\ k \in 1 .. N /\ k # n + 1
      BY <2>1
    <3>2. QED
      BY <2>3, <2>4, <2>5, <3>1
  <2>9. Good(n + 1)
    BY <2>2, <2>6, <2>7, <2>8
  <2>10. QED
    BY <2>1, <2>9
<1>5. r \in T
  <2> HIDE DEF T
  <2>1. \A n \in 0 .. N : n \in T
    BY <1>3, <1>4, Induction
  <2>2. QED
    BY <1>1, <2>1
<1>6. QED
  BY <1>1, <1>5 DEF InOrder

\* What is left when the frames out of range, and those that are too many, are gone.
Freed(items, pos, max, held, c) ==
    LET sel == items[pos]
    IN  /\ Levelled(items, c) /\ c.level <= max
        /\ \A i \in Item : c.cached[i] \subseteq held[i]
        /\ \A k \in DOMAIN items : c.cached[items[k]] \subseteq FrameRange(items[k])
        /\ c.cached[sel] # held[sel] \cap FrameRange(sel) =>
             \A k \in DOMAIN items : k # pos => c.cached[items[k]] = {}

\* The overflow handling leaves the caches like this.
LEMMA FreeOverflowLemma ==
    ASSUME NEW S, S \subseteq Item, NEW items, ListsAll(items, S), NEW pos \in DOMAIN items,
           NEW max \in Nat, NEW held \in [Item -> SUBSET Frame]
    PROVE  Freed(items, pos, max, held, FreeOverflow(items, pos, max, held))
<1>1. PICK N \in Nat : N = Len(items) /\ DOMAIN items = 1 .. N
  BY LenProperties DEF ListsAll
<1>2. items \in Seq(Item) /\ \A k \in 1 .. N : items[k] \in Item
  <2>1. items \in Seq(S)
    BY DEF ListsAll
  <2>2. items \in Seq(Item)
    BY <2>1, SeqMonotonic
  <2>3. QED
    BY <1>1, <2>2
<1> DEFINE inRange == DropOutOfRange(items, held)
           start == [cached |-> inRange, level |-> LevelOf(items, inRange)]
           list == Backwards(items, pos - 1)
           all == DropAlong(max, start, list)
           free == FreeOverflow(items, pos, max, held)
           sel == items[pos]
<1>3. free = IF start.level > max THEN all ELSE start
  BY DEF FreeOverflow
<1>4. /\ inRange \in [Item -> SUBSET Frame]
      /\ \A i \in Item : inRange[i] \subseteq held[i]
      /\ \A k \in 1 .. N : inRange[items[k]] = held[items[k]] \cap FrameRange(items[k])
  <2>1. inRange = [i \in Item |-> IF i \in ToSet(items) THEN held[i] \cap FrameRange(i)
                                                        ELSE held[i]]
    BY DEF DropOutOfRange
  <2>2. \A k \in 1 .. N : items[k] \in ToSet(items)
    BY <1>1 DEF ToSet
  <2> HIDE DEF inRange
  <2>3. \A i \in Item : inRange[i] \subseteq held[i]
    BY <2>1
  <2>4. inRange \in [Item -> SUBSET Frame]
    BY <2>1
  <2>5. \A k \in 1 .. N : inRange[items[k]] = held[items[k]] \cap FrameRange(items[k])
    BY <1>2, <2>1, <2>2
  <2>6. QED
    BY <2>3, <2>4, <2>5
<1> HIDE DEF inRange
<1>5. Countable(items, inRange)
  <2>1. ASSUME NEW k \in 1 .. N
        PROVE  IsFiniteSet(inRange[items[k]])
    <3>1. IsFiniteSet(FrameRange(items[k]))
      BY <1>2, RangeType
    <3>2. inRange[items[k]] \in SUBSET FrameRange(items[k])
      BY <1>4
    <3>3. QED
      BY <3>1, <3>2, FS_Subset
  <2>2. QED
    BY <1>1, <2>1 DEF Countable
<1>6. Levelled(items, start)
  <2>1. LevelOf(items, inRange) \in Int
    BY <1>2, <1>5, LevelType
  <2>2. QED
    BY <1>4, <1>5, <2>1 DEF Levelled
<1>7. start.cached = inRange /\ start.level \in Int
  BY <1>6 DEF Levelled
<1> HIDE DEF start
<1>8. CASE ~ (start.level > max)
  <2>1. free = start
    BY <1>3, <1>8
  <2> HIDE DEF free
  <2>2. start.level <= max
    BY <1>7, <1>8
  <2>3. start.cached[sel] = held[sel] \cap FrameRange(sel)
    BY <1>1, <1>4, <1>7
  <2>4. \A k \in 1 .. N : start.cached[items[k]] \subseteq FrameRange(items[k])
    BY <1>4, <1>7
  <2>5. \A i \in Item : start.cached[i] \subseteq held[i]
    BY <1>4, <1>7
  <2>6. Freed(items, pos, max, held, start)
    BY <1>1, <1>6, <2>2, <2>3, <2>4, <2>5 DEF Freed
  <2>7. QED
    BY <2>1, <2>6 DEF free
<1>9. CASE start.level > max
  <2>1. ListsAll(list, S) /\ Len(list) = N /\ list[N] = sel
    BY <1>1, BackwardsLemma
  <2> HIDE DEF list
  <2>2. PICK h : DropsAlong(items, max, start, list, h, all)
    BY <1>6, <2>1, DropsFold
  <2> HIDE DEF all
  <2>3. free = h[N]
    BY <1>3, <1>9, <2>1, <2>2 DEF DropsAlong
  <2> DEFINE c == h[N]
  <2>4. /\ Levelled(items, c)
        /\ \A j \in Item : c.cached[j] \subseteq start.cached[j]
        /\ c.level < max \/ \A k \in 1 .. N : c.cached[list[k]] = {}
    <3>1. N \in 0 .. Len(list)
      BY <2>1
    <3>2. InOrder(items, max, start, list, c, N)
      BY <2>1, <2>2, <3>1, DropsInOrder
    <3>3. QED
      BY <3>2 DEF InOrder
  <2>5. \A k \in 1 .. N : \E m \in 1 .. N : list[m] = items[k]
    <3>1. DOMAIN list = 1 .. N
      BY <2>1, LenProperties DEF ListsAll
    <3>2. QED
      BY <1>1, <2>1, <3>1 DEF ListsAll, Elements
  <2>6. c.level <= max
    <3>1. CASE c.level < max
      <4>1. c.level \in Int
        BY <2>4 DEF Levelled
      <4> HIDE DEF c
      <4>2. QED
        BY <3>1, <4>1
    <3>2. CASE ~ (c.level < max)
      <4>1. \A k \in DOMAIN items : c.cached[items[k]] = {}
        <5>1. \A k \in 1 .. N : c.cached[list[k]] = {}
          BY <2>4, <3>2
        <5> HIDE DEF c
        <5>2. QED
          BY <1>1, <2>5, <5>1
      <4>2. LevelOf(items, c.cached) = 0
        BY <1>2, <4>1, LevelEmpty
      <4>3. c.level = 0
        BY <2>4, <4>2 DEF Levelled
      <4> HIDE DEF c
      <4>4. QED
        BY <4>3
    <3>3. QED
      BY <3>1, <3>2
  <2>7. \A i \in Item : c.cached[i] \subseteq held[i]
    BY <1>4, <1>7, <2>4
  <2>8. \A k \in 1 .. N : c.cached[items[k]] \subseteq FrameRange(items[k])
    BY <1>2, <1>4, <1>7, <2>4
  <2>9. ASSUME c.cached[sel] # held[sel] \cap FrameRange(sel),
               NEW k \in 1 .. N, k # pos
        PROVE  c.cached[items[k]] = {}
    <3>1. N - 1 \in 0 .. Len(list) /\ N \in 1 .. Len(list) /\ N \in (N - 1) + 1 .. Len(list)
      BY <1>1, <2>1
    <3> DEFINE b_1 == h[N - 1]
    <3>2. /\ b_1.level < max \/ \A m \in 1 .. N - 1 : b_1.cached[list[m]] = {}
          /\ b_1.cached[list[N]] = start.cached[list[N]]
      <4>1. InOrder(items, max, start, list, b_1, N - 1)
        BY <2>1, <2>2, <3>1, DropsInOrder
      <4>2. QED
        BY <3>1, <4>1 DEF InOrder
    <3>3. DropsFrom(items, max, b_1, list[N], c)
      BY <2>2, <3>1 DEF DropsAlong
    <3>4. start.cached[sel] = held[sel] \cap FrameRange(sel)
      BY <1>1, <1>4, <1>7
    <3>5. c # b_1
      BY <2>1, <2>9, <3>2, <3>4
    <3>6. \A m \in 1 .. N - 1 : b_1.cached[list[m]] = {}
      BY <3>2, <3>3, <3>5 DEF DropsFrom
    <3>7. PICK m \in 1 .. N : list[m] = items[k]
      BY <2>5
    <3>8. items[k] # sel /\ items[k] \in Item
      BY <1>1, <1>2, <2>9 DEF ListsAll, Distinct
    <3>9. m # N
      BY <2>1, <3>7, <3>8
    <3>10. m \in 1 .. N - 1
      BY <3>9
    <3>11. c.cached[items[k]] = b_1.cached[items[k]]
      BY <2>1, <3>3, <3>8 DEF DropsFrom
    <3>12. QED
      BY <3>6, <3>7, <3>10, <3>11
  <2> HIDE DEF c, free
  <2>10. Freed(items, pos, max, held, c)
    BY <1>1, <2>4, <2>6, <2>7, <2>8, <2>9 DEF Freed
  <2>11. QED
    BY <2>3, <2>10 DEF c, free
<1>10. QED
  BY <1>8, <1>9

\* enqueueCacheJob: at most one job is appended, for frames from the first on.
Enqueues(jobs, i, first, last, more) ==
    \/ more = jobs
    \/ \E start \in Nat : /\ first <= start
                          /\ more = Append(jobs, [item |-> i, first |-> start, last |-> last])

\* enqueueCacheJob does that.
LEMMA EnqueueLemma ==
    ASSUME NEW jobs, NEW held, NEW i, NEW first \in Nat, NEW last \in Int
    PROVE  Enqueues(jobs, i, first, last, EnqueueCacheJob(jobs, held, i, first, last))
<1> DEFINE New == {f \in first .. last : f \notin held[i] \/ f = last}
           start == IF first >= last THEN first ELSE Min(New)
<1>1. start \in Nat /\ first <= start
  <2>1. CASE first >= last
    BY <2>1
  <2>2. CASE ~ (first >= last)
    <3>1. last \in New /\ New \subseteq Nat
      BY <2>2
    <3>2. Min(New) \in New
      <4> HIDE DEF New
      <4>1. QED
        BY <3>1, LeastOf
    <3>3. QED
      BY <2>2, <3>1, <3>2
  <2>3. QED
    BY <2>1, <2>2
<1>2. EnqueueCacheJob(jobs, held, i, first, last) =
        IF start # last THEN Append(jobs, [item |-> i, first |-> start, last |-> last])
                        ELSE jobs
  BY DEF EnqueueCacheJob
<1> HIDE DEF start
<1>3. QED
  BY <1>1, <1>2 DEF Enqueues

\* The jobs and the removable frames of a set of items.
Jobs(S) == Seq([item: S, first: Int, last: Int])

\* A list of jobs stays one.
LEMMA EnqueueType ==
    ASSUME NEW S, NEW jobs \in Jobs(S), NEW i \in S, NEW first \in Int, NEW last \in Int,
           NEW more, Enqueues(jobs, i, first, last, more)
    PROVE  more \in Jobs(S)
<1>1. CASE more = jobs
  BY <1>1
<1>2. CASE more # jobs
  <2>1. PICK start \in Nat : more = Append(jobs, [item |-> i, first |-> start, last |-> last])
    BY <1>2 DEF Enqueues
  <2> DEFINE job == [item |-> i, first |-> start, last |-> last]
  <2>2. job \in [item: S, first: Int, last: Int]
    OBVIOUS
  <2> HIDE DEF job
  <2>3. Append(jobs, job) \in Jobs(S)
    BY <2>2, AppendProperties DEF Jobs
  <2>4. QED
    BY <2>1, <2>3 DEF job
<1>3. QED
  BY <1>1, <1>2

\* The entries for frames of one item.
LEMMA RemovableLemma ==
    ASSUME NEW S, NEW i \in S, NEW T, NEW frames \in Seq(T)
    PROVE  /\ Removable(i, frames) \in Seq(S \X T)
           /\ Len(Removable(i, frames)) = Len(frames)
           /\ \A k \in 1 .. Len(frames) : Removable(i, frames)[k] = <<i, frames[k]>>
<1>1. PICK n \in Nat : n = Len(frames) /\ DOMAIN frames = 1 .. n
  BY LenProperties
<1>2. \A k \in 1 .. n : frames[k] \in T
  BY <1>1, ElementOfSeq
<1> DEFINE r == [k \in 1 .. n |-> <<i, frames[k]>>]
<1>3. Removable(i, frames) = r
  BY <1>1 DEF Removable
<1>4. r \in [1 .. n -> S \X T] /\ \A k \in 1 .. n : r[k] = <<i, frames[k]>>
  BY <1>2
<1> HIDE DEF r
<1>5. r \in Seq(S \X T)
  BY <1>4, IsASeq
<1>6. DOMAIN r = 1 .. Len(r) /\ Len(r) \in Nat
  BY <1>5, LenProperties
<1>7. Len(r) = n
  BY <1>4, <1>6
<1>8. QED
  BY <1>1, <1>3, <1>4, <1>5, <1>7

\* What is cached of every item of a set is a finite set of frames.
Holds(S, held) == \A i \in S : held[i] \subseteq Nat /\ IsFiniteSet(held[i])

\* getCachedFrames: every cached frame once.
LEMMA CachedFrames ==
    ASSUME NEW S, NEW held, Holds(S, held), NEW i \in S
    PROVE  /\ CachedList(held, i) \in Seq(held[i])
           /\ Distinct(CachedList(held, i))
           /\ Len(CachedList(held, i)) = NrCached(held, i)
<1> DEFINE frames == CachedList(held, i)
           N == NrCached(held, i)
<1>1. /\ N \in Nat
      /\ frames \in [1 .. N -> held[i]]
      /\ \A m, n \in 1 .. N : frames[m] = frames[n] => m = n
  BY CachedListLemma DEF Holds
<1> HIDE DEF frames, N
<1>2. frames \in Seq(held[i])
  BY <1>1, IsASeq
<1>3. DOMAIN frames = 1 .. N
  BY <1>1
<1>4. DOMAIN frames = 1 .. Len(frames) /\ Len(frames) \in Nat
  BY <1>2, LenProperties
<1>5. Len(frames) = N
  BY <1>1, <1>3, <1>4
<1>6. QED
  BY <1>1, <1>2, <1>3, <1>5 DEF frames, N, Distinct
-----------------------------------------------------------------------------
\* Playback: what one item adds to the plan. Frames of it are marked, each once,
\* and none of them is among the frames that are enqueued.
PlayStep(held, p, i, q) ==
    \E part \in Seq(held[i]), first \in Nat, last \in Int :
      /\ Distinct(part)
      /\ q.deq = p.deq \o Removable(i, part)
      /\ Enqueues(p.queue, i, first, last, q.queue)
      /\ q.queue = p.queue \/ \A k \in DOMAIN part : part[k] \notin first .. last

\* The plan made on the way.
PlayPlan(S) == [queue: Jobs(S), deq: Seq(S \X Int), used: Int, adding: BOOLEAN]

\* That is what one round of the playback loop does.
LEMMA AddPlayingLemma ==
    ASSUME NEW S, S \subseteq Item, NEW held, Holds(S, held), NEW max \in Nat,
           NEW cachable \in SUBSET CachableItem, NEW p \in PlayPlan(S), NEW i \in S
    PROVE  /\ AddPlaying(cachable, max, held, p, i) \in PlayPlan(S)
           /\ PlayStep(held, p, i, AddPlaying(cachable, max, held, p, i))
<1> DEFINE space == SpaceOf(i, LastFrame[i] - FirstFrame[i] + 1)
           frames == CachedList(held, i)
           nr == (max - p.used) \div FrameSize[i] + 1
           last == FirstFrame[i] + nr - 1
           some == Outside(frames, FirstFrame[i], last)
           whole == EnqueueCacheJob(p.queue, held, i, FirstFrame[i], LastFrame[i])
           begin == EnqueueCacheJob(p.queue, held, i, FirstFrame[i], last)
           q == AddPlaying(cachable, max, held, p, i)
<1>1. /\ p.queue \in Jobs(S) /\ p.deq \in Seq(S \X Int) /\ p.used \in Int
      /\ p.adding \in BOOLEAN
      /\ p = [queue |-> p.queue, deq |-> p.deq, used |-> p.used, adding |-> p.adding]
  BY DEF PlayPlan
<1>2. /\ FirstFrame[i] \in Nat /\ LastFrame[i] \in Nat /\ FrameSize[i] \in Nat
      /\ i \in Item
  BY RangeType
<1>3. frames \in Seq(held[i]) /\ Distinct(frames) /\ held[i] \subseteq Int
  BY CachedFrames DEF Holds
<1>4. \/ q = [queue |-> whole, deq |-> p.deq, used |-> p.used + space, adding |-> p.adding]
      \/ /\ i \in cachable
         /\ q = [queue |-> begin, deq |-> p.deq \o Removable(i, some),
                 used |-> p.used + SpaceOf(i, nr), adding |-> FALSE]
      \/ q = [queue |-> p.queue, deq |-> p.deq \o Removable(i, frames),
              used |-> p.used, adding |-> p.adding]
  <2> HIDE DEF space, frames, nr, some, whole, begin
  <2>1. q = IF p.adding /\ i \in cachable
              THEN IF p.used + space <= max
                     THEN [p EXCEPT !.queue = whole, !.used = @ + space]
                     ELSE [p EXCEPT !.queue = begin, !.used = @ + SpaceOf(i, nr),
                             !.deq = @ \o Removable(i, some), !.adding = FALSE]
              ELSE [p EXCEPT !.deq = @ \o Removable(i, frames)]
    BY DEF AddPlaying, space, frames, nr, some, whole, begin
  <2> HIDE DEF q
  <2>2. CASE p.adding /\ i \in cachable /\ p.used + space <= max
    <3>1. q = [p EXCEPT !.queue = whole, !.used = @ + space]
      BY <2>1, <2>2
    <3>2. QED
      BY <1>1, <3>1
  <2>3. CASE p.adding /\ i \in cachable /\ ~ (p.used + space <= max)
    <3>1. q = [p EXCEPT !.queue = begin, !.used = @ + SpaceOf(i, nr),
                 !.deq = @ \o Removable(i, some), !.adding = FALSE]
      BY <2>1, <2>3
    <3>2. QED
      BY <1>1, <2>3, <3>1
  <2>4. CASE ~ (p.adding /\ i \in cachable)
    <3>1. q = [p EXCEPT !.deq = @ \o Removable(i, frames)]
      BY <2>1, <2>4
    <3>2. QED
      BY <1>1, <3>1
  <2>5. QED
    BY <2>2, <2>3, <2>4
<1>5. space \in Int
  <2>1. LastFrame[i] - FirstFrame[i] + 1 \in Int
    BY <1>2
  <2>2. QED
    BY <1>2, <2>1, SpaceType
<1>6. ASSUME NEW part, part \in Seq(held[i])
      PROVE  Removable(i, part) \in Seq(S \X Int)
  <2>1. part \in Seq(Int)
    BY <1>3, <1>6, SeqMonotonic
  <2>2. QED
    BY <2>1, RemovableLemma
<1>7. ASSUME NEW r \in Seq(S \X Int)
      PROVE  p.deq \o r \in Seq(S \X Int)
  BY <1>1, ConcatProperties
<1> HIDE DEF space, q
<1>8. CASE q = [queue |-> whole, deq |-> p.deq, used |-> p.used + space, adding |-> p.adding]
  <2>1. Enqueues(p.queue, i, FirstFrame[i], LastFrame[i], whole)
    BY <1>2, EnqueueLemma
  <2> HIDE DEF whole
  <2>2. whole \in Jobs(S)
    BY <1>1, <1>2, <2>1, EnqueueType
  <2>3. q \in PlayPlan(S)
    BY <1>1, <1>5, <1>8, <2>2 DEF PlayPlan
  <2>4. Removable(i, <<>>) = <<>>
    BY DEF Removable
  <2>5. p.deq \o <<>> = p.deq
    BY <1>1, ConcatEmptySeq
  <2>6. /\ <<>> \in Seq(held[i]) /\ Distinct(<<>>)
        /\ \A k \in DOMAIN <<>> : <<>>[k] \notin FirstFrame[i] .. LastFrame[i]
    BY DEF Distinct
  <2>7. q.deq = p.deq \o Removable(i, <<>>) /\ q.queue = whole
    BY <1>8, <2>4, <2>5
  <2>8. LastFrame[i] \in Int
    BY <1>2
  <2>9. PlayStep(held, p, i, q)
    BY <1>2, <2>1, <2>6, <2>7, <2>8 DEF PlayStep
  <2>10. QED
    BY <2>3, <2>9 DEF q
<1>9. CASE /\ i \in cachable
           /\ q = [queue |-> begin, deq |-> p.deq \o Removable(i, some),
                   used |-> p.used + SpaceOf(i, nr), adding |-> FALSE]
  <2>1. FrameSize[i] > 0
    BY <1>9, ItemAssumption
  <2>2. nr \in Int
    <3>1. max - p.used \in Int
      BY <1>1
    <3> DEFINE room == max - p.used
    <3> HIDE DEF room
    <3>2. room \div FrameSize[i] \in Int
      BY <1>2, <2>1, <3>1 DEF room
    <3>3. QED
      BY <3>2 DEF room
  <2>3. last \in Int
    <3> HIDE DEF nr
    <3>1. QED
      BY <1>2, <2>2
  <2> HIDE DEF nr, last, frames
  <2>4. Enqueues(p.queue, i, FirstFrame[i], last, begin)
    BY <1>2, <2>3, EnqueueLemma
  <2>5. /\ some \in Seq(held[i] \cap (Int \ (FirstFrame[i] .. last)))
        /\ Distinct(some)
    BY <1>3, ThoseLemma DEF Outside
  <2> HIDE DEF begin, some
  <2>6. some \in Seq(held[i])
    BY <2>5, SeqMonotonic
  <2>7. \A k \in DOMAIN some : some[k] \notin FirstFrame[i] .. last
    <3>1. DOMAIN some = 1 .. Len(some)
      BY <2>5, LenProperties
    <3>2. \A k \in 1 .. Len(some) : some[k] \in held[i] \cap (Int \ (FirstFrame[i] .. last))
      BY <2>5, ElementOfSeq
    <3>3. QED
      BY <3>1, <3>2
  <2>8. begin \in Jobs(S)
    BY <1>1, <1>2, <2>3, <2>4, EnqueueType
  <2>9. SpaceOf(i, nr) \in Int
    BY <1>2, <2>2, SpaceType
  <2>10. p.deq \o Removable(i, some) \in Seq(S \X Int)
    BY <1>6, <1>7, <2>6
  <2>11. q \in PlayPlan(S)
    BY <1>1, <1>9, <2>8, <2>9, <2>10 DEF PlayPlan
  <2>12. q.deq = p.deq \o Removable(i, some) /\ q.queue = begin
    BY <1>9
  <2>13. PlayStep(held, p, i, q)
    BY <1>2, <2>3, <2>4, <2>5, <2>6, <2>7, <2>12 DEF PlayStep
  <2>14. QED
    BY <2>11, <2>13 DEF q
<1>10. CASE q = [queue |-> p.queue, deq |-> p.deq \o Removable(i, frames),
                 used |-> p.used, adding |-> p.adding]
  <2> HIDE DEF frames
  <2>1. p.deq \o Removable(i, frames) \in Seq(S \X Int)
    BY <1>3, <1>6, <1>7
  <2>2. q \in PlayPlan(S)
    BY <1>1, <1>10, <2>1 DEF PlayPlan
  <2>3. q.deq = p.deq \o Removable(i, frames) /\ q.queue = p.queue
    BY <1>10
  <2>4. Enqueues(p.queue, i, 0, 0, q.queue)
    BY <2>3 DEF Enqueues
  <2>5. 0 \in Nat /\ 0 \in Int
    OBVIOUS
  <2>6. PlayStep(held, p, i, q)
    BY <1>3, <2>3, <2>4, <2>5 DEF PlayStep
  <2>7. QED
    BY <2>2, <2>6 DEF q
<1>11. QED
  BY <1>4, <1>8, <1>9, <1>10

\* ... and the items one after the other.
PlaysAlong(S, held, list, h, value) ==
    /\ h[Len(list)] = value
    /\ h[0] = [queue |-> <<>>, deq |-> <<>>, used |-> 0, adding |-> TRUE]
    /\ \A n \in 0 .. Len(list) : h[n] \in PlayPlan(S)
    /\ \A n \in 1 .. Len(list) : PlayStep(held, h[n - 1], list[n], h[n])

\* The playback loop is a sequence of such rounds.
LEMMA PlayFold ==
    ASSUME NEW S, S \subseteq Item, NEW held, Holds(S, held), NEW max \in Nat,
           NEW cachable \in SUBSET CachableItem, NEW list \in Seq(S)
    PROVE  \E h : PlaysAlong(S, held, list, h, PlayAlong(cachable, max, held, list))
<1>1. PICK N \in Nat : N = Len(list) /\ DOMAIN list = 1 .. N /\ \A n \in 1 .. N : list[n] \in S
  BY LenProperties, ElementOfSeq
<1> DEFINE C == PlayPlan(S)
           start == [queue |-> <<>>, deq |-> <<>>, used |-> 0, adding |-> TRUE]
           G == [q \in (1 .. N) \X C |-> AddPlaying(cachable, max, held, q[2], list[q[1]])]
           Step(f, s) == IF s = {} THEN start
                         ELSE AddPlaying(cachable, max, held, f[s \ {Max(s)}], list[Max(s)])
           iter == CHOOSE f : f = [s \in SUBSET (1 .. N) |-> Step(f, s)]
           value == PlayAlong(cachable, max, held, list)
<1>2. value = iter[1 .. N]
  BY <1>1 DEF PlayAlong, FoldLeft, MapThenFoldSet
<1>3. ASSUME NEW n \in 1 .. N, NEW p \in C
      PROVE  /\ AddPlaying(cachable, max, held, p, list[n]) \in C
             /\ PlayStep(held, p, list[n], AddPlaying(cachable, max, held, p, list[n]))
  BY <1>1, AddPlayingLemma
<1>4. start \in C
  BY EmptySeq DEF PlayPlan, Jobs
<1> HIDE DEF C, start
<1>5. G \in [(1 .. N) \X C -> C]
  BY <1>3
<1>6. \A s \in SUBSET (1 .. N) : s # {} => Max(s) \in 1 .. N
  BY MaxOfPositions
<1>7. \E f : f = [s \in SUBSET (1 .. N) |-> Step(f, s)]
  <2> HIDE DEF G
  <2>1. PICK f : IsFold(f, N, C, start, G)
    BY <1>4, <1>5, FoldRecursion
  <2> USE DEF G
  <2>2. ASSUME NEW s \in SUBSET (1 .. N)
        PROVE  f[s] = Step(f, s)
    <3>1. CASE s = {}
      BY <2>1, <3>1 DEF IsFold
    <3>2. CASE s # {}
      <4>1. f[s] = G[<<Max(s), f[s \ {Max(s)}]>>]
        BY <2>1, <3>2 DEF IsFold
      <4>2. f[s \ {Max(s)}] \in C /\ Max(s) \in 1 .. N
        BY <2>1, <1>6, <3>2 DEF IsFold
      <4>3. QED
        BY <4>1, <4>2, <3>2
    <3>3. QED
      BY <3>1, <3>2
  <2>3. f = [s \in SUBSET (1 .. N) |-> f[s]]
    BY <2>1 DEF IsFold
  <2>4. f = [s \in SUBSET (1 .. N) |-> Step(f, s)]
    <3> HIDE DEF Step
    <3>1. QED
      BY <2>2, <2>3
  <2>5. QED
    BY <2>4
<1>8. iter = [s \in SUBSET (1 .. N) |-> Step(iter, s)]
  <2> HIDE DEF Step
  <2>1. QED
    BY <1>7
<1> HIDE DEF iter, value
<1>9. FoldsTyped(iter, N, C, start, G)
  <2>1. iter[{}] = start
    BY <1>8
  <2>2. ASSUME NEW s \in SUBSET (1 .. N), s # {}, iter[s \ {Max(s)}] \in C
        PROVE  iter[s] = G[<<Max(s), iter[s \ {Max(s)}]>>]
    <3>1. iter[s] = Step(iter, s) /\ Max(s) \in 1 .. N
      BY <1>6, <1>8, <2>2
    <3>2. QED
      BY <2>2, <3>1
  <2> HIDE DEF G
  <2>3. QED
    BY <2>1, <2>2 DEF FoldsTyped
<1>10. PICK h : IsRecursion(h, N, C, start, G, iter[1 .. N])
  <2> HIDE DEF G
  <2>1. QED
    BY <1>4, <1>5, <1>9, FoldByPosition
<1>11. \A n \in 0 .. N : h[n] \in C
  BY <1>10 DEF IsRecursion
<1>12. ASSUME NEW n \in 1 .. N
       PROVE  PlayStep(held, h[n - 1], list[n], h[n])
  <2>1. h[n] = G[<<n, h[n - 1]>>] /\ h[n - 1] \in C
    <3> HIDE DEF G
    <3>1. n - 1 \in 0 .. N
      OBVIOUS
    <3>2. QED
      BY <1>10, <3>1 DEF IsRecursion
  <2>2. h[n] = AddPlaying(cachable, max, held, h[n - 1], list[n])
    BY <2>1
  <2>3. QED
    BY <1>3, <2>1, <2>2
<1>13. h[0] = start /\ h[N] = value
  BY <1>2, <1>10 DEF IsRecursion
<1>14. PlaysAlong(S, held, list, h, value)
  BY <1>1, <1>11, <1>12, <1>13 DEF PlaysAlong, C, start
<1>15. QED
  BY <1>14 DEF value

\* What has been marked and enqueued when the first n items of a list have been seen:
\* cached frames of them, each once, none that is enqueued, in the order of the list.
Marked(held, list, n, deq) ==
    \A m \in DOMAIN deq : \E k \in 1 .. n : deq[m][1] = list[k] /\ deq[m][2] \in held[list[k]]
Enqueued(list, n, queue) ==
    \A j \in DOMAIN queue : \E k \in 1 .. n : queue[j].item = list[k]
Apart(deq, queue) ==
    \A m \in DOMAIN deq, j \in DOMAIN queue :
      queue[j].item = deq[m][1] => deq[m][2] \notin queue[j].first .. queue[j].last
Ordered(list, n, deq) ==
    \A k, l \in 1 .. n : \A m, o \in DOMAIN deq :
      m < o /\ deq[m][1] = list[k] /\ deq[o][1] = list[l] => k <= l

Split(held, list, n, p) ==
    /\ Marked(held, list, n, p.deq)
    /\ Enqueued(list, n, p.queue)
    /\ Distinct(p.deq)
    /\ Apart(p.deq, p.queue)
    /\ Ordered(list, n, p.deq)

\* One more item keeps the entries apart, and in the order of the list.
LEMMA SplitStep ==
    ASSUME NEW S, NEW held, Holds(S, held), NEW list \in Seq(S), Distinct(list),
           NEW n \in 1 .. Len(list), NEW p \in PlayPlan(S), NEW q \in PlayPlan(S),
           Split(held, list, n - 1, p), PlayStep(held, p, list[n], q)
    PROVE  Split(held, list, n, q)
<1> DEFINE i == list[n]
<1>1. /\ Len(list) \in Nat /\ DOMAIN list = 1 .. Len(list)
      /\ \A k \in 1 .. Len(list) : list[k] \in S
  BY LenProperties, ElementOfSeq
<1>2. i \in S /\ \A k \in 1 .. n - 1 : k \in 1 .. n /\ list[k] # i
  <2>1. \A k \in 1 .. n - 1 : k \in DOMAIN list /\ n \in DOMAIN list /\ k # n /\ k \in 1 .. n
    BY <1>1
  <2>2. \A k \in 1 .. n - 1 : list[k] # list[n]
    BY <2>1 DEF Distinct
  <2>3. QED
    BY <1>1, <2>1, <2>2
<1>3. held[i] \subseteq Int
  BY <1>2 DEF Holds
<1> HIDE DEF i
<1>4. PICK part \in Seq(held[i]), first \in Nat, last \in Int :
        /\ Distinct(part)
        /\ q.deq = p.deq \o Removable(i, part)
        /\ Enqueues(p.queue, i, first, last, q.queue)
        /\ q.queue = p.queue \/ \A k \in DOMAIN part : part[k] \notin first .. last
  BY DEF PlayStep, i
<1> DEFINE r == Removable(i, part)
<1>5. PICK M \in Nat, R \in Nat :
        /\ DOMAIN p.deq = 1 .. M /\ DOMAIN part = 1 .. R /\ DOMAIN q.deq = 1 .. M + R
        /\ \A m \in 1 .. M + R : q.deq[m] = IF m <= M THEN p.deq[m] ELSE r[m - M]
        /\ \A k \in 1 .. R : r[k] = <<i, part[k]>> /\ part[k] \in held[i]
  <2>1. p.deq \in Seq(S \X Int) /\ q.deq \in Seq(S \X Int)
    BY DEF PlayPlan
  <2>2. part \in Seq(Int)
    BY <1>3, SeqMonotonic
  <2>3. r \in Seq(S \X Int) /\ Len(r) = Len(part)
        /\ \A k \in 1 .. Len(part) : r[k] = <<i, part[k]>>
    <3>1. i \in S
      BY <1>2
    <3>2. Removable(i, part) \in Seq(S \X Int) /\ Len(Removable(i, part)) = Len(part)
      BY <2>2, <3>1, RemovableLemma
    <3>3. \A k \in 1 .. Len(part) : Removable(i, part)[k] = <<i, part[k]>>
      BY DEF Removable
    <3>4. QED
      BY <3>2, <3>3
  <2> HIDE DEF r
  <2>4. /\ Len(p.deq \o r) = Len(p.deq) + Len(r)
        /\ \A m \in 1 .. Len(p.deq) + Len(r) :
             (p.deq \o r)[m] = IF m <= Len(p.deq) THEN p.deq[m] ELSE r[m - Len(p.deq)]
    <3>1. p.deq \in Seq(S \X Int) /\ r \in Seq(S \X Int)
      BY <2>1, <2>3
    <3>2. QED
      BY ONLY <3>1, ConcatProperties
  <2>5. /\ Len(p.deq) \in Nat /\ DOMAIN p.deq = 1 .. Len(p.deq)
        /\ Len(q.deq) \in Nat /\ DOMAIN q.deq = 1 .. Len(q.deq)
    BY <2>1, LenProperties
  <2>6. Len(part) \in Nat /\ DOMAIN part = 1 .. Len(part)
        /\ \A k \in 1 .. Len(part) : part[k] \in held[i]
    BY LenProperties, ElementOfSeq
  <2>7. q.deq = p.deq \o r
    BY <1>4 DEF r
  <2>8. PICK M \in Nat, R \in Nat : M = Len(p.deq) /\ R = Len(part)
    BY <2>5, <2>6
  <2>9. DOMAIN p.deq = 1 .. M /\ DOMAIN part = 1 .. R /\ Len(r) = R
    BY <2>3, <2>5, <2>6, <2>8
  <2>10. DOMAIN q.deq = 1 .. M + R
    BY <2>4, <2>5, <2>7, <2>8, <2>9
  <2>11. \A m \in 1 .. M + R : q.deq[m] = IF m <= M THEN p.deq[m] ELSE r[m - M]
    BY <2>4, <2>7, <2>8, <2>9
  <2>12. \A k \in 1 .. R : r[k] = <<i, part[k]>> /\ part[k] \in held[i]
    BY <2>3, <2>6, <2>8
  <2>13. QED
    BY <2>9, <2>10, <2>11, <2>12
<1> HIDE DEF r
<1>6. \A m \in 1 .. M : m \in 1 .. M + R /\ q.deq[m] = p.deq[m]
  BY <1>5
<1>7. \A m \in 1 .. M + R : m \notin 1 .. M =>
        /\ m - M \in 1 .. R
        /\ q.deq[m] = <<i, part[m - M]>> /\ part[m - M] \in held[i]
  <2>1. \A m \in 1 .. M + R : m \notin 1 .. M => m - M \in 1 .. R /\ ~ (m <= M)
    OBVIOUS
  <2>2. QED
    BY <1>5, <2>1
<1>8. Marked(held, list, n - 1, p.deq) /\ Enqueued(list, n - 1, p.queue) /\ Distinct(p.deq)
      /\ Apart(p.deq, p.queue) /\ Ordered(list, n - 1, p.deq)
  BY DEF Split
<1>9. n \in 1 .. n
  BY <1>1
<1>10. \A m \in 1 .. M : p.deq[m][1] # i
  <2>1. \A m \in DOMAIN p.deq : \E k \in 1 .. n - 1 : p.deq[m][1] = list[k]
    BY ONLY <1>8 DEF Marked
  <2>2. \A m \in DOMAIN p.deq : p.deq[m][1] # i
    BY ONLY <1>2, <2>1
  <2>3. QED
    BY ONLY <1>5, <2>2
<1>11. Marked(held, list, n, q.deq)
  <2>1. ASSUME NEW m \in DOMAIN q.deq
        PROVE  \E k \in 1 .. n : q.deq[m][1] = list[k] /\ q.deq[m][2] \in held[list[k]]
    <3>1. CASE m \in 1 .. M
      <4>1. PICK k \in 1 .. n - 1 : p.deq[m][1] = list[k] /\ p.deq[m][2] \in held[list[k]]
        BY <1>5, <1>8, <3>1 DEF Marked
      <4>2. QED
        BY <1>2, <1>6, <3>1, <4>1
    <3>2. CASE m \notin 1 .. M
      BY <1>5, <1>7, <1>9, <3>2 DEF i
    <3>3. QED
      BY <3>1, <3>2
  <2>2. QED
    BY <2>1 DEF Marked
<1>12. Distinct(q.deq)
  <2>1. ASSUME NEW m \in 1 .. M + R, NEW o \in 1 .. M + R, q.deq[m] = q.deq[o]
        PROVE  m = o
    <3>1. CASE m \in 1 .. M /\ o \in 1 .. M
      BY <1>5, <1>6, <1>8, <2>1, <3>1 DEF Distinct
    <3>2. CASE m \in 1 .. M /\ o \notin 1 .. M
      <4>1. q.deq[o][1] = i /\ q.deq[m][1] # i
        BY <1>6, <1>7, <1>10, <3>2
      <4>2. QED
        BY <2>1, <4>1
    <3>3. CASE m \notin 1 .. M /\ o \in 1 .. M
      <4>1. q.deq[m][1] = i /\ q.deq[o][1] # i
        BY <1>6, <1>7, <1>10, <3>3
      <4>2. QED
        BY <2>1, <4>1
    <3>4. CASE m \notin 1 .. M /\ o \notin 1 .. M
      <4>1. m - M \in 1 .. R /\ o - M \in 1 .. R /\ part[m - M] = part[o - M]
        BY <1>7, <2>1, <3>4
      <4>2. m - M = o - M
        BY <1>4, <1>5, <4>1 DEF Distinct
      <4>3. QED
        BY <4>2
    <3>5. QED
      BY <3>1, <3>2, <3>3, <3>4
  <2>2. QED
    BY <1>5, <2>1 DEF Distinct
<1>13. Ordered(list, n, q.deq)
  <2>1. ASSUME NEW k \in 1 .. n, NEW l \in 1 .. n, NEW m \in 1 .. M + R, NEW o \in 1 .. M + R,
               m < o, q.deq[m][1] = list[k], q.deq[o][1] = list[l]
        PROVE  k <= l
    <3>1. CASE o \notin 1 .. M
      <4>1. list[l] = i
        BY <1>7, <2>1, <3>1
      <4>2. l = n
        BY <1>2, <4>1
      <4>3. QED
        BY <1>1, <4>2
    <3>2. CASE o \in 1 .. M
      <4>1. m \in 1 .. M
        BY <2>1, <3>2
      <4>2. p.deq[m][1] = list[k] /\ p.deq[o][1] = list[l]
        BY <1>6, <2>1, <3>2, <4>1
      <4>3. k # n /\ l # n
        BY <1>10, <3>2, <4>1, <4>2 DEF i
      <4>4. k \in 1 .. n - 1 /\ l \in 1 .. n - 1
        BY <4>3
      <4>5. QED
        BY <1>5, <1>8, <2>1, <3>2, <4>1, <4>2, <4>4 DEF Ordered
    <3>3. QED
      BY <3>1, <3>2
  <2>2. QED
    BY <1>5, <2>1 DEF Ordered
<1>14. CASE q.queue = p.queue
  <2>1. Enqueued(list, n, q.queue)
    BY <1>2, <1>8, <1>14 DEF Enqueued
  <2>2. ASSUME NEW m \in 1 .. M + R, NEW j \in DOMAIN p.queue, p.queue[j].item = q.deq[m][1]
        PROVE  q.deq[m][2] \notin p.queue[j].first .. p.queue[j].last
    <3>1. m \in 1 .. M
      <4>1. p.queue[j].item # i
        BY <1>2, <1>8 DEF Enqueued
      <4>2. QED
        BY <1>7, <2>2, <4>1
    <3>2. QED
      BY <1>5, <1>6, <1>8, <2>2, <3>1 DEF Apart
  <2>3. Apart(q.deq, q.queue)
    BY <1>5, <1>14, <2>2 DEF Apart
  <2>4. QED
    BY <1>11, <1>12, <1>13, <2>1, <2>3 DEF Split
<1>15. CASE q.queue # p.queue
  <2>1. PICK start \in Nat :
          /\ first <= start
          /\ q.queue = Append(p.queue, [item |-> i, first |-> start, last |-> last])
    BY <1>4, <1>15 DEF Enqueues
  <2> DEFINE job == [item |-> i, first |-> start, last |-> last]
  <2>2. job.item = i /\ job.first = start /\ job.last = last
    OBVIOUS
  <2>3. PICK Q \in Nat : /\ DOMAIN p.queue = 1 .. Q /\ DOMAIN q.queue = 1 .. Q + 1
                         /\ \A j \in 1 .. Q : q.queue[j] = p.queue[j]
                         /\ q.queue[Q + 1] = job
    <3>1. p.queue \in Seq([item: S, first: Int, last: Int])
      BY DEF PlayPlan, Jobs
    <3>2. job \in [item: S, first: Int, last: Int]
      BY <1>2
    <3> HIDE DEF job
    <3>3. q.queue = Append(p.queue, job)
      BY <2>1 DEF job
    <3>4. /\ Append(p.queue, job) \in Seq([item: S, first: Int, last: Int])
          /\ Len(Append(p.queue, job)) = Len(p.queue) + 1
          /\ \A j \in 1 .. Len(p.queue) : Append(p.queue, job)[j] = p.queue[j]
          /\ Append(p.queue, job)[Len(p.queue) + 1] = job
      BY <3>1, <3>2, AppendProperties
    <3>5. /\ Len(p.queue) \in Nat /\ DOMAIN p.queue = 1 .. Len(p.queue)
      BY <3>1, LenProperties
    <3>6. DOMAIN q.queue = 1 .. Len(p.queue) + 1
      BY <3>3, <3>4, LenProperties
    <3>7. QED
      BY <3>3, <3>4, <3>5, <3>6
  <2> HIDE DEF job
  <2>4. \A j \in 1 .. Q + 1 : j \in 1 .. Q \/ j = Q + 1
    OBVIOUS
  <2>5. Enqueued(list, n, q.queue)
    <3>1. ASSUME NEW j \in 1 .. Q + 1
          PROVE  \E k \in 1 .. n : q.queue[j].item = list[k]
      <4>1. CASE j \in 1 .. Q
        BY <1>2, <1>8, <2>3, <4>1 DEF Enqueued
      <4>2. CASE j = Q + 1
        BY <1>9, <2>2, <2>3, <4>2 DEF i
      <4>3. QED
        BY <2>4, <4>1, <4>2
    <3>2. QED
      BY <2>3, <3>1 DEF Enqueued
  <2>6. ASSUME NEW m \in 1 .. M + R, NEW j \in 1 .. Q + 1, q.queue[j].item = q.deq[m][1]
        PROVE  q.deq[m][2] \notin q.queue[j].first .. q.queue[j].last
    <3>1. CASE j \in 1 .. Q
      <4>1. p.queue[j].item # i
        BY <1>2, <1>8, <2>3, <3>1 DEF Enqueued
      <4>2. m \in 1 .. M
        BY <1>7, <2>3, <2>6, <3>1, <4>1
      <4>3. QED
        BY <1>5, <1>6, <1>8, <2>3, <2>6, <3>1, <4>2 DEF Apart
    <3>2. CASE j = Q + 1
      <4>1. q.deq[m][1] = i
        BY <2>2, <2>3, <2>6, <3>2
      <4>2. m \notin 1 .. M
        BY <1>6, <1>10, <4>1
      <4>3. m - M \in DOMAIN part /\ q.deq[m][2] = part[m - M]
        BY <1>5, <1>7, <4>2
      <4>4. part[m - M] \notin first .. last
        BY <1>4, <1>15, <4>3
      <4>5. start .. last \subseteq first .. last
        BY <2>1
      <4>6. QED
        BY <2>2, <2>3, <3>2, <4>3, <4>4, <4>5
    <3>3. QED
      BY <2>4, <3>1, <3>2
  <2>7. Apart(q.deq, q.queue)
    BY <1>5, <2>3, <2>6 DEF Apart
  <2>8. QED
    BY <1>11, <1>12, <1>13, <2>5, <2>7 DEF Split
<1>16. QED
  BY <1>14, <1>15

\* std::reverse: the last entry becomes the first.
LEMMA ReverseLemma ==
    ASSUME NEW E, NEW list \in Seq(E)
    PROVE  /\ Reverse(list) \in Seq(E)
           /\ DOMAIN Reverse(list) = DOMAIN list
           /\ \A m \in DOMAIN list : /\ Len(list) - m + 1 \in DOMAIN list
                                     /\ Reverse(list)[m] = list[Len(list) - m + 1]
<1>1. PICK N \in Nat : N = Len(list) /\ DOMAIN list = 1 .. N /\ \A n \in 1 .. N : list[n] \in E
  BY LenProperties, ElementOfSeq
<1> DEFINE r == [n \in 1 .. N |-> list[N - n + 1]]
<1>2. \A n \in 1 .. N : N - n + 1 \in 1 .. N
  OBVIOUS
<1>3. Reverse(list) = r
  BY <1>1 DEF Reverse
<1>4. r \in [1 .. N -> E] /\ \A n \in 1 .. N : r[n] = list[N - n + 1]
  BY <1>1, <1>2
<1> HIDE DEF r
<1>5. r \in Seq(E)
  BY <1>4, IsASeq
<1>6. DOMAIN r = 1 .. N
  BY <1>4
<1>7. QED
  BY <1>1, <1>2, <1>3, <1>4, <1>5, <1>6

\* Along the list the entries stay apart.
LEMMA PlaySplits ==
    ASSUME NEW S, NEW held, Holds(S, held), NEW list \in Seq(S), Distinct(list),
           NEW h, NEW value, PlaysAlong(S, held, list, h, value)
    PROVE  value \in PlayPlan(S) /\ Split(held, list, Len(list), value)
<1>1. PICK N \in Nat : N = Len(list)
  BY LenProperties
<1> DEFINE T == {n \in 0 .. N : Split(held, list, n, h[n])}
<1>2. 0 \in T
  <2>1. h[0] = [queue |-> <<>>, deq |-> <<>>, used |-> 0, adding |-> TRUE]
    BY DEF PlaysAlong
  <2>2. h[0].queue = <<>> /\ h[0].deq = <<>>
    BY <2>1
  <2>3. DOMAIN <<>> = {}
    OBVIOUS
  <2>4. Split(held, list, 0, h[0])
    BY <2>2, <2>3 DEF Split, Marked, Enqueued, Distinct, Apart, Ordered
  <2>5. QED
    BY <2>4
<1>3. ASSUME NEW n \in 0 .. N, n # N, n \in T
      PROVE  n + 1 \in T
  <2>1. n + 1 \in 1 .. N /\ n + 1 \in 0 .. N /\ (n + 1) - 1 = n
    BY <1>3, NextNumber
  <2>2. h[n] \in PlayPlan(S) /\ h[n + 1] \in PlayPlan(S)
        /\ PlayStep(held, h[n], list[n + 1], h[n + 1])
    BY <1>1, <2>1 DEF PlaysAlong
  <2>3. Split(held, list, (n + 1) - 1, h[n])
    BY <1>3, <2>1
  <2>4. Split(held, list, n + 1, h[n + 1])
    BY <1>1, <2>1, <2>2, <2>3, SplitStep
  <2>5. QED
    BY <2>1, <2>4
<1>4. N \in T
  <2> HIDE DEF T
  <2>1. \A n \in 0 .. N : n \in T
    BY <1>2, <1>3, Induction
  <2>2. QED
    BY <2>1
<1>5. QED
  BY <1>1, <1>4 DEF PlaysAlong

\* The plan that is made during playback.
Separates(held, plan) ==
    /\ \A m \in DOMAIN plan.deq : plan.deq[m][2] \in held[plan.deq[m][1]]
    /\ Distinct(plan.deq)
    /\ Apart(plan.deq, plan.queue)

FarthestFirst(list, deq) ==
    \A m, o \in DOMAIN deq, k, l \in DOMAIN list :
      m < o /\ deq[m][1] = list[k] /\ deq[o][1] = list[l] => k >= l

\* The plan made during playback has both properties.
LEMMA PlanPlayingLemma ==
    ASSUME NEW S, S \subseteq Item, NEW items, ListsAll(items, S), NEW held, Holds(S, held),
           NEW max \in Nat, NEW cachable \in SUBSET CachableItem, NEW pos \in DOMAIN items
    PROVE  LET plan == PlanPlaying(items, cachable, pos, max, held)
           IN  /\ plan.queue \in Jobs(S) /\ plan.deq \in Seq(S \X Int)
               /\ Separates(held, plan)
               /\ FarthestFirst(Forwards(items, pos), plan.deq)
<1> DEFINE turned == Forwards(items, pos)
           list == Those(turned, IndexedByFrame)
           p == PlayAlong(cachable, max, held, list)
           plan == PlanPlaying(items, cachable, pos, max, held)
<1>1. ListsAll(turned, S)
  <2>1. pos \in 1 .. Len(items)
    BY LenProperties DEF ListsAll
  <2>2. QED
    BY <2>1, ForwardsLemma
<1> HIDE DEF turned
<1>2. turned \in Seq(S) /\ Distinct(turned)
  BY <1>1 DEF ListsAll
<1>3. list \in Seq(S \cap IndexedByFrame) /\ Distinct(list)
  BY <1>2, ThoseLemma
<1>4. list \in Seq(S)
  <2> HIDE DEF list
  <2>1. QED
    BY <1>3, SeqMonotonic
<1>5. \A k, l \in DOMAIN list : k < l => Follows(turned, list[k], list[l])
  <2> DEFINE K == {k \in DOMAIN turned : turned[k] \in IndexedByFrame}
  <2>1. list = Part(turned, K)
    BY DEF Those
  <2> HIDE DEF K, list
  <2>2. QED
    BY <1>2, <2>1, PartInOrder
<1>6. plan.queue = p.queue /\ plan.deq = Reverse(p.deq)
  <2> HIDE DEF p
  <2>1. plan = [queue |-> p.queue, deq |-> Reverse(p.deq)]
    BY DEF PlanPlaying, turned, p
  <2> HIDE DEF plan
  <2>2. QED
    BY <2>1
<1> HIDE DEF list, plan
<1>7. p \in PlayPlan(S) /\ Split(held, list, Len(list), p)
  <2> HIDE DEF p
  <2>1. PICK h : PlaysAlong(S, held, list, h, p)
    BY <1>4, PlayFold DEF p
  <2>2. QED
    BY <1>3, <1>4, <2>1, PlaySplits
<1> HIDE DEF p
<1>8. p.queue \in Jobs(S) /\ p.deq \in Seq(S \X Int)
  BY <1>7 DEF PlayPlan
<1>9. PICK M \in Nat : M = Len(p.deq) /\ DOMAIN p.deq = 1 .. M
  BY <1>8, LenProperties
<1>10. /\ plan.deq \in Seq(S \X Int) /\ DOMAIN plan.deq = 1 .. M
       /\ \A m \in 1 .. M : M - m + 1 \in 1 .. M /\ plan.deq[m] = p.deq[M - m + 1]
  <2>1. /\ Reverse(p.deq) \in Seq(S \X Int)
        /\ DOMAIN Reverse(p.deq) = DOMAIN p.deq
        /\ \A m \in DOMAIN p.deq : /\ Len(p.deq) - m + 1 \in DOMAIN p.deq
                                   /\ Reverse(p.deq)[m] = p.deq[Len(p.deq) - m + 1]
    BY <1>8, ReverseLemma
  <2>2. QED
    BY <1>6, <1>9, <2>1
<1>11. PICK L \in Nat : L = Len(list) /\ DOMAIN list = 1 .. L
  BY <1>4, LenProperties
<1>12. Separates(held, plan)
  <2>1. ASSUME NEW m \in 1 .. M
        PROVE  plan.deq[m][2] \in held[plan.deq[m][1]]
    <3>1. PICK k \in 1 .. L : p.deq[M - m + 1][1] = list[k] /\ p.deq[M - m + 1][2] \in held[list[k]]
      BY <1>7, <1>9, <1>10, <1>11 DEF Split, Marked
    <3>2. QED
      BY <1>10, <3>1
  <2>2. ASSUME NEW m \in 1 .. M, NEW o \in 1 .. M, plan.deq[m] = plan.deq[o]
        PROVE  m = o
    <3>1. /\ M - m + 1 \in DOMAIN p.deq /\ M - o + 1 \in DOMAIN p.deq
          /\ p.deq[M - m + 1] = p.deq[M - o + 1]
      BY <1>9, <1>10, <2>2
    <3>2. M - m + 1 = M - o + 1
      BY <1>7, <3>1 DEF Split, Distinct
    <3>3. QED
      BY <3>2
  <2>3. Apart(plan.deq, plan.queue)
    <3>1. ASSUME NEW m \in 1 .. M, NEW j \in DOMAIN p.queue, p.queue[j].item = plan.deq[m][1]
          PROVE  plan.deq[m][2] \notin p.queue[j].first .. p.queue[j].last
      <4>1. M - m + 1 \in DOMAIN p.deq /\ p.deq[M - m + 1] = plan.deq[m]
        BY <1>9, <1>10
      <4>2. Apart(p.deq, p.queue)
        BY <1>7 DEF Split
      <4>3. QED
        BY <3>1, <4>1, <4>2 DEF Apart
    <3>2. QED
      BY <1>6, <1>10, <3>1 DEF Apart
  <2>4. Distinct(plan.deq)
    BY <1>10, <2>2 DEF Distinct
  <2>5. QED
    BY <1>10, <2>1, <2>3, <2>4 DEF Separates
<1>13. FarthestFirst(turned, plan.deq)
  <2>1. ASSUME NEW m \in 1 .. M, NEW o \in 1 .. M, NEW k \in DOMAIN turned, NEW l \in DOMAIN turned,
               m < o, plan.deq[m][1] = turned[k], plan.deq[o][1] = turned[l]
        PROVE  k >= l
    <3> DEFINE x == M - m + 1
               y == M - o + 1
    <3>1. x \in 1 .. M /\ y \in 1 .. M /\ y < x
      BY <1>10, <2>1
    <3>2. p.deq[x][1] = turned[k] /\ p.deq[y][1] = turned[l]
      BY <1>10, <2>1
    <3> HIDE DEF x, y
    <3>3. PICK u \in 1 .. L, v \in 1 .. L : p.deq[x][1] = list[u] /\ p.deq[y][1] = list[v]
      <4>1. \A m_1 \in DOMAIN p.deq : \E u \in 1 .. L : p.deq[m_1][1] = list[u]
        <5>1. Marked(held, list, L, p.deq)
          BY <1>7, <1>11 DEF Split
        <5>2. QED
          BY ONLY <5>1 DEF Marked
      <4>2. x \in DOMAIN p.deq /\ y \in DOMAIN p.deq
        BY <1>9, <3>1
      <4>3. (\E u \in 1 .. L : p.deq[x][1] = list[u]) /\ (\E v \in 1 .. L : p.deq[y][1] = list[v])
        BY ONLY <4>1, <4>2
      <4>4. QED
        BY ONLY <4>3
    <3>4. v <= u
      <4>1. Ordered(list, L, p.deq)
        BY <1>7, <1>11 DEF Split
      <4>2. QED
        BY <1>9, <3>1, <3>3, <4>1 DEF Ordered
    <3>5. CASE v = u
      <4>1. turned[k] = turned[l]
        BY <3>2, <3>3, <3>5
      <4>2. k = l
        BY <1>2, <4>1 DEF Distinct
      <4>3. DOMAIN turned = 1 .. Len(turned)
        BY <1>2, LenProperties
      <4>4. QED
        BY <4>2, <4>3
    <3>6. CASE v < u
      <4>1. Follows(turned, list[v], list[u])
        BY <1>5, <1>11, <3>6
      <4>2. PICK q \in DOMAIN turned, r \in DOMAIN turned :
              q < r /\ list[v] = turned[q] /\ list[u] = turned[r]
        BY <4>1 DEF Follows
      <4>3. q = l /\ r = k
        BY <1>2, <3>2, <3>3, <4>2 DEF Distinct
      <4>4. DOMAIN turned = 1 .. Len(turned) /\ Len(turned) \in Nat
        BY <1>2, LenProperties
      <4>5. QED
        BY <4>2, <4>3, <4>4
    <3>7. QED
      BY <3>4, <3>5, <3>6
  <2>2. QED
    BY <1>10, <2>1 DEF FarthestFirst
<1>14. QED
  BY <1>6, <1>8, <1>10, <1>12, <1>13 DEF plan, turned

\* A list of items whose cached frames are marked one after the other.
LEMMA RemovableFrames ==
    ASSUME NEW S, NEW held, Holds(S, held), NEW i \in S, NEW deq \in Seq(S \X Int)
    PROVE  deq \o Removable(i, CachedList(held, i)) \in Seq(S \X Int)
<1>1. CachedList(held, i) \in Seq(held[i]) /\ held[i] \subseteq Int
  BY CachedFrames DEF Holds
<1>2. CachedList(held, i) \in Seq(Int)
  BY <1>1, SeqMonotonic
<1>3. Removable(i, CachedList(held, i)) \in Seq(S \X Int)
  BY <1>2, RemovableLemma
<1>4. QED
  BY <1>3, ConcatProperties

\* Entries are cached frames of the items at some positions, each listed once.
Taken(held, list, R, deq) ==
    /\ Distinct(deq)
    /\ \A m \in DOMAIN deq : \E k \in R : deq[m][1] = list[k] /\ deq[m][2] \in held[list[k]]

\* They still are with frames of one more item.
LEMMA TakenStep ==
    ASSUME NEW S, NEW held, Holds(S, held), NEW list \in Seq(S), Distinct(list),
           NEW R \in SUBSET DOMAIN list, NEW p \in DOMAIN list, p \notin R,
           NEW deq \in Seq(S \X Int), Taken(held, list, R, deq),
           NEW part \in Seq(held[list[p]]), Distinct(part)
    PROVE  Taken(held, list, R \cup {p}, deq \o Removable(list[p], part))
<1> DEFINE i == list[p]
           r == Removable(i, part)
           more == deq \o r
<1>1. i \in S /\ held[i] \subseteq Int
  <2>1. i \in S
    BY LenProperties, ElementOfSeq
  <2>2. QED
    BY <2>1 DEF Holds
<1>2. \A k \in R : list[k] # i
  BY DEF Distinct
<1> HIDE DEF i
<1>3. PICK M \in Nat, N \in Nat :
        /\ DOMAIN deq = 1 .. M /\ DOMAIN part = 1 .. N /\ DOMAIN more = 1 .. M + N
        /\ \A m \in 1 .. M + N : more[m] = IF m <= M THEN deq[m] ELSE r[m - M]
        /\ \A k \in 1 .. N : r[k] = <<i, part[k]>> /\ part[k] \in held[i]
  <2>1. part \in Seq(Int) /\ part \in Seq(held[i])
    BY <1>1, SeqMonotonic DEF i
  <2>2. r \in Seq(S \X Int) /\ Len(r) = Len(part)
        /\ \A k \in 1 .. Len(part) : r[k] = <<i, part[k]>>
    <3>1. r \in Seq(S \X Int) /\ Len(r) = Len(part)
      BY <1>1, <2>1, RemovableLemma
    <3>2. \A k \in 1 .. Len(part) : r[k] = <<i, part[k]>>
      BY DEF Removable
    <3> HIDE DEF r
    <3>3. QED
      BY <3>1, <3>2
  <2> HIDE DEF r
  <2>3. /\ Len(more) = Len(deq) + Len(r) /\ more \in Seq(S \X Int)
        /\ \A m \in 1 .. Len(deq) + Len(r) :
             more[m] = IF m <= Len(deq) THEN deq[m] ELSE r[m - Len(deq)]
    BY <2>2, ConcatProperties
  <2> HIDE DEF more
  <2>4. PICK M \in Nat, N \in Nat : M = Len(deq) /\ N = Len(part)
    BY <2>1, LenProperties
  <2>5. DOMAIN deq = 1 .. M /\ DOMAIN part = 1 .. N /\ DOMAIN more = 1 .. M + N
    BY <2>1, <2>2, <2>3, <2>4, LenProperties
  <2>6. \A k \in 1 .. N : part[k] \in held[i]
    BY <2>1, <2>4, ElementOfSeq
  <2>7. QED
    BY <2>2, <2>3, <2>4, <2>5, <2>6
<1> HIDE DEF r, more
<1>4. \A m \in 1 .. M : m \in 1 .. M + N /\ more[m] = deq[m] /\ deq[m][1] # i
  <2>1. \A m \in 1 .. M : m \in 1 .. M + N /\ more[m] = deq[m]
    BY <1>3
  <2>2. \A m \in 1 .. M : deq[m][1] # i
    <3>1. \A m \in DOMAIN deq : \E k \in R : deq[m][1] = list[k]
      BY DEF Taken
    <3>2. \A m \in DOMAIN deq : deq[m][1] # i
      BY ONLY <1>2, <3>1
    <3>3. QED
      BY ONLY <1>3, <3>2
  <2>3. QED
    BY <2>1, <2>2
<1>5. \A m \in 1 .. M + N : m \notin 1 .. M =>
        /\ m - M \in 1 .. N
        /\ more[m] = <<i, part[m - M]>> /\ part[m - M] \in held[i]
  <2>1. \A m \in 1 .. M + N : m \notin 1 .. M => m - M \in 1 .. N /\ ~ (m <= M)
    OBVIOUS
  <2>2. QED
    BY <1>3, <2>1
<1>6. Distinct(more)
  <2>1. ASSUME NEW m \in 1 .. M + N, NEW o \in 1 .. M + N, more[m] = more[o]
        PROVE  m = o
    <3>1. CASE m \in 1 .. M /\ o \in 1 .. M
      <4>1. deq[m] = deq[o]
        BY <1>4, <2>1, <3>1
      <4>2. m \in DOMAIN deq /\ o \in DOMAIN deq
        BY <1>3, <3>1
      <4>3. QED
        BY <4>1, <4>2 DEF Taken, Distinct
    <3>2. CASE m \notin 1 .. M /\ o \notin 1 .. M
      <4>1. part[m - M] = part[o - M] /\ m - M \in 1 .. N /\ o - M \in 1 .. N
        BY <1>5, <2>1, <3>2
      <4>2. m - M = o - M
        BY <1>3, <4>1 DEF Distinct
      <4>3. QED
        BY <4>2
    <3>3. m \in 1 .. M <=> o \in 1 .. M
      <4>1. m \in 1 .. M => more[m][1] # i
        BY <1>4
      <4>2. o \in 1 .. M => more[o][1] # i
        BY <1>4
      <4>3. m \notin 1 .. M => more[m][1] = i
        BY <1>5
      <4>4. o \notin 1 .. M => more[o][1] = i
        BY <1>5
      <4>5. QED
        BY <2>1, <4>1, <4>2, <4>3, <4>4
    <3>4. QED
      BY <3>1, <3>2, <3>3
  <2>2. QED
    BY <1>3, <2>1 DEF Distinct
<1>7. ASSUME NEW m \in 1 .. M + N
      PROVE  \E k \in R \cup {p} : more[m][1] = list[k] /\ more[m][2] \in held[list[k]]
  <2>1. CASE m \in 1 .. M
    <3>1. PICK k \in R : deq[m][1] = list[k] /\ deq[m][2] \in held[list[k]]
      BY <1>3, <2>1 DEF Taken
    <3>2. QED
      BY <1>4, <2>1, <3>1
  <2>2. CASE m \notin 1 .. M
    BY <1>5, <2>2 DEF i
  <2>3. QED
    BY <2>1, <2>2
<1>8. QED
  BY <1>3, <1>6, <1>7 DEF Taken, more, r, i

\* The entries for a list of items are the cached frames of these items, each once.
LEMMA RemovableType ==
    ASSUME NEW S, NEW held, Holds(S, held), NEW list \in Seq(S), Distinct(list)
    PROVE  /\ RemovableOf(held, list) \in Seq(S \X Int)
           /\ Taken(held, list, DOMAIN list, RemovableOf(held, list))
<1>1. PICK N \in Nat : N = Len(list) /\ DOMAIN list = 1 .. N /\ \A n \in 1 .. N : list[n] \in S
  BY LenProperties, ElementOfSeq
<1> DEFINE C == Seq(S \X Int)
           G == [q \in (1 .. N) \X C |->
                   q[2] \o Removable(list[q[1]], CachedList(held, list[q[1]]))]
           Step(f, s) == IF s = {} THEN <<>>
                         ELSE f[s \ {Max(s)}]
                                \o Removable(list[Max(s)], CachedList(held, list[Max(s)]))
           iter == CHOOSE f : f = [s \in SUBSET (1 .. N) |-> Step(f, s)]
           value == RemovableOf(held, list)
<1>2. value = iter[1 .. N]
  BY <1>1 DEF RemovableOf, FoldLeft, MapThenFoldSet
<1>3. \A n \in 1 .. N, d \in C : d \o Removable(list[n], CachedList(held, list[n])) \in C
  BY <1>1, RemovableFrames
<1>4. <<>> \in C
  BY EmptySeq
<1> HIDE DEF C
<1>5. G \in [(1 .. N) \X C -> C]
  BY <1>3
<1>6. \A s \in SUBSET (1 .. N) : s # {} => Max(s) \in 1 .. N
  BY MaxOfPositions
<1>7. \E f : f = [s \in SUBSET (1 .. N) |-> Step(f, s)]
  <2> HIDE DEF G
  <2>1. PICK f : IsFold(f, N, C, <<>>, G)
    BY <1>4, <1>5, FoldRecursion
  <2> USE DEF G
  <2>2. ASSUME NEW s \in SUBSET (1 .. N)
        PROVE  f[s] = Step(f, s)
    <3>1. CASE s = {}
      BY <2>1, <3>1 DEF IsFold
    <3>2. CASE s # {}
      <4>1. f[s] = G[<<Max(s), f[s \ {Max(s)}]>>]
        BY <2>1, <3>2 DEF IsFold
      <4>2. f[s \ {Max(s)}] \in C /\ Max(s) \in 1 .. N
        BY <2>1, <1>6, <3>2 DEF IsFold
      <4>3. QED
        BY <4>1, <4>2, <3>2
    <3>3. QED
      BY <3>1, <3>2
  <2>3. f = [s \in SUBSET (1 .. N) |-> f[s]]
    BY <2>1 DEF IsFold
  <2>4. f = [s \in SUBSET (1 .. N) |-> Step(f, s)]
    <3> HIDE DEF Step
    <3>1. QED
      BY <2>2, <2>3
  <2>5. QED
    BY <2>4
<1>8. iter = [s \in SUBSET (1 .. N) |-> Step(iter, s)]
  <2> HIDE DEF Step
  <2>1. QED
    BY <1>7
<1> HIDE DEF iter, value
<1>9. FoldsTyped(iter, N, C, <<>>, G)
  <2>1. iter[{}] = <<>>
    BY <1>8
  <2>2. ASSUME NEW s \in SUBSET (1 .. N), s # {}, iter[s \ {Max(s)}] \in C
        PROVE  iter[s] = G[<<Max(s), iter[s \ {Max(s)}]>>]
    <3>1. iter[s] = Step(iter, s) /\ Max(s) \in 1 .. N
      BY <1>6, <1>8, <2>2
    <3>2. QED
      BY <2>2, <3>1
  <2> HIDE DEF G
  <2>3. QED
    BY <2>1, <2>2 DEF FoldsTyped
<1>10. PICK h : IsRecursion(h, N, C, <<>>, G, iter[1 .. N])
  <2> HIDE DEF G
  <2>1. QED
    BY <1>4, <1>5, <1>9, FoldByPosition
<1>11. \A n \in 0 .. N : h[n] \in C
  BY <1>10 DEF IsRecursion
<1>12. h[0] = <<>> /\ h[N] = iter[1 .. N]
  BY <1>10 DEF IsRecursion
<1> DEFINE T == {n \in 0 .. N : Taken(held, list, 1 .. n, h[n])}
<1>13. ASSUME NEW n \in 0 .. N, n # N, n \in T
       PROVE  n + 1 \in T
  <2>1. n + 1 \in 1 .. N /\ n + 1 \in 0 .. N /\ (n + 1) - 1 = n /\ n + 1 \notin 1 .. n
    BY <1>13, NextNumber
  <2> DEFINE frames == CachedList(held, list[n + 1])
  <2>2. h[n + 1] = h[n] \o Removable(list[n + 1], frames)
    <3>1. h[n + 1] = G[<<n + 1, h[n]>>] /\ h[n] \in C
      <4> HIDE DEF G
      <4>1. QED
        BY <1>10, <1>11, <2>1 DEF IsRecursion
    <3>2. QED
      BY <2>1, <3>1
  <2>3. frames \in Seq(held[list[n + 1]]) /\ Distinct(frames)
    BY <1>1, <2>1, CachedFrames
  <2>4. /\ 1 .. n \in SUBSET DOMAIN list /\ n + 1 \in DOMAIN list /\ h[n] \in Seq(S \X Int)
        /\ Taken(held, list, 1 .. n, h[n])
    BY <1>1, <1>11, <1>13, <2>1 DEF C
  <2> HIDE DEF frames, T, G, Step
  <2>5. Taken(held, list, (1 .. n) \cup {n + 1}, h[n + 1])
    <3>1. PICK R \in SUBSET DOMAIN list, p \in DOMAIN list, deq \in Seq(S \X Int) :
            R = 1 .. n /\ p = n + 1 /\ deq = h[n]
      BY <2>4
    <3>2. Taken(held, list, R \cup {p}, deq \o Removable(list[p], frames))
      BY <2>1, <2>3, <2>4, <3>1, TakenStep
    <3>3. QED
      BY <2>2, <3>1, <3>2
  <2>6. (1 .. n) \cup {n + 1} = 1 .. n + 1
    BY <2>1
  <2>7. QED
    BY <2>1, <2>5, <2>6 DEF T
<1>14. 0 \in T
  BY <1>1, <1>12 DEF Taken, Distinct
<1>15. N \in T
  <2> HIDE DEF T
  <2>1. \A n \in 0 .. N : n \in T
    BY <1>13, <1>14, Induction
  <2>2. QED
    BY <2>1
<1>16. iter[1 .. N] \in C
  BY <1>11, <1>12
<1>17. QED
  BY <1>1, <1>2, <1>12, <1>15, <1>16 DEF C, value

\* All that can be removed is cached, and each frame can be removed once.
Keeps(held, deq) == Distinct(deq) /\ \A m \in DOMAIN deq : deq[m][2] \in held[deq[m][1]]

\* Playback is not running: what an item after the selected one adds to the plan.
FollowPlan(S) == [queue: Jobs(S), full: BOOLEAN]

\* One more item leaves a plan of the type above.
LEMMA AddFollowingType ==
    ASSUME NEW S, S \subseteq Item, NEW held, Holds(S, held), NEW max \in Nat, NEW base \in Int,
           NEW p \in FollowPlan(S), NEW i \in S \cap CachableItem
    PROVE  AddFollowing(max, held, base, p, i) \in FollowPlan(S)
<1> DEFINE others == base - SpaceOf(i, NrCached(held, i))
           space == SpaceOf(i, LastFrame[i] - FirstFrame[i] + 1)
           nr == (max - others) \div FrameSize[i]
           last == FirstFrame[i] + nr - 1
           whole == EnqueueCacheJob(p.queue, held, i, FirstFrame[i], LastFrame[i])
           begin == EnqueueCacheJob(p.queue, held, i, FirstFrame[i], last)
           q == AddFollowing(max, held, base, p, i)
<1>1. /\ p.queue \in Jobs(S) /\ p.full \in BOOLEAN
      /\ p = [queue |-> p.queue, full |-> p.full]
  BY DEF FollowPlan
<1>2. /\ FirstFrame[i] \in Nat /\ LastFrame[i] \in Nat /\ FrameSize[i] \in Nat
      /\ i \in Item /\ i \in S
  BY RangeType
<1>3. FrameSize[i] > 0
  BY ItemAssumption
<1>4. SpaceOf(i, NrCached(held, i)) \in Nat
  BY <1>2, HeldType DEF Holds
<1>5. others \in Int
  BY <1>4
<1>6. space \in Int
  <2>1. LastFrame[i] - FirstFrame[i] + 1 \in Int
    BY <1>2
  <2>2. QED
    BY <1>2, <2>1, SpaceType
<1> HIDE DEF others, space
<1>7. last \in Int
  <2> DEFINE room == max - others
  <2>1. room \in Int
    BY <1>5
  <2> HIDE DEF room
  <2>2. room \div FrameSize[i] \in Int
    BY <1>2, <1>3, <2>1
  <2>3. nr \in Int
    BY <2>2 DEF room
  <2> HIDE DEF nr
  <2>4. QED
    BY <1>2, <2>3
<1> HIDE DEF nr, last
<1>8. whole \in Jobs(S) /\ begin \in Jobs(S)
  <2>1. /\ Enqueues(p.queue, i, FirstFrame[i], LastFrame[i], whole)
        /\ Enqueues(p.queue, i, FirstFrame[i], last, begin)
    BY <1>2, <1>7, EnqueueLemma
  <2> HIDE DEF whole, begin
  <2>2. whole \in Jobs(S)
    BY <1>1, <1>2, <2>1, EnqueueType
  <2>3. begin \in Jobs(S)
    BY <1>1, <1>2, <1>7, <2>1, EnqueueType
  <2>4. QED
    BY <2>2, <2>3
<1>9. q = CASE p.full -> p
            [] ~p.full /\ space + others <= max -> [p EXCEPT !.queue = whole]
            [] ~p.full /\ space + others > max -> [queue |-> begin, full |-> TRUE]
  BY DEF AddFollowing, others, space, nr, last, whole, begin
<1> HIDE DEF whole, begin, q
<1>10. CASE p.full
  <2>1. q = p
    BY <1>9, <1>10
  <2>2. QED
    BY <2>1 DEF q
<1>11. CASE ~p.full /\ space + others <= max
  <2>1. q = [p EXCEPT !.queue = whole]
    BY <1>5, <1>6, <1>9, <1>11
  <2>2. q = [queue |-> whole, full |-> p.full]
    BY <1>1, <2>1
  <2>3. QED
    BY <1>1, <1>8, <2>2 DEF FollowPlan, q
<1>12. CASE ~p.full /\ space + others > max
  <2>1. q = [queue |-> begin, full |-> TRUE]
    BY <1>5, <1>6, <1>9, <1>12
  <2>2. QED
    BY <1>8, <2>1 DEF FollowPlan, q
<1>13. QED
  BY <1>1, <1>5, <1>6, <1>10, <1>11, <1>12 DEF q

\* The items after the selected one add jobs of items of the list only.
LEMMA FollowType ==
    ASSUME NEW S, S \subseteq Item, NEW held, Holds(S, held), NEW max \in Nat, NEW base \in Int,
           NEW own \in Jobs(S), NEW list \in Seq(S \cap CachableItem)
    PROVE  FollowAlong(max, held, base, own, list).queue \in Jobs(S)
<1>1. PICK N \in Nat : /\ N = Len(list) /\ DOMAIN list = 1 .. N
                       /\ \A n \in 1 .. N : list[n] \in S \cap CachableItem
  BY LenProperties, ElementOfSeq
<1> DEFINE C == FollowPlan(S)
           start == [queue |-> own, full |-> FALSE]
           G == [q \in (1 .. N) \X C |-> AddFollowing(max, held, base, q[2], list[q[1]])]
           Step(f, s) == IF s = {} THEN start
                         ELSE AddFollowing(max, held, base, f[s \ {Max(s)}], list[Max(s)])
           iter == CHOOSE f : f = [s \in SUBSET (1 .. N) |-> Step(f, s)]
           value == FollowAlong(max, held, base, own, list)
<1>2. value = iter[1 .. N]
  BY <1>1 DEF FollowAlong, FoldLeft, MapThenFoldSet
<1>3. \A n \in 1 .. N, p \in C : AddFollowing(max, held, base, p, list[n]) \in C
  BY <1>1, AddFollowingType
<1>4. start \in C
  BY DEF FollowPlan
<1> HIDE DEF C, start
<1>5. G \in [(1 .. N) \X C -> C]
  BY <1>3
<1>6. \A s \in SUBSET (1 .. N) : s # {} => Max(s) \in 1 .. N
  BY MaxOfPositions
<1>7. \E f : f = [s \in SUBSET (1 .. N) |-> Step(f, s)]
  <2> HIDE DEF G
  <2>1. PICK f : IsFold(f, N, C, start, G)
    BY <1>4, <1>5, FoldRecursion
  <2> USE DEF G
  <2>2. ASSUME NEW s \in SUBSET (1 .. N)
        PROVE  f[s] = Step(f, s)
    <3>1. CASE s = {}
      BY <2>1, <3>1 DEF IsFold
    <3>2. CASE s # {}
      <4>1. f[s] = G[<<Max(s), f[s \ {Max(s)}]>>]
        BY <2>1, <3>2 DEF IsFold
      <4>2. f[s \ {Max(s)}] \in C /\ Max(s) \in 1 .. N
        BY <2>1, <1>6, <3>2 DEF IsFold
      <4>3. QED
        BY <4>1, <4>2, <3>2
    <3>3. QED
      BY <3>1, <3>2
  <2>3. f = [s \in SUBSET (1 .. N) |-> f[s]]
    BY <2>1 DEF IsFold
  <2>4. f = [s \in SUBSET (1 .. N) |-> Step(f, s)]
    <3> HIDE DEF Step
    <3>1. QED
      BY <2>2, <2>3
  <2>5. QED
    BY <2>4
<1>8. iter = [s \in SUBSET (1 .. N) |-> Step(iter, s)]
  <2> HIDE DEF Step
  <2>1. QED
    BY <1>7
<1> HIDE DEF iter, value
<1>9. FoldsTyped(iter, N, C, start, G)
  <2>1. iter[{}] = start
    BY <1>8
  <2>2. ASSUME NEW s \in SUBSET (1 .. N), s # {}, iter[s \ {Max(s)}] \in C
        PROVE  iter[s] = G[<<Max(s), iter[s \ {Max(s)}]>>]
    <3>1. iter[s] = Step(iter, s) /\ Max(s) \in 1 .. N
      BY <1>6, <1>8, <2>2
    <3>2. QED
      BY <2>2, <3>1
  <2> HIDE DEF G
  <2>3. QED
    BY <2>1, <2>2 DEF FoldsTyped
<1>10. PICK h : IsRecursion(h, N, C, start, G, iter[1 .. N])
  <2> HIDE DEF G
  <2>1. QED
    BY <1>4, <1>5, <1>9, FoldByPosition
<1>11. value \in C
  BY <1>2, <1>10 DEF IsRecursion
<1>12. QED
  BY <1>11 DEF C, value, FollowPlan

\* The plan for a selected item that fits.
LEMMA PlanFollowingType ==
    ASSUME NEW S, S \subseteq Item, NEW items, ListsAll(items, S), NEW pos \in DOMAIN items,
           NEW c, Levelled(items, c), Holds(S, c.cached), NEW max \in Nat,
           NEW cachable \in SUBSET CachableItem, NEW additional \in Int
    PROVE  LET plan == PlanFollowing(items, cachable, pos, max, c, additional)
           IN  plan.queue \in Jobs(S) /\ plan.deq \in Seq(S \X Int) /\ Keeps(c.cached, plan.deq)
<1> DEFINE sel == items[pos]
           own == IF additional > 0
                    THEN EnqueueCacheJob(<<>>, c.cached, sel, FirstFrame[sel], LastFrame[sel])
                    ELSE <<>>
           base == IF additional > 0 THEN c.level + additional ELSE c.level
           turned == Forwards(items, pos)
           list == Those(Tail(turned), cachable)
           plan == PlanFollowing(items, cachable, pos, max, c, additional)
<1>1. sel \in S /\ pos \in 1 .. Len(items) /\ Len(items) \in Nat
  BY LenProperties, ElementOfSeq DEF ListsAll
<1>2. FirstFrame[sel] \in Nat /\ LastFrame[sel] \in Nat
  BY <1>1, RangeType
<1>3. base \in Int
  BY DEF Levelled
<1>4. own \in Jobs(S)
  <2>1. <<>> \in Jobs(S)
    BY EmptySeq DEF Jobs
  <2> DEFINE job == EnqueueCacheJob(<<>>, c.cached, sel, FirstFrame[sel], LastFrame[sel])
  <2>2. Enqueues(<<>>, sel, FirstFrame[sel], LastFrame[sel], job)
    BY <1>2, EnqueueLemma
  <2> HIDE DEF job, sel
  <2>3. job \in Jobs(S)
    BY <1>1, <1>2, <2>1, <2>2, EnqueueType
  <2>4. QED
    BY <2>1, <2>3 DEF job
<1>5. list \in Seq(S \cap CachableItem)
  <2>1. turned \in Seq(S) /\ Len(turned) = Len(items)
    BY <1>1, ForwardsLemma DEF ListsAll
  <2> HIDE DEF turned
  <2>2. turned # <<>>
    BY <1>1, <2>1
  <2>3. Tail(turned) \in Seq(S)
    BY <2>1, <2>2, HeadTailProperties
  <2>4. list \in Seq(S \cap cachable)
    BY <2>3, ThoseLemma
  <2> HIDE DEF list
  <2>5. S \cap cachable \subseteq S \cap CachableItem
    OBVIOUS
  <2>6. QED
    BY <2>4, <2>5, SeqMonotonic
<1>6. plan = [queue |-> FollowAlong(max, c.cached, base, own, list).queue, deq |-> <<>>]
  BY DEF PlanFollowing
<1> HIDE DEF own, base, list, plan
<1>7. FollowAlong(max, c.cached, base, own, list).queue \in Jobs(S)
  BY <1>3, <1>4, <1>5, FollowType
<1>8. Keeps(c.cached, <<>>)
  BY DEF Keeps, Distinct
<1>9. QED
  BY <1>6, <1>7, <1>8, EmptySeq DEF plan

\* The plan for a selected item that is larger than the cache.
LEMMA PlanTooLargeType ==
    ASSUME NEW S, S \subseteq Item, NEW items, ListsAll(items, S), NEW held, Holds(S, held),
           NEW max \in Nat, NEW sel \in S \cap CachableItem
    PROVE  LET plan == PlanTooLarge(items, sel, max, held)
           IN  plan.queue \in Jobs(S) /\ plan.deq \in Seq(S \X Int) /\ Keeps(held, plan.deq)
<1> DEFINE last == FirstFrame[sel] + max \div FrameSize[sel] - 1
           queue == EnqueueCacheJob(<<>>, held, sel, FirstFrame[sel], last)
           list == Those(items, Item \ {sel})
           plan == PlanTooLarge(items, sel, max, held)
<1>1. FirstFrame[sel] \in Nat /\ FrameSize[sel] \in Nat /\ FrameSize[sel] > 0
  BY RangeType, ItemAssumption
<1>2. last \in Int
  BY <1>1
<1>3. queue \in Jobs(S)
  <2> HIDE DEF last
  <2>1. <<>> \in Jobs(S)
    BY EmptySeq DEF Jobs
  <2>2. Enqueues(<<>>, sel, FirstFrame[sel], last, queue)
    BY <1>1, <1>2, EnqueueLemma
  <2> HIDE DEF queue
  <2>3. QED
    BY <1>1, <1>2, <2>1, <2>2, EnqueueType
<1>4. list \in Seq(S) /\ Distinct(list)
  <2>1. list \in Seq(S \cap (Item \ {sel})) /\ Distinct(list)
    BY ThoseLemma DEF ListsAll
  <2> HIDE DEF list
  <2>2. QED
    BY <2>1, SeqMonotonic
<1>5. plan = [queue |-> queue, deq |-> RemovableOf(held, list)]
  BY DEF PlanTooLarge
<1> HIDE DEF queue, list, plan
<1>6. RemovableOf(held, list) \in Seq(S \X Int) /\ Keeps(held, RemovableOf(held, list))
  <2>1. /\ RemovableOf(held, list) \in Seq(S \X Int)
        /\ Taken(held, list, DOMAIN list, RemovableOf(held, list))
    BY <1>4, RemovableType
  <2>2. QED
    BY <2>1 DEF Taken, Keeps
<1>7. QED
  BY <1>3, <1>5, <1>6 DEF plan

-----------------------------------------------------------------------------
\* The deleting loop: the item that the round looks at, and what it does to the state.
LoopState(S, n) == [i: 0 .. n, others: Int, deq: Seq(S \X Int), stop: BOOLEAN]

Visited(items, pos, k) ==
    LET before == IF k = pos THEN k - 1 ELSE k
    IN  IF before < 1 THEN Len(items) ELSE before

DeleteStep(items, pos, max, held, needed, s, t) ==
    LET i == Visited(items, pos, s.i)
        it == items[i]
        stop == s.stop \/ needed + s.others <= max
    IN  \/ stop /\ t.stop /\ t.deq = s.deq
        \/ /\ ~ stop
           /\ \/ t.deq = s.deq
              \/ \E part \in Seq(held[it]) :
                   Distinct(part) /\ t.deq = s.deq \o Removable(it, part)
           /\ \/ needed + t.others <= max
              \/ t.i = i - 1 /\ t.others <= s.others - SpaceOf(it, NrCached(held, it))

\* One round of the deleting loop.
LEMMA DeleteRoundLemma ==
    ASSUME NEW S, S \subseteq Item, NEW items, ListsAll(items, S), NEW pos \in DOMAIN items,
           NEW max \in Nat, NEW held, Holds(S, held), NEW needed \in Int, NEW additional \in Int,
           NEW s \in LoopState(S, Len(items))
    PROVE  LET t == DeleteRound(items, pos, max, held, needed, additional, s)
           IN  /\ t \in LoopState(S, Len(items))
               /\ DeleteStep(items, pos, max, held, needed, s, t)
<1> DEFINE before == IF s.i = pos THEN s.i - 1 ELSE s.i
           i == Visited(items, pos, s.i)
           it == items[i]
           frames == CachedList(held, it)
           K == Len(frames)
           space == SpaceOf(it, K)
           Enough == {k \in 1 .. K : k = K \/ s.others - SpaceOf(it, k) + needed <= max}
           n == Min(Enough)
           back == Removable(it, [k \in 1 .. n |-> frames[K + 1 - k]])
           all == Removable(it, frames)
           stop == s.stop \/ needed + s.others <= max
           t == DeleteRound(items, pos, max, held, needed, additional, s)
<1>1. PICK N \in Nat : /\ N = Len(items) /\ DOMAIN items = 1 .. N
                       /\ \A k \in 1 .. N : items[k] \in S
  BY LenProperties, ElementOfSeq DEF ListsAll
<1>2. /\ s.i \in 0 .. N /\ s.others \in Int /\ s.deq \in Seq(S \X Int) /\ s.stop \in BOOLEAN
      /\ s = [i |-> s.i, others |-> s.others, deq |-> s.deq, stop |-> s.stop]
  BY <1>1 DEF LoopState
<1>3. i \in 1 .. N
  BY <1>1, <1>2 DEF Visited
<1>4. it \in S /\ held[it] \subseteq Int
  BY <1>1, <1>3 DEF Holds
<1>5. t = CASE stop -> [s EXCEPT !.stop = TRUE]
            [] ~stop /\ K = 0 -> [s EXCEPT !.i = i - 1]
            [] ~stop /\ K # 0 /\ additional < space -> Mark(s, i, pos, back)
            [] ~stop /\ K # 0 /\ additional >= space -> Mark(s, i, pos, all)
  BY DEF DeleteRound, Visited
<1> HIDE DEF i, it, t
<1>6. /\ frames \in Seq(held[it]) /\ K = NrCached(held, it) /\ Distinct(frames)
  BY <1>4, CachedFrames
<1>7. K \in Nat /\ DOMAIN frames = 1 .. K /\ \A k \in 1 .. K : frames[k] \in held[it]
  BY <1>6, LenProperties, ElementOfSeq
<1> HIDE DEF frames, K
<1>8. \A k \in Nat : SpaceOf(it, k) \in Nat
  BY <1>4, SpaceType
<1>9. space \in Nat
  BY <1>7, <1>8
<1>10. i - 1 \in 0 .. N
  BY <1>3
<1>11. CASE stop
  <2>1. t = [s EXCEPT !.stop = TRUE]
    BY <1>5, <1>11
  <2>2. t = [i |-> s.i, others |-> s.others, deq |-> s.deq, stop |-> TRUE]
    BY <1>2, <2>1
  <2>3. t \in LoopState(S, N) /\ t.stop /\ t.deq = s.deq
    BY <1>2, <2>2 DEF LoopState
  <2>4. DeleteStep(items, pos, max, held, needed, s, t)
    BY <1>11, <2>3 DEF DeleteStep
  <2>5. QED
    BY <1>1, <2>3, <2>4 DEF t
<1>12. CASE ~stop /\ K = 0
  <2>1. t = [s EXCEPT !.i = i - 1]
    BY <1>5, <1>12
  <2>2. t = [i |-> i - 1, others |-> s.others, deq |-> s.deq, stop |-> s.stop]
    BY <1>2, <2>1
  <2>3. t \in LoopState(S, N)
    BY <1>2, <1>10, <2>2 DEF LoopState
  <2>4. t.i = i - 1 /\ t.others = s.others /\ t.deq = s.deq
    BY <2>2
  <2>5. SpaceOf(it, K) = 0
    <3>1. FrameSize[it] \in Nat
      BY <1>4, RangeType
    <3>2. QED
      BY <1>12, <3>1 DEF SpaceOf
  <2>6. t.others <= s.others - SpaceOf(it, NrCached(held, it))
    BY <1>2, <1>6, <2>4, <2>5
  <2>7. DeleteStep(items, pos, max, held, needed, s, t)
    BY <1>12, <2>4, <2>6 DEF DeleteStep, i, it
  <2>8. QED
    BY <1>1, <2>3, <2>7 DEF t
<1>13. ASSUME NEW part, part \in Seq(held[it]), Distinct(part), Len(part) # 0,
              ~stop, t = Mark(s, i, pos, Removable(it, part)),
              \/ s.others - SpaceOf(it, Len(part)) + needed <= max
              \/ Len(part) = K
       PROVE  /\ t \in LoopState(S, N)
              /\ DeleteStep(items, pos, max, held, needed, s, t)
  <2> DEFINE r == Removable(it, part)
             m == Len(part)
  <2>1. m \in Nat /\ 1 \in 1 .. m /\ part \in Seq(Int)
    <3>1. part \in Seq(Int)
      BY <1>4, <1>13, SeqMonotonic
    <3>2. QED
      BY <1>13, <3>1, LenProperties
  <2>2. r \in Seq(S \X Int) /\ Len(r) = m
    BY <1>4, <2>1, RemovableLemma
  <2>3. r[1][1] = it
    BY <2>1 DEF Removable
  <2> HIDE DEF r, m
  <2>4. t = [i |-> i - 1, others |-> s.others - SpaceOf(it, m), deq |-> s.deq \o r,
             stop |-> i = pos - 1]
    BY <1>13, <2>2, <2>3 DEF Mark, r
  <2>5. s.deq \o r \in Seq(S \X Int)
    BY <1>2, <2>2, ConcatProperties
  <2>6. SpaceOf(it, m) \in Nat
    BY <1>8, <2>1
  <2>7. t \in LoopState(S, N)
    <3>1. (i = pos - 1) \in BOOLEAN
      OBVIOUS
    <3>2. s.others - SpaceOf(it, m) \in Int
      BY <1>2, <2>6
    <3>3. QED
      BY <1>10, <2>4, <2>5, <3>1, <3>2 DEF LoopState
  <2>8. t.i = i - 1 /\ t.others = s.others - SpaceOf(it, m) /\ t.deq = s.deq \o r
    BY <2>4
  <2>9. \/ needed + t.others <= max
        \/ t.others <= s.others - SpaceOf(it, NrCached(held, it))
    <3>1. CASE m = K
      <4>1. s.others - SpaceOf(it, m) \in Int
        BY <1>2, <2>6
      <4>2. QED
        BY <1>6, <2>8, <3>1, <4>1
    <3>2. CASE s.others - SpaceOf(it, m) + needed <= max
      BY <1>2, <2>6, <2>8, <3>2
    <3>3. QED
      BY <1>13, <3>1, <3>2 DEF m
  <2>10. DeleteStep(items, pos, max, held, needed, s, t)
    <3>1. \E new \in Seq(held[it]) : Distinct(new) /\ t.deq = s.deq \o Removable(it, new)
      BY <1>13, <2>8 DEF r
    <3>2. QED
      BY <1>13, <2>8, <2>9, <3>1 DEF DeleteStep, i, it
  <2>11. QED
    BY <2>7, <2>10
<1>14. CASE ~stop /\ K # 0 /\ additional < space
  <2>1. K \in Enough /\ Enough \subseteq Nat
    BY <1>7, <1>14
  <2>2. n \in Enough
    <3> HIDE DEF Enough
    <3>1. QED
      BY <2>1, LeastOf
  <2>3. n \in 1 .. K /\ (n = K \/ s.others - SpaceOf(it, n) + needed <= max)
    BY <2>2
  <2> HIDE DEF n, Enough
  <2> DEFINE part == [k \in 1 .. n |-> frames[K + 1 - k]]
  <2>4. \A k \in 1 .. n : K + 1 - k \in 1 .. K /\ frames[K + 1 - k] \in held[it]
    <3>1. \A k \in 1 .. n : K + 1 - k \in 1 .. K
      BY <1>7, <2>3
    <3>2. QED
      BY <1>7, <3>1
  <2>5. n \in Nat
    BY <1>7, <2>3
  <2>6. part \in [1 .. n -> held[it]] /\ DOMAIN part = 1 .. n
    BY <2>4
  <2>7. part \in Seq(held[it]) /\ Distinct(part)
    <3>1. \A k, m \in 1 .. n : part[k] = part[m] => k = m
      <4>1. ASSUME NEW k \in 1 .. n, NEW m \in 1 .. n, part[k] = part[m]
            PROVE  k = m
        <5>1. frames[K + 1 - k] = frames[K + 1 - m]
          BY <4>1
        <5>2. K + 1 - k = K + 1 - m
          BY <1>6, <1>7, <2>4, <5>1 DEF Distinct
        <5>3. QED
          BY <1>7, <2>5, <5>2
      <4>2. QED
        BY <4>1
    <3> HIDE DEF part
    <3>2. QED
      BY <2>5, <2>6, <3>1, IsASeq DEF Distinct
  <2>8. Len(part) = n
    <3>1. DOMAIN part = 1 .. Len(part) /\ Len(part) \in Nat
      <4> HIDE DEF part
      <4>1. QED
        BY <2>7, LenProperties
    <3> HIDE DEF part
    <3>2. QED
      BY <2>5, <2>6, <3>1
  <2>9. t = Mark(s, i, pos, Removable(it, part))
    <3>1. t = Mark(s, i, pos, back)
      BY <1>5, <1>7, <1>9, <1>14
    <3>2. QED
      BY <3>1
  <2> HIDE DEF part
  <2>10. /\ t \in LoopState(S, N)
         /\ DeleteStep(items, pos, max, held, needed, s, t)
    <3>1. Len(part) # 0
      BY <2>3, <2>8
    <3>2. \/ s.others - SpaceOf(it, Len(part)) + needed <= max
          \/ Len(part) = K
      BY <2>3, <2>8
    <3>3. QED
      BY <1>13, <1>14, <2>7, <2>9, <3>1, <3>2
  <2>11. QED
    BY <1>1, <2>10 DEF t
<1>15. CASE ~stop /\ K # 0 /\ additional >= space
  <2>1. t = Mark(s, i, pos, Removable(it, frames))
    BY <1>5, <1>7, <1>9, <1>15
  <2>2. Len(frames) = K
    BY DEF K
  <2>3. /\ t \in LoopState(S, N)
        /\ DeleteStep(items, pos, max, held, needed, s, t)
    BY <1>6, <1>13, <1>15, <2>1, <2>2
  <2>4. QED
    BY <1>1, <2>3 DEF t
<1>16. QED
  BY <1>7, <1>9, <1>11, <1>12, <1>14, <1>15

\* Going back from any position, an item that is indexed by frame is found.
LEMMA PrevIndexedLemma ==
    ASSUME NEW S, NEW items, ListsAll(items, S), NEW pos \in DOMAIN items,
           items[pos] \in IndexedByFrame, NEW i \in 0 .. Len(items)
    PROVE  PrevIndexed(items, i) \in 1 .. Len(items)
<1>1. PICK n \in Nat : n = Len(items) /\ DOMAIN items = 1 .. n
  BY LenProperties DEF ListsAll
<1>2. n \in Nat \ {0} /\ pos \in 1 .. n /\ i \in 0 .. n
  BY <1>1
<1> DEFINE Near == {d \in 0 .. n - 1 : items[Wrap(n, i - d)] \in IndexedByFrame}
           k == Min(Near)
<1>3. Near # {}
  <2>1. CASE i >= pos
    <3>1. i - pos \in 0 .. n - 1 /\ i - (i - pos) = pos
      BY <1>2, <2>1
    <3>2. Wrap(n, pos) = pos
      BY <1>2, WrapLemma
    <3>3. i - pos \in Near
      BY <3>1, <3>2
    <3>4. QED
      BY <3>3
  <2>2. CASE ~ (i >= pos)
    <3> DEFINE d == i - pos + n
    <3>1. d \in 0 .. n - 1 /\ i - d = pos - n /\ pos - n \in 1 - n .. 0
      BY <1>2, <2>2
    <3>2. Wrap(n, pos - n) = pos
      <4>1. Wrap(n, pos - n) = (pos - n) + n
        BY <1>2, <3>1, WrapLemma
      <4>2. QED
        BY <1>2, <4>1
    <3>3. d \in Near
      BY <3>1, <3>2
    <3>4. QED
      BY <3>3
  <2>3. QED
    BY <2>1, <2>2
<1>4. k \in 0 .. n - 1
  <2>1. Near \subseteq Nat
    OBVIOUS
  <2>2. k \in Near
    <3> HIDE DEF Near
    <3>1. QED
      BY <1>3, <2>1, LeastOf
  <2>3. QED
    BY <2>2
<1> HIDE DEF k
<1>5. Wrap(n, i - k) \in 1 .. n
  <2>1. CASE i - k >= 1
    <3>1. i - k \in 1 .. n
      BY <1>2, <1>4, <2>1
    <3>2. Wrap(n, i - k) = i - k
      BY <1>2, <3>1, WrapLemma
    <3>3. QED
      BY <3>1, <3>2
  <2>2. CASE ~ (i - k >= 1)
    <3>1. i - k \in 1 - n .. 0
      BY <1>2, <1>4, <2>2
    <3>2. Wrap(n, i - k) = i - k + n
      BY <1>2, <3>1, WrapLemma
    <3>3. QED
      BY <1>2, <3>1, <3>2
  <2>3. QED
    BY <2>1, <2>2
<1>6. PrevIndexed(items, i) = Wrap(n, i - k)
  BY <1>1 DEF PrevIndexed, k
<1>7. QED
  BY <1>1, <1>5, <1>6

\* The rounds of the deleting loop.
DeleteLoop(S, items, pos, max, held, needed, start, R, h) ==
    /\ h[0] = start
    /\ \A r \in 0 .. R : h[r] \in LoopState(S, Len(items))
    /\ \A r \in 1 .. R : DeleteStep(items, pos, max, held, needed, h[r - 1], h[r])

DeletesFrom(items, pos, c) ==
    [i |-> PrevIndexed(items, PrevIndexed(items, pos - 1) - 1),
     others |-> c.level - SpaceOf(items[pos], NrCached(c.cached, items[pos])),
     deq |-> <<>>, stop |-> FALSE]

\* The loop begins at a position of the list.
LEMMA StartLemma ==
    ASSUME NEW S, S \subseteq Item, NEW items, ListsAll(items, S), NEW pos \in DOMAIN items,
           NEW c, Levelled(items, c), Holds(S, c.cached), items[pos] \in IndexedByFrame
    PROVE  /\ DeletesFrom(items, pos, c) \in LoopState(S, Len(items))
           /\ DeletesFrom(items, pos, c).i # 0
<1> DEFINE n == Len(items)
           i == PrevIndexed(items, PrevIndexed(items, pos - 1) - 1)
           others == c.level - SpaceOf(items[pos], NrCached(c.cached, items[pos]))
<1>1. n \in Nat /\ DOMAIN items = 1 .. n /\ pos \in 1 .. n
  BY LenProperties DEF ListsAll
<1>2. items[pos] \in S
  BY <1>1, ElementOfSeq DEF ListsAll
<1>3. pos - 1 \in 0 .. n
  BY <1>1
<1>4. PrevIndexed(items, pos - 1) \in 1 .. n
  BY <1>3, PrevIndexedLemma
<1>5. PrevIndexed(items, pos - 1) - 1 \in 0 .. n
  BY <1>1, <1>4
<1>6. i \in 1 .. n
  BY <1>5, PrevIndexedLemma
<1>7. others \in Int
  <2>1. SpaceOf(items[pos], NrCached(c.cached, items[pos])) \in Nat
    BY <1>2, HeldType DEF Holds
  <2>2. c.level \in Int
    BY DEF Levelled
  <2>3. QED
    BY <2>1, <2>2
<1>8. DeletesFrom(items, pos, c) = [i |-> i, others |-> others, deq |-> <<>>, stop |-> FALSE]
  BY DEF DeletesFrom
<1>9. <<>> \in Seq(S \X Int)
  BY EmptySeq
<1>10. i \in 0 .. n /\ i # 0
  BY <1>1, <1>6
<1> HIDE DEF i, others
<1>11. QED
  BY <1>7, <1>8, <1>9, <1>10 DEF LoopState

\* The recursive function of the loop is a sequence of such rounds.
LEMMA DeleteLoopLemma ==
    ASSUME NEW S, S \subseteq Item, NEW items, ListsAll(items, S), NEW pos \in DOMAIN items,
           NEW max \in Nat, NEW c, Levelled(items, c), Holds(S, c.cached),
           NEW needed \in Int, NEW additional \in Int, items[pos] \in IndexedByFrame
    PROVE  LET plan == PlanDeleting(items, pos, max, c, needed, additional)
               R == 2 * Len(items) + 1
           IN  \E h : /\ DeleteLoop(S, items, pos, max, c.cached, needed,
                                    DeletesFrom(items, pos, c), R, h)
                      /\ plan.deq = h[R].deq
                      /\ plan.ended = h[R].stop
<1> DEFINE plan == PlanDeleting(items, pos, max, c, needed, additional)
           start == DeletesFrom(items, pos, c)
           C == LoopState(S, Len(items))
           Round(s) == DeleteRound(items, pos, max, c.cached, needed, additional, s)
<1>1. PICK R \in Nat : R = 2 * Len(items) + 1
  <2>1. Len(items) \in Nat
    BY LenProperties DEF ListsAll
  <2>2. QED
    BY <2>1
<1> DEFINE G == [q \in (1 .. R) \X C |-> Round(q[2])]
           Step(f, n) == IF n = 0 THEN start ELSE Round(f[n - 1])
           loop == CHOOSE f : f = [n \in 0 .. R |-> Step(f, n)]
<1>2. plan.deq = loop[R].deq /\ plan.ended = loop[R].stop
  BY <1>1 DEF PlanDeleting, DeletesFrom
<1> HIDE DEF plan
<1>3. start \in C
  BY StartLemma
<1>4. \A s \in C : /\ Round(s) \in C
                   /\ DeleteStep(items, pos, max, c.cached, needed, s, Round(s))
  BY DeleteRoundLemma
<1> HIDE DEF C, start
<1>5. G \in [(1 .. R) \X C -> C]
  <2> HIDE DEF Round
  <2>1. QED
    BY <1>4
<1>6. \E f : f = [n \in 0 .. R |-> Step(f, n)]
  <2> HIDE DEF G
  <2>1. PICK f : IsFold(f, R, C, start, G)
    BY <1>3, <1>5, FoldRecursion
  <2>2. FoldsTyped(f, R, C, start, G)
    <3>1. {} \in SUBSET (1 .. R)
      OBVIOUS
    <3>2. QED
      BY <2>1, <3>1 DEF IsFold, FoldsTyped
  <2>3. PICK h : IsRecursion(h, R, C, start, G, f[1 .. R])
    BY <1>3, <1>5, <2>2, FoldByPosition
  <2> USE DEF G
  <2>4. ASSUME NEW n \in 0 .. R
        PROVE  h[n] = Step(h, n)
    <3>1. CASE n = 0
      BY <2>3, <3>1 DEF IsRecursion
    <3>2. CASE n # 0
      <4>1. n \in 1 .. R /\ n - 1 \in 0 .. R
        BY <1>1, <3>2
      <4>2. h[n] = G[<<n, h[n - 1]>>] /\ h[n - 1] \in C
        <5> HIDE DEF G
        <5>1. QED
          BY <2>3, <4>1 DEF IsRecursion
      <4>3. h[n] = Round(h[n - 1])
        <5> HIDE DEF Round
        <5>1. QED
          BY <4>1, <4>2
      <4>4. QED
        BY <3>2, <4>3
    <3>3. QED
      BY <3>1, <3>2
  <2>5. h = [n \in 0 .. R |-> h[n]]
    BY <2>3 DEF IsRecursion
  <2>6. h = [n \in 0 .. R |-> Step(h, n)]
    <3> HIDE DEF Step
    <3>1. QED
      BY <2>4, <2>5
  <2>7. QED
    BY <2>6
<1>7. loop = [n \in 0 .. R |-> Step(loop, n)]
  <2> HIDE DEF Step
  <2>1. QED
    BY <1>6
<1> HIDE DEF loop
<1>8. loop[0] = start /\ \A n \in 0 .. R : n # R => loop[n + 1] = Round(loop[n])
  <2> HIDE DEF Round
  <2>1. 0 \in 0 .. R
    BY <1>1
  <2>2. ASSUME NEW n \in 0 .. R, n # R
        PROVE  loop[n + 1] = Round(loop[n])
    <3>1. n + 1 \in 0 .. R /\ n + 1 # 0 /\ (n + 1) - 1 = n
      BY <1>1, <2>2
    <3>2. QED
      BY <1>7, <3>1
  <2>3. QED
    BY <1>7, <2>1, <2>2
<1> HIDE DEF Round
<1> DEFINE T == {n \in 0 .. R : loop[n] \in C}
<1>9. \A n \in 0 .. R : n \in T
  <2>1. 0 \in T
    BY <1>1, <1>3, <1>8
  <2>2. ASSUME NEW n \in 0 .. R, n # R, n \in T
        PROVE  n + 1 \in T
    <3>1. n + 1 \in 0 .. R
      BY <1>1, <2>2, NextNumber
    <3>2. QED
      BY <1>4, <1>8, <2>2, <3>1
  <2> HIDE DEF T
  <2>3. QED
    BY <1>1, <2>1, <2>2, Induction
<1>10. ASSUME NEW n \in 1 .. R
       PROVE  DeleteStep(items, pos, max, c.cached, needed, loop[n - 1], loop[n])
  <2>1. n - 1 \in 0 .. R /\ n - 1 # R /\ (n - 1) + 1 = n
    BY <1>1
  <2>2. loop[n] = Round(loop[n - 1]) /\ loop[n - 1] \in C
    BY <1>8, <1>9, <2>1
  <2>3. QED
    BY <1>4, <2>2
<1>11. DeleteLoop(S, items, pos, max, c.cached, needed, start, R, loop)
  BY <1>8, <1>9, <1>10 DEF DeleteLoop, C
<1>12. QED
  BY <1>1, <1>2, <1>11 DEF plan, start

-----------------------------------------------------------------------------
\* The frames of the items at some positions are gone.
Left(items, held, seen) ==
    [i \in Item |-> IF \E k \in seen : items[k] = i THEN {} ELSE held[i]]

\* One more item gone takes at most its memory from the level.
LEMMA LeftLemma ==
    ASSUME NEW S, S \subseteq Item, NEW items, ListsAll(items, S), NEW held, Holds(S, held),
           NEW seen \in SUBSET DOMAIN items, NEW p \in DOMAIN items
    PROVE  /\ LevelOf(items, Left(items, held, seen)) \in Nat
           /\ LevelOf(items, Left(items, held, seen)) - SpaceOf(items[p], NrCached(held, items[p]))
                <= LevelOf(items, Left(items, held, seen \cup {p}))
<1> DEFINE old == Left(items, held, seen)
           new == Left(items, held, seen \cup {p})
           i == items[p]
<1>1. PICK n \in Nat : /\ n = Len(items) /\ DOMAIN items = 1 .. n
                       /\ \A k \in 1 .. n : items[k] \in S
  BY LenProperties, ElementOfSeq DEF ListsAll
<1>2. items \in Seq(Item) /\ \A k, m \in 1 .. n : items[k] = items[m] => k = m
  <2>1. items \in Seq(Item)
    BY SeqMonotonic DEF ListsAll
  <2>2. QED
    BY <1>1, <2>1 DEF ListsAll, Distinct
<1>3. \A j \in Item : /\ old[j] = {} \/ old[j] = held[j]
                      /\ new[j] = {} \/ new[j] = held[j]
  BY DEF Left
<1>4. \A k \in 1 .. n : k # p => old[items[k]] = new[items[k]]
  <2>1. ASSUME NEW k \in 1 .. n, k # p
        PROVE  old[items[k]] = new[items[k]]
    <3>1. items[k] \in Item /\ items[p] # items[k]
      BY <1>1, <1>2, <2>1
    <3>2. QED
      BY <3>1 DEF Left
  <2>2. QED
    BY <2>1
<1>5. i \in Item /\ new[i] = {}
  <2>1. i \in Item /\ p \in seen \cup {p}
    BY <1>1
  <2>2. QED
    BY <2>1 DEF Left
<1> HIDE DEF old, new
<1>6. Countable(items, old) /\ Countable(items, new)
  <2>1. ASSUME NEW k \in 1 .. n
        PROVE  IsFiniteSet(old[items[k]]) /\ IsFiniteSet(new[items[k]])
    <3>1. items[k] \in Item /\ IsFiniteSet(held[items[k]])
      BY <1>1 DEF Holds
    <3>2. QED
      BY <1>3, <3>1, FS_EmptySet
  <2>2. QED
    BY <1>1, <2>1 DEF Countable
<1>7. LevelOf(items, old) \in Nat
  BY <1>2, <1>6, LevelType
<1>8. LevelOf(items, new) = LevelOf(items, old)
        + SpaceOf(i, NrCached(new, i)) - SpaceOf(i, NrCached(old, i))
  BY <1>1, <1>2, <1>4, <1>6, LevelChanged
<1>9. FrameSize[i] \in Nat
  BY <1>5, RangeType
<1>10. SpaceOf(i, NrCached(new, i)) = 0
  <2>1. NrCached(new, i) = 0
    BY <1>5, FS_EmptySet DEF NrCached
  <2>2. QED
    BY <1>9, <2>1 DEF SpaceOf
<1>11. SpaceOf(i, NrCached(held, i)) \in Nat
  BY <1>1, <1>5, HeldType DEF Holds
<1>12. /\ SpaceOf(i, NrCached(old, i)) \in Nat
       /\ SpaceOf(i, NrCached(old, i)) <= SpaceOf(i, NrCached(held, i))
  <2>1. CASE old[i] = held[i]
    BY <1>11, <2>1 DEF NrCached
  <2>2. CASE old[i] = {}
    <3>1. NrCached(old, i) = 0
      BY <2>2, FS_EmptySet DEF NrCached
    <3>2. SpaceOf(i, NrCached(old, i)) = 0
      BY <1>9, <3>1 DEF SpaceOf
    <3>3. QED
      BY <1>11, <3>2
  <2>3. QED
    BY <1>3, <1>5, <2>1, <2>2
<1>13. LevelOf(items, old) - SpaceOf(i, NrCached(held, i)) <= LevelOf(items, new)
  BY <1>7, <1>8, <1>10, <1>11, <1>12
<1>14. QED
  BY <1>7, <1>13 DEF old, new

\* When all items have been seen nothing is left.
LEMMA NothingLeft ==
    ASSUME NEW S, S \subseteq Item, NEW items, ListsAll(items, S), NEW held
    PROVE  LevelOf(items, Left(items, held, DOMAIN items)) = 0
<1>1. items \in Seq(Item)
  BY SeqMonotonic DEF ListsAll
<1>2. \A k \in DOMAIN items : items[k] \in Item
  BY <1>1, LenProperties, ElementOfSeq
<1>3. \A k \in DOMAIN items : Left(items, held, DOMAIN items)[items[k]] = {}
  BY <1>2 DEF Left
<1>4. QED
  BY <1>1, <1>3, LevelEmpty

\* The positions that the loop has passed in the first r rounds: those from where it
\* began down to where it is, and after the wrap those above, too.
Passed(n, start, r, i, R) ==
    /\ R \in SUBSET (1 .. n)
    /\ \/ i + r <= start /\ R = i + 1 .. start
       \/ i + r <= n + start /\ R = (1 .. start) \cup (i + 1 .. n)

\* One more round: either the loop had passed all positions but that of the selected
\* item, or it passes one, p, that it had not passed before.
PassesOneMore(n, pos, start, r, R, p) ==
    /\ p \in 1 .. n
    /\ \/ R \cup {pos} = 1 .. n
       \/ /\ p \notin R
          /\ \E Q : /\ Passed(n, start, r + 1, p - 1, Q)
                    /\ R \cup {p} \subseteq Q
                    /\ Q \cup {pos} = (R \cup {pos}) \cup {p}

LEMMA PassedStep ==
    ASSUME NEW items, NEW n \in Nat, n = Len(items), NEW pos \in 1 .. n, NEW start \in 1 .. n,
           NEW r \in Nat, NEW i \in 0 .. n, NEW R, Passed(n, start, r, i, R)
    PROVE  PassesOneMore(n, pos, start, r, R, Visited(items, pos, i))
<1> USE DEF PassesOneMore
<1> DEFINE p == Visited(items, pos, i)
           Below == p .. start
           Above == (1 .. start) \cup (p .. n)
<1>1. \/ i = pos /\ i >= 2 /\ p = i - 1
      \/ i # pos /\ i >= 1 /\ p = i
      \/ (i = 0 \/ (i = 1 /\ pos = 1)) /\ p = n
  BY DEF Visited
<1> HIDE DEF p
<1>2. p \in 1 .. n /\ (p - 1) + 1 = p
  BY <1>1
<1>3. i + r <= start \/ i + r <= n + start
  BY DEF Passed
<1>4. CASE i + r <= start /\ R = i + 1 .. start /\ (i = 0 \/ (i = 1 /\ pos = 1))
  <2>1. p = n
    BY <1>1, <1>4
  <2>2. CASE start = n
    <3>1. \A k \in 1 .. n : k \in i + 1 .. start \/ k = pos
      BY <1>4, <2>2
    <3>2. R \cup {pos} = 1 .. n
      BY <1>4, <2>2, <3>1
    <3>3. QED
      BY <1>2, <3>2 DEF p
  <2>3. CASE start # n
    <3>1. p \notin R
      BY <1>4, <2>1, <2>3
    <3>2. Passed(n, start, r + 1, p - 1, Above)
      <4>1. (p - 1) + (r + 1) <= n + start
        BY <1>4, <2>1
      <4>2. Above \in SUBSET (1 .. n)
        BY <1>2
      <4> HIDE DEF Above
      <4>3. Above = (1 .. start) \cup ((p - 1) + 1 .. n)
        BY <1>2 DEF Above
      <4>4. QED
        BY <4>1, <4>2, <4>3 DEF Passed
    <3>3. \A k \in Above : k \in R \/ k = pos \/ k = p
      <4>1. \A k \in 1 .. start : k \in i + 1 .. start \/ k = pos
        BY <1>4
      <4>2. \A k \in p .. n : k = p
        BY <2>1
      <4>3. QED
        BY <1>4, <4>1, <4>2
    <3>4. R \subseteq Above /\ p \in Above
      BY <1>2, <1>4
    <3> HIDE DEF Above
    <3>5. R \cup {p} \subseteq Above /\ Above \cup {pos} = (R \cup {pos}) \cup {p}
      BY <3>3, <3>4
    <3>6. QED
      BY <1>2, <3>1, <3>2, <3>5 DEF p
  <2>4. QED
    BY <2>2, <2>3
<1>5. CASE i + r <= start /\ R = i + 1 .. start /\ ~ (i = 0 \/ (i = 1 /\ pos = 1))
  <2>1. p \notin R /\ p <= start
    BY <1>1, <1>2, <1>5
  <2>2. Passed(n, start, r + 1, p - 1, Below)
    <3>1. (p - 1) + (r + 1) <= start
      BY <1>1, <1>2, <1>5
    <3>2. Below \in SUBSET (1 .. n)
      BY <1>2
    <3> HIDE DEF Below
    <3>3. Below = (p - 1) + 1 .. start
      BY <1>2 DEF Below
    <3>4. QED
      BY <3>1, <3>2, <3>3 DEF Passed
  <2>3. \A k \in Below : k \in R \/ k = pos \/ k = p
    BY <1>1, <1>2, <1>5
  <2>4. R \subseteq Below /\ p \in Below
    BY <1>1, <1>2, <1>5, <2>1
  <2> HIDE DEF Below
  <2>5. R \cup {p} \subseteq Below /\ Below \cup {pos} = (R \cup {pos}) \cup {p}
    BY <2>3, <2>4
  <2>6. QED
    BY <1>2, <2>1, <2>2, <2>5 DEF p
<1>6. CASE i + r <= n + start /\ R = (1 .. start) \cup (i + 1 .. n)
  <2>1. CASE i = 0 \/ (i = 1 /\ pos = 1) \/ p <= start
    <3>1. \A k \in 1 .. n : k \in 1 .. start \/ k \in i + 1 .. n \/ k = pos
      BY <1>1, <1>2, <2>1
    <3>2. R \cup {pos} = 1 .. n
      BY <1>6, <3>1
    <3>3. QED
      BY <1>2, <3>2 DEF p
  <2>2. CASE ~ (i = 0 \/ (i = 1 /\ pos = 1) \/ p <= start)
    <3>1. p \notin R
      BY <1>1, <1>2, <1>6, <2>2
    <3>2. Passed(n, start, r + 1, p - 1, Above)
      <4>1. (p - 1) + (r + 1) <= n + start
        BY <1>1, <1>2, <1>6, <2>2
      <4>2. Above \in SUBSET (1 .. n)
        BY <1>2
      <4> HIDE DEF Above
      <4>3. Above = (1 .. start) \cup ((p - 1) + 1 .. n)
        BY <1>2 DEF Above
      <4>4. QED
        BY <4>1, <4>2, <4>3 DEF Passed
    <3>3. \A k \in Above : k \in R \/ k = pos \/ k = p
      <4>1. \A k \in p .. n : k \in i + 1 .. n \/ k = pos \/ k = p
        BY <1>1, <1>2, <2>2
      <4>2. QED
        BY <1>6, <4>1
    <3>4. R \subseteq Above /\ p \in Above
      <4>1. i + 1 .. n \subseteq p .. n
        BY <1>1, <1>2, <2>2
      <4>2. p \in p .. n
        BY <1>2
      <4>3. QED
        BY <1>6, <4>1, <4>2
    <3> HIDE DEF Above
    <3>5. R \cup {p} \subseteq Above /\ Above \cup {pos} = (R \cup {pos}) \cup {p}
      BY <3>3, <3>4
    <3>6. QED
      BY <1>2, <3>1, <3>2, <3>5 DEF p
  <2>3. QED
    BY <2>1, <2>2
<1>7. QED
  BY <1>4, <1>5, <1>6 DEF Passed

\* After two turns of the list all positions have been passed.
LEMMA PassedAll ==
    ASSUME NEW n \in Nat, NEW start \in 1 .. n,
           NEW i \in 0 .. n, NEW R, Passed(n, start, 2 * n, i, R)
    PROVE  R = 1 .. n
<1>1. ~ (i + 2 * n <= start)
  OBVIOUS
<1>2. i + 2 * n <= n + start /\ R = (1 .. start) \cup (i + 1 .. n)
  BY <1>1 DEF Passed
<1>3. i = 0
  BY <1>2
<1>4. i + 1 .. n = 1 .. n
  BY <1>3
<1>5. QED
  BY <1>2, <1>4

\* Within two turns of the playlist the loop has passed so much that what it has marked
\* is enough, or that nothing is left beside the selected item. Until then it comes to
\* no position twice.
LEMMA DeletingStops ==
    ASSUME NEW S, S \subseteq Item, NEW items, ListsAll(items, S), NEW pos \in DOMAIN items,
           NEW max \in Nat, NEW c, Levelled(items, c), Holds(S, c.cached),
           NEW needed \in Int, needed <= max, items[pos] \in IndexedByFrame,
           NEW h, DeleteLoop(S, items, pos, max, c.cached, needed,
                             DeletesFrom(items, pos, c), 2 * Len(items) + 1, h)
    PROVE  /\ h[2 * Len(items) + 1].stop
           /\ Taken(c.cached, items, DOMAIN items, h[2 * Len(items) + 1].deq)
<1>1. PICK n \in Nat : n = Len(items) /\ DOMAIN items = 1 .. n /\ pos \in 1 .. n
  BY LenProperties DEF ListsAll
<1> DEFINE start == DeletesFrom(items, pos, c)
           Level(seen) == LevelOf(items, Left(items, c.cached, seen))
           Entries(R, deq) == Taken(c.cached, items, R, deq)
           Going(r, R) == /\ Passed(n, start.i, r, h[r].i, R)
                          /\ h[r].others <= Level(R \cup {pos})
                          /\ Entries(R, h[r].deq)
           Good(r) == /\ Entries(1 .. n, h[r].deq)
                      /\ \/ h[r].stop
                         \/ needed + h[r].others <= max
                         \/ \E R : Going(r, R)
           T == {r \in 0 .. 2 * n : Good(r)}
<1>2. \A r \in 0 .. 2 * n + 1 : h[r] \in LoopState(S, n)
  BY <1>1 DEF DeleteLoop
<1>3. \A r \in 0 .. 2 * n : DeleteStep(items, pos, max, c.cached, needed, h[r], h[r + 1])
  <2>1. \A r \in 0 .. 2 * n : r + 1 \in 1 .. 2 * n + 1 /\ (r + 1) - 1 = r
    BY <1>1
  <2>2. \A r \in 1 .. 2 * n + 1 :
          DeleteStep(items, pos, max, c.cached, needed, h[r - 1], h[r])
    BY <1>1 DEF DeleteLoop
  <2>3. QED
    BY <2>1, <2>2
<1>4. h[0] = start /\ start.i \in 1 .. n
  <2>1. start \in LoopState(S, n) /\ start.i # 0
    BY <1>1, StartLemma
  <2>2. start.i \in 0 .. n
    BY <2>1 DEF LoopState
  <2>3. h[0] = start
    BY DEF DeleteLoop
  <2> HIDE DEF start
  <2>4. QED
    BY <1>1, <2>1, <2>2, <2>3
<1>5. /\ h[0].others = c.level - SpaceOf(items[pos], NrCached(c.cached, items[pos]))
      /\ h[0].deq = <<>>
  BY <1>4 DEF DeletesFrom
<1> HIDE DEF start
<1>6. \A seen \in SUBSET (1 .. n) : Level(seen) \in Nat
  BY <1>1, LeftLemma
<1>7. \A seen \in SUBSET (1 .. n), p \in 1 .. n :
        Level(seen) - SpaceOf(items[p], NrCached(c.cached, items[p])) <= Level(seen \cup {p})
  BY <1>1, LeftLemma
<1>8. Level(1 .. n) = 0
  BY <1>1, NothingLeft
<1>9. Level({}) = c.level
  <2>1. c.cached \in [Item -> SUBSET Frame] /\ LevelOf(items, c.cached) = c.level
    BY DEF Levelled
  <2>2. Left(items, c.cached, {}) = c.cached
    BY <2>1 DEF Left
  <2>3. QED
    BY <2>1, <2>2
<1> HIDE DEF Level
<1>10. \A R, Q, deq : R \subseteq Q /\ Entries(R, deq) => Entries(Q, deq)
  BY DEF Taken
<1>11. \A R \in SUBSET (1 .. n), p \in 1 .. n : p \notin R =>
         \A deq \in Seq(S \X Int), part \in Seq(c.cached[items[p]]) :
           Entries(R, deq) /\ Distinct(part) =>
             Entries(R \cup {p}, deq \o Removable(items[p], part))
  <2>1. items \in Seq(S) /\ Distinct(items)
    BY DEF ListsAll
  <2>2. QED
    BY <1>1, <2>1, TakenStep
<1> HIDE DEF Entries
<1>12. 0 \in T
  <2>1. h[0].others <= Level({} \cup {pos})
    <3>1. {} \in SUBSET (1 .. n)
      OBVIOUS
    <3>2. QED
      BY <1>1, <1>5, <1>7, <1>9, <3>1
  <2>2. Passed(n, start.i, 0, h[0].i, {})
    <3>1. start.i + 1 .. start.i = {} /\ start.i + 0 <= start.i
      BY <1>4
    <3>2. QED
      BY <1>1, <1>4, <3>1 DEF Passed
  <2>3. \A R : Entries(R, h[0].deq)
    BY <1>5 DEF Entries, Taken, Distinct
  <2>4. Going(0, {})
    BY <2>1, <2>2, <2>3
  <2>5. Good(0)
    <3> HIDE DEF Going
    <3>1. QED
      BY <2>3, <2>4
  <2> HIDE DEF Good
  <2>6. QED
    BY <1>1, <2>5
<1>13. ASSUME NEW r \in 0 .. 2 * n, Good(r)
       PROVE  /\ Entries(1 .. n, h[r + 1].deq)
              /\ h[r].stop \/ needed + h[r].others <= max => h[r + 1].stop
              /\ r # 2 * n => Good(r + 1)
  <2>1. r \in Nat /\ r \in 0 .. 2 * n + 1 /\ r + 1 \in 0 .. 2 * n + 1
    BY <1>1
  <2> DEFINE s == h[r]  t == h[r + 1]  p == Visited(items, pos, s.i)
             held == c.cached[items[p]]
             space == SpaceOf(items[p], NrCached(c.cached, items[p]))
             Stop == s.stop \/ needed + s.others <= max
  <2>2. s \in LoopState(S, n) /\ t \in LoopState(S, n)
    BY <1>2, <2>1
  <2>3. s.i \in 0 .. n /\ s.others \in Int /\ t.others \in Int /\ s.deq \in Seq(S \X Int)
    BY <2>2 DEF LoopState
  <2>4. \/ Stop /\ t.stop /\ t.deq = s.deq
        \/ /\ ~ Stop
           /\ \/ t.deq = s.deq
              \/ \E part \in Seq(held) :
                   Distinct(part) /\ t.deq = s.deq \o Removable(items[p], part)
           /\ \/ needed + t.others <= max
              \/ t.i = p - 1 /\ t.others <= s.others - space
    BY <1>3 DEF DeleteStep
  <2>5. Entries(1 .. n, s.deq) /\ (Stop \/ \E R : Going(r, R))
    BY <1>13
  <2>6. CASE Stop
    BY <2>4, <2>5, <2>6
  <2>7. CASE ~ Stop
    <3>1. PICK R : Going(r, R)
      BY <2>5, <2>7
    <3>2. /\ Passed(n, start.i, r, s.i, R) /\ s.others <= Level(R \cup {pos})
          /\ Entries(R, s.deq)
      BY <3>1
    <3>3. R \in SUBSET (1 .. n) /\ R \cup {pos} \in SUBSET (1 .. n)
      BY <1>1, <3>2 DEF Passed
    <3>4. R \cup {pos} # 1 .. n
      <4>1. R \cup {pos} = 1 .. n => s.others <= 0
        BY <1>8, <3>2
      <4>2. QED
        BY <2>3, <2>7, <4>1
    <3> HIDE DEF s, t
    <3>5. PICK Q : /\ p \in 1 .. n /\ p \notin R
                   /\ Passed(n, start.i, r + 1, p - 1, Q)
                   /\ R \cup {p} \subseteq Q
                   /\ Q \cup {pos} = (R \cup {pos}) \cup {p}
      <4>1. PICK first \in 1 .. n, i \in 0 .. n : first = start.i /\ i = s.i
        BY <1>4, <2>3
      <4>2. Passed(n, first, r, i, R)
        BY <3>2, <4>1
      <4>3. PassesOneMore(n, pos, first, r, R, Visited(items, pos, i))
        BY ONLY <1>1, <2>1, <4>2, PassedStep
      <4>4. p = Visited(items, pos, i)
        BY <4>1
      <4> HIDE DEF p
      <4>5. QED
        BY <3>4, <4>1, <4>3, <4>4 DEF PassesOneMore
    <3> HIDE DEF p, space, held, Stop
    <3>6. Entries(Q, t.deq)
      <4>1. CASE t.deq = s.deq
        BY <1>10, <3>2, <3>5, <4>1
      <4>2. CASE t.deq # s.deq
        <5>1. PICK part \in Seq(held) :
                Distinct(part) /\ t.deq = s.deq \o Removable(items[p], part)
          BY <2>4, <2>7, <4>2
        <5>2. Entries(R \cup {p}, t.deq)
          BY <1>11, <2>3, <3>2, <3>3, <3>5, <5>1 DEF held
        <5>3. QED
          BY <1>10, <3>5, <5>2
      <4>3. QED
        BY <4>1, <4>2
    <3>7. Entries(1 .. n, t.deq)
      <4>1. Q \subseteq 1 .. n
        BY <3>5 DEF Passed
      <4>2. QED
        BY <1>10, <3>6, <4>1
    <3>8. CASE needed + t.others <= max
      BY <2>7, <3>7, <3>8 DEF t, s, Stop
    <3>9. CASE t.i = p - 1 /\ t.others <= s.others - space
      <4>1. t.others <= Level(Q \cup {pos})
        <5>1. /\ Level(R \cup {pos}) \in Nat /\ Level((R \cup {pos}) \cup {p}) \in Nat
              /\ Level(R \cup {pos}) - space <= Level((R \cup {pos}) \cup {p})
          <6>1. (R \cup {pos}) \cup {p} \in SUBSET (1 .. n)
            BY <3>3, <3>5
          <6>2. QED
            BY <1>6, <1>7, <3>3, <3>5, <6>1 DEF space
        <5>2. space \in Int
          <6>1. items[p] \in S
            BY <1>1, <3>5, ElementOfSeq DEF ListsAll
          <6>2. QED
            BY <6>1, HeldType DEF Holds, space
        <5>3. t.others <= Level((R \cup {pos}) \cup {p})
          BY <2>3, <3>2, <3>9, <5>1, <5>2
        <5>4. QED
          BY <3>5, <5>3
      <4>2. Going(r + 1, Q)
        BY <3>5, <3>6, <3>9, <4>1 DEF t
      <4>3. Good(r + 1)
        <5> HIDE DEF Going
        <5>1. QED
          BY <3>7, <4>2 DEF t
      <4>4. QED
        BY <2>7, <3>7, <4>3 DEF t, s, Stop
    <3>10. QED
      BY <2>4, <2>7, <3>8, <3>9
  <2>8. QED
    BY <2>6, <2>7
<1>14. 2 * n \in T
  <2> HIDE DEF Good
  <2>1. PICK M \in Nat : M = 2 * n
    BY <1>1
  <2>2. ASSUME NEW r \in 0 .. M, r # M, r \in T
        PROVE  r + 1 \in T
    <3>1. r + 1 \in 0 .. M
      BY <2>2, NextNumber
    <3>2. QED
      BY <1>13, <2>1, <2>2, <3>1
  <2> HIDE DEF T
  <2>3. \A r \in 0 .. M : r \in T
    BY <1>12, <2>2, Induction
  <2>4. QED
    BY <2>1, <2>3
<1> DEFINE s == h[2 * n]
<1>15. s.stop \/ needed + s.others <= max
  <2>1. SUFFICES ASSUME NEW R, Going(2 * n, R)
                 PROVE  needed + s.others <= max
    BY <1>14
  <2>2. s \in LoopState(S, n)
    BY <1>1, <1>2
  <2>3. s.i \in 0 .. n /\ s.others \in Int
    BY <2>2 DEF LoopState
  <2>4. Passed(n, start.i, 2 * n, s.i, R) /\ s.others <= Level(R \cup {pos})
    BY <2>1
  <2> HIDE DEF s
  <2>5. R = 1 .. n
    BY <1>1, <1>4, <2>3, <2>4, PassedAll
  <2>6. R \cup {pos} = 1 .. n
    BY <1>1, <2>5
  <2>7. s.others <= 0
    BY <1>8, <2>4, <2>6
  <2>8. QED
    BY <2>3, <2>7
<1>16. h[2 * n + 1].stop /\ Entries(1 .. n, h[2 * n + 1].deq)
  <2>1. 2 * n \in 0 .. 2 * n
    BY <1>1
  <2> HIDE DEF Good
  <2>2. Good(2 * n)
    BY <1>14
  <2>3. QED
    BY <1>13, <1>15, <2>1, <2>2
<1>17. QED
  BY <1>1, <1>16 DEF Entries

\* The plan for a selected item that others have to make room for.
LEMMA PlanDeletingType ==
    ASSUME NEW S, S \subseteq Item, NEW items, ListsAll(items, S), NEW pos \in DOMAIN items,
           NEW max \in Nat, NEW c, Levelled(items, c), Holds(S, c.cached),
           NEW needed \in Int, needed <= max, NEW additional \in Int,
           items[pos] \in IndexedByFrame
    PROVE  LET plan == PlanDeleting(items, pos, max, c, needed, additional)
           IN  plan.queue \in Jobs(S) /\ plan.deq \in Seq(S \X Int) /\ Keeps(c.cached, plan.deq)
<1> DEFINE sel == items[pos]
           plan == PlanDeleting(items, pos, max, c, needed, additional)
           job == EnqueueCacheJob(<<>>, c.cached, sel, FirstFrame[sel], LastFrame[sel])
<1>1. PICK n \in Nat : n = Len(items) /\ DOMAIN items = 1 .. n
  BY LenProperties DEF ListsAll
<1>2. sel \in S /\ FirstFrame[sel] \in Nat /\ LastFrame[sel] \in Nat
  <2>1. sel \in S
    BY <1>1, ElementOfSeq DEF ListsAll
  <2>2. QED
    BY <2>1, RangeType
<1>3. plan.deq \in Seq(S \X Int) /\ Keeps(c.cached, plan.deq)
  <2> HIDE DEF plan
  <2>1. PICK h : /\ DeleteLoop(S, items, pos, max, c.cached, needed,
                               DeletesFrom(items, pos, c), 2 * Len(items) + 1, h)
                 /\ plan.deq = h[2 * Len(items) + 1].deq
    BY DeleteLoopLemma DEF plan
  <2>2. 2 * Len(items) + 1 \in 0 .. 2 * Len(items) + 1
    BY <1>1
  <2>3. h[2 * Len(items) + 1] \in LoopState(S, Len(items))
    BY <2>1, <2>2 DEF DeleteLoop
  <2>4. Taken(c.cached, items, DOMAIN items, h[2 * Len(items) + 1].deq)
    BY <2>1, DeletingStops
  <2>5. QED
    BY <2>1, <2>3, <2>4 DEF LoopState, Taken, Keeps
<1>4. job \in Jobs(S)
  <2>1. <<>> \in Jobs(S)
    BY EmptySeq DEF Jobs
  <2>2. Enqueues(<<>>, sel, FirstFrame[sel], LastFrame[sel], job)
    BY <1>2, EnqueueLemma
  <2> HIDE DEF job, sel
  <2>3. QED
    BY <1>2, <2>1, <2>2, EnqueueType
<1>5. plan.queue = job
  BY DEF PlanDeleting
<1>6. QED
  BY <1>3, <1>4, <1>5

\* Frames that are cached, and ones that the selected item still needs.
LEMMA NeededType ==
    ASSUME NEW i \in Item, NEW held, held[i] \subseteq Nat, IsFiniteSet(held[i])
    PROVE  LET needed == SpaceOf(i, LastFrame[i] - FirstFrame[i] + 1)
           IN  needed \in Int /\ needed - SpaceOf(i, NrCached(held, i)) \in Int
<1>1. LastFrame[i] - FirstFrame[i] + 1 \in Int
  BY RangeType
<1>2. SpaceOf(i, LastFrame[i] - FirstFrame[i] + 1) \in Int
  BY <1>1, SpaceType
<1>3. SpaceOf(i, NrCached(held, i)) \in Nat
  BY HeldType
<1>4. QED
  BY <1>2, <1>3

\* The plan when playback is not running.
LEMMA PlanStoppedType ==
    ASSUME NEW S, S \subseteq Item, NEW items, ListsAll(items, S), NEW pos \in DOMAIN items,
           NEW max \in Nat, NEW c, Levelled(items, c), Holds(S, c.cached),
           NEW cachable \in SUBSET CachableItem
    PROVE  LET plan == PlanStopped(items, cachable, pos, max, c)
           IN  plan.queue \in Jobs(S) /\ plan.deq \in Seq(S \X Int) /\ Keeps(c.cached, plan.deq)
<1> DEFINE sel == items[pos]
           needed == SpaceOf(sel, LastFrame[sel] - FirstFrame[sel] + 1)
           additional == needed - SpaceOf(sel, NrCached(c.cached, sel))
           missing == sel \in cachable /\ additional > 0
           plan == PlanStopped(items, cachable, pos, max, c)
<1>1. sel \in S
  <2>1. pos \in 1 .. Len(items)
    BY LenProperties DEF ListsAll
  <2>2. QED
    BY <2>1, ElementOfSeq DEF ListsAll
<1>2. needed \in Int /\ additional \in Int /\ c.level \in Int
  <2>1. sel \in Item /\ c.cached[sel] \subseteq Nat /\ IsFiniteSet(c.cached[sel])
    BY <1>1 DEF Holds
  <2>2. QED
    BY <2>1, NeededType DEF Levelled
<1>3. plan = CASE missing /\ needed > max -> PlanTooLarge(items, sel, max, c.cached)
               [] missing /\ needed <= max /\ additional > max - c.level ->
                    PlanDeleting(items, pos, max, c, needed, additional)
               [] ~missing \/ (needed <= max /\ additional <= max - c.level) ->
                    PlanFollowing(items, cachable, pos, max, c, additional)
  BY DEF PlanStopped
<1> HIDE DEF needed, additional, plan
<1>4. CASE missing /\ needed > max
  <2>1. plan = PlanTooLarge(items, sel, max, c.cached)
    BY <1>2, <1>3, <1>4
  <2>2. sel \in S \cap CachableItem
    BY <1>1, <1>4
  <2>3. QED
    BY <2>1, <2>2, PlanTooLargeType DEF plan
<1>5. CASE missing /\ needed <= max /\ additional > max - c.level
  <2>1. plan = PlanDeleting(items, pos, max, c, needed, additional)
    BY <1>2, <1>3, <1>5
  <2>2. items[pos] \in IndexedByFrame
    BY <1>5, ItemAssumption
  <2>3. QED
    BY <1>2, <1>5, <2>1, <2>2, PlanDeletingType DEF plan
<1>6. CASE ~missing \/ (needed <= max /\ additional <= max - c.level)
  <2>1. plan = PlanFollowing(items, cachable, pos, max, c, additional)
    BY <1>2, <1>3, <1>6
  <2>2. QED
    BY <1>2, <2>1, PlanFollowingType DEF plan
<1>7. QED
  BY <1>2, <1>4, <1>5, <1>6
-----------------------------------------------------------------------------
\* The parts that updateCacheQueue consists of, for one input.
LEMMA InputType ==
    ASSUME NEW in \in PlanInputs(Nat)
    PROVE  LET items == ItemList(in.listed)
               pos == SelectedPos(items, in.sel)
               c == FreeOverflow(items, pos, in.max, in.cached)
           IN  /\ in.listed \subseteq Item /\ in.max \in Nat /\ in.cachable \in SUBSET CachableItem
               /\ in.cached \in [Item -> SUBSET Frame] /\ in.play \in BOOLEAN
               /\ ListsAll(items, in.listed)
               /\ pos \in DOMAIN items
               /\ Freed(items, pos, in.max, in.cached, c)
               /\ Holds(in.listed, c.cached)
<1> DEFINE items == ItemList(in.listed)
           pos == SelectedPos(items, in.sel)
           c == FreeOverflow(items, pos, in.max, in.cached)
<1>1. /\ in.listed \subseteq Item /\ in.listed # {} /\ in.max \in Nat
      /\ in.cachable \in SUBSET CachableItem
      /\ in.sel \in in.listed \cup {None} /\ in.play \in BOOLEAN
      /\ in.cached \in [Item -> SUBSET Frame]
  BY DEF PlanInputs
<1>2. ListsAll(items, in.listed)
  BY <1>1, ListedItems
<1>3. None \notin in.listed
  BY <1>1, ItemAssumption
<1> HIDE DEF items
<1>4. pos \in DOMAIN items
  BY <1>1, <1>2, <1>3, SelectedLemma
<1> HIDE DEF pos
<1>5. Freed(items, pos, in.max, in.cached, c)
  BY <1>1, <1>2, <1>4, FreeOverflowLemma
<1> HIDE DEF c
<1>6. Holds(in.listed, c.cached)
  <2>1. ASSUME NEW i \in in.listed
        PROVE  c.cached[i] \subseteq Nat /\ IsFiniteSet(c.cached[i])
    <3>1. PICK k \in DOMAIN items : items[k] = i
      BY <1>2 DEF ListsAll, Elements
    <3>2. Countable(items, c.cached) /\ c.cached[i] \subseteq Frame
      BY <1>1, <1>5 DEF Freed, Levelled
    <3>3. QED
      BY <3>1, <3>2, FramesAreNumbers DEF Countable
  <2>2. QED
    BY <2>1 DEF Holds
<1>7. QED
  BY <1>1, <1>2, <1>4, <1>5, <1>6 DEF items, pos, c

\* For every input the planner keeps what the main thread relies on: this is the
\* assumption PlannerAssumption of VideoCache, for the planner of the code.
THEOREM PlannerIsSound ==
    \A in \in PlanInputs(Nat) : SoundPlan(in, PlanCacheQueue(in))
<1>1. ASSUME NEW in \in PlanInputs(Nat)
      PROVE  SoundPlan(in, PlanCacheQueue(in))
  <2> DEFINE items == ItemList(in.listed)
             pos == SelectedPos(items, in.sel)
             c == FreeOverflow(items, pos, in.max, in.cached)
             playing == PlanPlaying(items, in.cachable, pos, in.max, c.cached)
             stopped == PlanStopped(items, in.cachable, pos, in.max, c)
             plan == IF in.play THEN playing ELSE stopped
             answer == PlanCacheQueue(in)
  <2>1. /\ in.listed \subseteq Item /\ in.max \in Nat /\ in.cachable \in SUBSET CachableItem
        /\ in.cached \in [Item -> SUBSET Frame] /\ in.play \in BOOLEAN
        /\ ListsAll(items, in.listed)
        /\ pos \in DOMAIN items
        /\ Freed(items, pos, in.max, in.cached, c)
        /\ Holds(in.listed, c.cached)
    BY InputType
  <2>2. answer = [queue |-> plan.queue, deq |-> plan.deq,
                  cached |-> c.cached, level |-> c.level]
    BY DEF PlanCacheQueue
  <2> HIDE DEF items, pos, c, answer
  <2>3. /\ Levelled(items, c) /\ c.level <= in.max
        /\ \A i \in Item : c.cached[i] \subseteq in.cached[i]
    BY <2>1 DEF Freed
  <2>4. /\ playing.queue \in Jobs(in.listed) /\ playing.deq \in Seq(in.listed \X Int)
        /\ Keeps(c.cached, playing.deq)
    BY <2>1, PlanPlayingLemma DEF Separates, Keeps
  <2>5. /\ stopped.queue \in Jobs(in.listed) /\ stopped.deq \in Seq(in.listed \X Int)
        /\ Keeps(c.cached, stopped.deq)
    BY <2>1, <2>3, PlanStoppedType
  <2> HIDE DEF playing, stopped
  <2>6. /\ plan.queue \in Jobs(in.listed) /\ plan.deq \in Seq(in.listed \X Int)
        /\ Keeps(c.cached, plan.deq)
    BY <2>4, <2>5
  <2>7. c.cached \in [Item -> SUBSET Frame] /\ c.level = LevelOf(ItemList(in.listed), c.cached)
    BY <2>3 DEF Levelled, items
  <2> HIDE DEF plan
  <2>8. SoundPlan(in, answer)
    BY <2>2, <2>3, <2>6, <2>7 DEF SoundPlan, Jobs, Keeps, Distinct
  <2>9. QED
    BY <2>8 DEF answer
<1>2. QED
  BY <1>1

-----------------------------------------------------------------------------
\* The plan is that of the input: nothing else is ever the answer.
PlanInv ==
    /\ input \in PlanInputs(Nat)
    /\ result = NoPlan \/ result = PlanCacheQueue(input)

\* It is an invariant.
LEMMA PlanInvariant == Spec => []PlanInv
<1>1. Init => PlanInv
  BY InputAssumption DEF Init, PlanInv
<1>2. PlanInv /\ [Next]_vars => PlanInv'
  <2>1. CASE Next
    BY <2>1 DEF PlanInv, Next, MakePlan
  <2>2. CASE UNCHANGED vars
    BY <2>2 DEF PlanInv, vars
  <2>3. QED
    BY <2>1, <2>2
<1>3. QED
  BY <1>1, <1>2, PTL DEF Spec

\* The frames that a plan leaves in the caches, and their level, are those of the overflow.
LEMMA PlanOverflow ==
    ASSUME NEW in
    PROVE  LET items == ItemList(in.listed)
               c == FreeOverflow(items, SelectedPos(items, in.sel), in.max, in.cached)
           IN  PlanCacheQueue(in).cached = c.cached /\ PlanCacheQueue(in).level = c.level
BY DEF PlanCacheQueue

\* The level that the plan leaves is the memory that the cached frames take, and it is
\* within the limit, whatever was cached before.
THEOREM LevelExact == Spec => []LevelIsExact
<1>1. PlanInv => LevelIsExact
  <2> SUFFICES ASSUME PlanInv, Made
               PROVE  result.level = LevelOf(Items, result.cached) /\ result.level <= input.max
    BY DEF LevelIsExact
  <2> DEFINE c == FreeOverflow(Items, Pos, input.max, input.cached)
  <2>1. result.cached = c.cached /\ result.level = c.level
    BY PlanOverflow DEF PlanInv, Made, Items, Pos
  <2>2. Freed(Items, Pos, input.max, input.cached, c)
    BY InputType DEF PlanInv, Items, Pos
  <2> HIDE DEF c
  <2>3. QED
    BY <2>1, <2>2 DEF Freed, Levelled
<1>2. QED
  BY <1>1, PlanInvariant, PTL

\* An overflow takes frames from the selected item only when nothing of any other item
\* of the playlist is left.
THEOREM SelectedIsEmptiedLast == Spec => []SelectedEmptiedLast
<1>1. PlanInv => SelectedEmptiedLast
  <2> SUFFICES ASSUME PlanInv, Made,
                      result.cached[Sel] # input.cached[Sel] \cap FrameRange(Sel),
                      NEW i \in input.listed \ {Sel}
               PROVE  result.cached[i] = {}
    BY DEF SelectedEmptiedLast
  <2> DEFINE c == FreeOverflow(Items, Pos, input.max, input.cached)
  <2>1. result.cached = c.cached
    BY PlanOverflow DEF PlanInv, Made, Items, Pos
  <2>2. Freed(Items, Pos, input.max, input.cached, c) /\ ListsAll(Items, input.listed)
    BY InputType DEF PlanInv, Items, Pos
  <2> HIDE DEF c
  <2>3. PICK k \in DOMAIN Items : Items[k] = i
    BY <2>2 DEF ListsAll, Elements
  <2>4. k # Pos
    BY <2>3 DEF Sel
  <2>5. c.cached[Items[k]] = {}
    BY <2>1, <2>2, <2>4 DEF Freed, Sel
  <2>6. QED
    BY <2>1, <2>3, <2>5
<1>2. QED
  BY <1>1, PlanInvariant, PTL

\* During playback the plan is the one of PlanPlaying.
LEMMA PlayingPlan ==
    ASSUME PlanInv, Made, input.play
    PROVE  /\ ListsAll(Items, input.listed) /\ Pos \in DOMAIN Items /\ input.listed \subseteq Item
           /\ result.queue \in Jobs(input.listed) /\ result.deq \in Seq(input.listed \X Int)
           /\ Separates(result.cached, result)
           /\ FarthestFirst(Forwards(Items, Pos), result.deq)
<1> DEFINE c == FreeOverflow(Items, Pos, input.max, input.cached)
           plan == PlanPlaying(Items, input.cachable, Pos, input.max, c.cached)
<1>1. result = PlanCacheQueue(input)
  BY DEF PlanInv, Made
<1>2. /\ input.listed \subseteq Item /\ input.max \in Nat
      /\ input.cachable \in SUBSET CachableItem
      /\ ListsAll(Items, input.listed)
      /\ Pos \in DOMAIN Items
      /\ Holds(input.listed, c.cached)
  BY InputType DEF PlanInv, Items, Pos
<1>3. result.queue = plan.queue /\ result.deq = plan.deq /\ result.cached = c.cached
  BY <1>1 DEF PlanCacheQueue, Items, Pos
<1> HIDE DEF c
<1>4. /\ plan.queue \in Jobs(input.listed) /\ plan.deq \in Seq(input.listed \X Int)
      /\ Separates(c.cached, plan)
      /\ FarthestFirst(Forwards(Items, Pos), plan.deq)
  BY <1>2, PlanPlayingLemma
<1> HIDE DEF plan
<1>5. Separates(result.cached, result)
  BY <1>3, <1>4 DEF Separates
<1>6. QED
  BY <1>2, <1>3, <1>4, <1>5

\* During playback no frame is both marked for removal and planned, every frame that is
\* marked is in a cache, and none is marked twice.
THEOREM PlayingSplits == Spec => []PlayingSplitsCache
<1>1. PlanInv => PlayingSplitsCache
  <2> SUFFICES ASSUME PlanInv, Made, input.play
               PROVE  /\ Removed \cap Planned = {}
                      /\ \A x \in Removed : x[2] \in result.cached[x[1]]
                      /\ \A m, n \in DOMAIN result.deq : result.deq[m] = result.deq[n] => m = n
    BY DEF PlayingSplitsCache
  <2>1. /\ \A m \in DOMAIN result.deq : result.deq[m][2] \in result.cached[result.deq[m][1]]
        /\ Distinct(result.deq)
        /\ Apart(result.deq, result.queue)
    BY PlayingPlan DEF Separates
  <2>2. /\ Removed = {result.deq[m] : m \in DOMAIN result.deq}
        /\ ToSet(result.queue) = {result.queue[j] : j \in DOMAIN result.queue}
    BY DEF Removed, ToSet
  <2>3. \A x \in Removed : x[2] \in result.cached[x[1]]
    BY <2>1, <2>2
  <2>4. ASSUME NEW x \in Removed, x \in Planned
        PROVE  FALSE
    <3>1. PICK m \in DOMAIN result.deq : x = result.deq[m]
      BY <2>2, <2>4
    <3>2. PICK job \in ToSet(result.queue) :
            x \in {<<job.item, f>> : f \in job.first .. job.last}
      BY <2>4 DEF Planned
    <3>3. PICK f \in job.first .. job.last : x = <<job.item, f>>
      BY <3>2
    <3>4. PICK j \in DOMAIN result.queue : job = result.queue[j]
      BY <2>2, <3>2
    <3>5. result.deq[m][1] = result.queue[j].item /\ result.deq[m][2] = f
      BY <3>1, <3>3, <3>4
    <3>6. f \in result.queue[j].first .. result.queue[j].last
      BY <3>4
    <3>7. QED
      BY <2>1, <3>5, <3>6 DEF Apart
  <2>5. QED
    BY <2>1, <2>3, <2>4 DEF Distinct
<1>2. QED
  BY <1>1, PlanInvariant, PTL

\* How many items after the selected one an item is played.
LEMMA DistanceLemma ==
    ASSUME NEW S, NEW items, ListsAll(items, S), S # {}, None \notin S,
           NEW pos \in DOMAIN items, NEW i \in S
    PROVE  LET distance == (SelectedPos(items, i) - pos) % Len(items)
           IN  /\ distance \in 0 .. Len(items) - 1
               /\ distance + 1 \in DOMAIN Forwards(items, pos)
               /\ Forwards(items, pos)[distance + 1] = i
<1> DEFINE p == SelectedPos(items, i)
           d == p - pos
<1>1. PICK n \in Nat \ {0} : n = Len(items) /\ DOMAIN items = 1 .. n /\ pos \in 1 .. n
  <2>1. i \in S \cup {None}
    OBVIOUS
  <2>2. Len(items) \in Nat \ {0} /\ DOMAIN items = 1 .. Len(items)
    BY <2>1, SelectedLemma
  <2>3. QED
    BY <2>2
<1>2. p \in 1 .. n /\ items[p] = i
  <2>1. i \in S \cup {None} /\ i # None
    OBVIOUS
  <2>2. QED
    BY <1>1, <2>1, SelectedLemma
<1> HIDE DEF p
<1>3. d % n = IF d >= 0 THEN d ELSE d + n
  <2>1. Wrap(n, d + 1) = IF d >= 0 THEN d + 1 ELSE d + 1 + n
    <3>1. CASE d >= 0
      <4>1. d + 1 \in 1 .. n
        BY <1>1, <1>2, <3>1
      <4>2. Wrap(n, d + 1) = d + 1
        BY <4>1, WrapLemma
      <4>3. QED
        BY <3>1, <4>2
    <3>2. CASE ~ (d >= 0)
      <4>1. d + 1 \in 1 - n .. 0
        BY <1>1, <1>2, <3>2
      <4>2. Wrap(n, d + 1) = d + 1 + n
        BY <4>1, WrapLemma
      <4>3. QED
        BY <3>2, <4>2
    <3>3. QED
      BY <3>1, <3>2
  <2>2. d \in Int
    BY <1>1, <1>2
  <2> HIDE DEF d
  <2>3. Wrap(n, d + 1) = 1 + (d % n)
    BY <2>2 DEF Wrap
  <2>4. d % n \in Int
    BY <2>2
  <2>5. QED
    BY <2>1, <2>2, <2>3, <2>4
<1> DEFINE k == d % n
<1>4. k \in 0 .. n - 1
  BY <1>1, <1>2, <1>3
<1>5. /\ pos + (k + 1) - 1 <= n => pos + (k + 1) - 1 = p
      /\ ~ (pos + (k + 1) - 1 <= n) => pos + (k + 1) - 1 - n = p
  <2>1. k = IF p - pos >= 0 THEN p - pos ELSE p - pos + n
    BY <1>3
  <2> HIDE DEF k
  <2>2. QED
    BY <1>1, <1>2, <2>1
<1> HIDE DEF k, d
<1>6. k + 1 \in 1 .. n
  BY <1>4
<1>7. /\ Len(Forwards(items, pos)) = n
      /\ ListsAll(Forwards(items, pos), S)
      /\ Forwards(items, pos)[k + 1] = items[IF pos + (k + 1) - 1 <= n THEN pos + (k + 1) - 1
                                                       ELSE pos + (k + 1) - 1 - n]
  BY <1>1, <1>6, ForwardsLemma
<1>8. Forwards(items, pos)[k + 1] = i
  BY <1>2, <1>5, <1>7
<1>9. DOMAIN Forwards(items, pos) = 1 .. n
  BY <1>7, LenProperties DEF ListsAll
<1>10. QED
  BY <1>1, <1>4, <1>6, <1>8, <1>9 DEF k, d, p

\* The frames that are removed first during playback belong to the items that will be
\* played last.
THEOREM PlayingFarthestFirst == Spec => []PlayingRemovesFarthestFirst
<1>1. PlanInv => PlayingRemovesFarthestFirst
  <2> DEFINE Distance(i) == (SelectedPos(Items, i) - Pos) % Len(Items)
  <2> SUFFICES ASSUME PlanInv, Made, input.play,
                      NEW m \in DOMAIN result.deq, NEW n \in DOMAIN result.deq, m < n
               PROVE  Distance(result.deq[m][1]) >= Distance(result.deq[n][1])
    BY DEF PlayingRemovesFarthestFirst
  <2>1. /\ ListsAll(Items, input.listed) /\ Pos \in DOMAIN Items
        /\ result.deq \in Seq(input.listed \X Int)
        /\ FarthestFirst(Forwards(Items, Pos), result.deq)
    BY PlayingPlan
  <2>2. input.listed # {} /\ None \notin input.listed
    <3>1. input.listed \subseteq Item /\ input.listed # {}
      BY DEF PlanInv, PlanInputs
    <3>2. QED
      BY <3>1, ItemAssumption
  <2> DEFINE x == result.deq[m][1]
             y == result.deq[n][1]
  <2>3. x \in input.listed /\ y \in input.listed
    <3>1. DOMAIN result.deq = 1 .. Len(result.deq)
      BY <2>1, LenProperties
    <3>2. result.deq[m] \in input.listed \X Int /\ result.deq[n] \in input.listed \X Int
      BY <2>1, <3>1, ElementOfSeq
    <3>3. QED
      BY <3>2
  <2>4. ASSUME NEW z \in input.listed
        PROVE  /\ Distance(z) \in 0 .. Len(Items) - 1
               /\ Distance(z) + 1 \in DOMAIN Forwards(Items, Pos)
               /\ Forwards(Items, Pos)[Distance(z) + 1] = z
    BY ONLY <2>1, <2>2, <2>4, DistanceLemma
  <2> HIDE DEF Distance
  <2>5. /\ Distance(x) \in 0 .. Len(Items) - 1
        /\ Distance(x) + 1 \in DOMAIN Forwards(Items, Pos)
        /\ Forwards(Items, Pos)[Distance(x) + 1] = x
    <3> HIDE DEF x
    <3>1. QED
      BY ONLY <2>3, <2>4
  <2>6. /\ Distance(y) \in 0 .. Len(Items) - 1
        /\ Distance(y) + 1 \in DOMAIN Forwards(Items, Pos)
        /\ Forwards(Items, Pos)[Distance(y) + 1] = y
    <3> HIDE DEF y
    <3>1. QED
      BY ONLY <2>3, <2>4
  <2>7. Distance(x) + 1 >= Distance(y) + 1
    BY <2>1, <2>5, <2>6 DEF FarthestFirst
  <2>8. QED
    BY <2>5, <2>6, <2>7
<1>2. QED
  BY <1>1, PlanInvariant, PTL

\* The deleting loop of updateCacheQueue comes to an end.
THEOREM DeletingTerminates == Spec => []DeletingEnds
<1>1. PlanInv => DeletingEnds
  <2> DEFINE c == FreeOverflow(Items, Pos, input.max, input.cached)
             needed == SpaceOf(Sel, LastFrame[Sel] - FirstFrame[Sel] + 1)
             additional == needed - SpaceOf(Sel, NrCached(c.cached, Sel))
             plan == PlanDeleting(Items, Pos, input.max, c, needed, additional)
  <2> SUFFICES ASSUME PlanInv, Sel \in input.cachable, needed <= input.max
               PROVE  plan.ended
    BY DEF DeletingEnds
  <2>1. /\ input.listed \subseteq Item /\ input.max \in Nat
        /\ input.cachable \in SUBSET CachableItem
        /\ ListsAll(Items, input.listed)
        /\ Pos \in DOMAIN Items
        /\ Freed(Items, Pos, input.max, input.cached, c)
        /\ Holds(input.listed, c.cached)
    BY InputType DEF PlanInv, Items, Pos
  <2> HIDE DEF c
  <2>2. Levelled(Items, c)
    BY <2>1 DEF Freed
  <2>3. Sel \in input.listed
    <3>1. Pos \in 1 .. Len(Items)
      BY <2>1, LenProperties DEF ListsAll
    <3>2. QED
      BY <2>1, <3>1, ElementOfSeq DEF ListsAll, Sel
  <2>4. needed \in Int /\ additional \in Int
    <3>1. Sel \in Item /\ c.cached[Sel] \subseteq Nat /\ IsFiniteSet(c.cached[Sel])
      BY <2>1, <2>3 DEF Holds
    <3>2. QED
      BY <3>1, NeededType
  <2>5. Items[Pos] \in IndexedByFrame
    <3>1. Sel \in CachableItem
      BY <2>1
    <3>2. QED
      BY <3>1, ItemAssumption DEF Sel
  <2> HIDE DEF needed, additional, plan
  <2>6. needed <= input.max
    BY DEF needed
  <2>7. PICK h : /\ DeleteLoop(input.listed, Items, Pos, input.max, c.cached, needed,
                               DeletesFrom(Items, Pos, c), 2 * Len(Items) + 1, h)
                 /\ plan.ended = h[2 * Len(Items) + 1].stop
    BY <2>1, <2>2, <2>4, <2>5, DeleteLoopLemma DEF plan
  <2>8. h[2 * Len(Items) + 1].stop
    BY <2>1, <2>2, <2>4, <2>5, <2>6, <2>7, DeletingStops
  <2>9. QED
    BY <2>7, <2>8 DEF plan
<1>2. QED
  BY <1>1, PlanInvariant, PTL
=============================================================================
