------------------------- MODULE VirtualMemoryProofs ------------------------
(***************************************************************************)
(* Theorems about VirtualMemory, for any keys, clients, values, pages and  *)
(* commands, and for any number of threads and jobs.                       *)
(***************************************************************************)
EXTENDS VirtualMemory, SequenceTheorems, FiniteSetTheorems,
        WellFoundedInduction, TLAPS

-----------------------------------------------------------------------------
(* Folds over sequences.  FoldLeft is defined by a recursive function on the *)
(* sets of positions: there is one, and it runs from position to position.   *)

(* Induction on the members of 0..n, as a statement about a set.             *)
LEMMA IndexInduction ==
  ASSUME NEW n \in Nat, NEW G, 0 \in G, \A i \in 1..n : i - 1 \in G => i \in G
  PROVE  n \in G /\ \A i \in 0..n : i \in G
<1> DEFINE Less == OpToRel(LAMBDA x, y : x < y, Nat)
           T == {i \in 0..n : i \notin G}
<1>1. IsWellFoundedOn(Less, Nat)
  BY NatLessThanWellFounded
<1>2. SUFFICES ASSUME T # {} PROVE FALSE
  <2>1. n \in 0..n
    OBVIOUS
  <2>2. QED
    BY <2>1
<1>3. \A x, y \in Nat : x < y => <<x, y>> \in Less
  BY DEF OpToRel
<1>4. T \subseteq Nat
  OBVIOUS
<1>5. PICK x \in T : \A y \in T : ~(<<y, x>> \in Less)
  <2> HIDE DEF T, Less
  <2> QED BY <1>1, <1>2, <1>4, WFMin
<1>6. x \in 1..n /\ x - 1 \in 0..n /\ x - 1 \in Nat /\ x \in Nat /\ x - 1 < x
  OBVIOUS
<1>7. x - 1 \notin T
  <2> HIDE DEF T, Less
  <2> QED BY <1>3, <1>5, <1>6
<1>8. QED
  BY <1>6, <1>7

LEMMA MaxOfPrefix ==
  ASSUME NEW i \in Nat \ {0}
  PROVE  Max(1..i) = i /\ (1..i) \ {i} = 1..i - 1 /\ 1..i # {}
<1>1. \A x \in 1..i : (\A y \in 1..i : x >= y) => x = i
  OBVIOUS
<1>2. i \in 1..i /\ \A y \in 1..i : i >= y
  OBVIOUS
<1>3. Max(1..i) = i
  BY <1>1, <1>2 DEF Max
<1>4. QED
  BY <1>2, <1>3

LEMMA MaxOfOthers ==
  ASSUME NEW i \in Nat \ {0}, NEW S \in SUBSET (1..i), i \in S
  PROVE  Max(S) = i
<1>1. \A x \in S : (\A y \in S : x >= y) => x = i
  OBVIOUS
<1>2. i \in S /\ \A y \in S : i >= y
  OBVIOUS
<1>3. QED
  BY <1>1, <1>2 DEF Max

(* Any nonempty part of 1..n has a greatest member. *)
LEMMA MaxOfSet ==
  ASSUME NEW n \in Nat, NEW S \in SUBSET (1..n), S # {}
  PROVE  Max(S) \in S
<1> DEFINE G == {i \in 0..n : S \cap (1..i) # {} => \E x \in S : \A y \in S \cap (1..i) : y <= x /\ x <= i}
<1>1. 0 \in G
  OBVIOUS
<1>2. ASSUME NEW i \in 1..n, i - 1 \in G
      PROVE  i \in G
  <2>1. CASE i \in S
    BY <2>1
  <2>2. CASE i \notin S
    <3>1. S \cap (1..i) = S \cap (1..i - 1)
      BY <2>2
    <3>2. QED
      BY <1>2, <3>1
  <2>3. QED
    BY <2>1, <2>2
<1>3. \A i \in 1..n : i - 1 \in G => i \in G
  BY <1>2
<1>4. n \in G
  <2> HIDE DEF G
  <2>1. QED
    BY <1>1, <1>3, IndexInduction
<1>5. n \in G /\ S \cap (1..n) = S
  BY <1>4
<1>6. \E x \in S : \A y \in S : x >= y
  BY <1>5
<1>7. QED
  BY <1>6 DEF Max

Folds(h, n, b, F) ==
  /\ h[{}] = b
  /\ \A S \in (SUBSET (1..n)) \ {{}} : h[S] = F[Max(S)][h[S \ {Max(S)}]]

LEMMA FoldRuns ==
  ASSUME NEW n \in Nat, NEW V, NEW b \in V, NEW F \in [1..n -> [V -> V]]
  PROVE  \E h \in [SUBSET (1..n) -> V] : Folds(h, n, b, F)
<1> DEFINE D(i) == SUBSET (1..i)
           Rec(h, i) == /\ h \in [D(i) -> V]
                        /\ h[{}] = b
                        /\ \A S \in D(i) \ {{}} : h[S] = F[Max(S)][h[S \ {Max(S)}]]
           G == {i \in 0..n : \E h : Rec(h, i)}
<1>1. 0 \in G
  <2>1. Rec([S \in D(0) |-> b], 0)
    OBVIOUS
  <2>2. QED
    BY <2>1
<1>2. ASSUME NEW i \in 1..n, i - 1 \in G
      PROVE  i \in G
  <2>1. PICK h : Rec(h, i - 1)
    BY <1>2
  <2> DEFINE g == [S \in D(i) |-> IF i \in S THEN F[i][h[S \ {i}]] ELSE h[S]]
  <2>2. ASSUME NEW S \in D(i)
        PROVE  /\ i \notin S => S \in D(i - 1)
               /\ S \ {i} \in D(i - 1)
    OBVIOUS
  <2>3. g \in [D(i) -> V]
    BY <2>1, <2>2
  <2>4. g[{}] = b
    BY <2>1
  <2>5. ASSUME NEW S \in D(i) \ {{}}
        PROVE  g[S] = F[Max(S)][g[S \ {Max(S)}]]
    <3>1. CASE i \in S
      <4>1. Max(S) = i
        BY <3>1, MaxOfOthers
      <4>2. S \ {i} \in D(i) /\ i \notin S \ {i}
        OBVIOUS
      <4>3. g[S \ {i}] = h[S \ {i}] /\ g[S] = F[i][h[S \ {i}]]
        BY <3>1, <4>2
      <4>4. QED
        BY <4>1, <4>3
    <3>2. CASE i \notin S
      <4>1. S \in D(i - 1) \ {{}} /\ S \ {Max(S)} \in D(i) /\ i \notin S \ {Max(S)}
        BY <2>2, <3>2
      <4>2. g[S] = h[S] /\ g[S \ {Max(S)}] = h[S \ {Max(S)}]
        BY <3>2, <4>1
      <4>3. QED
        BY <2>1, <4>1, <4>2
    <3>3. QED
      BY <3>1, <3>2
  <2>6. Rec(g, i)
    <3> HIDE DEF g, D
    <3>1. QED
      BY <2>3, <2>4, <2>5
  <2>7. QED
    <3> HIDE DEF Rec, g
    <3>1. QED
      BY <2>6
<1>3. \A i \in 1..n : i - 1 \in G => i \in G
  BY <1>2
<1>4. n \in G
  <2> HIDE DEF G
  <2>1. QED
    BY <1>1, <1>3, IndexInduction
<1>5. QED
  BY <1>4 DEF Folds

FoldsIn(iter, n, V, b, F) ==
  /\ iter[{}] = b
  /\ \A S \in (SUBSET (1..n)) \ {{}} :
       iter[S \ {Max(S)}] \in V => iter[S] = F[Max(S)][iter[S \ {Max(S)}]]

RunsTo(run, n, b, F, result) ==
  /\ run[0] = b
  /\ \A i \in 1..n : run[i] = F[i][run[i - 1]]
  /\ result = run[n]

(* A function that folds with F whatever comes from V runs through V.        *)
LEMMA FoldIs ==
  ASSUME NEW n \in Nat, NEW V, NEW b \in V, NEW F \in [1..n -> [V -> V]], NEW iter,
         FoldsIn(iter, n, V, b, F)
  PROVE  \E run \in [0..n -> V] : RunsTo(run, n, b, F, iter[1..n])
<1> DEFINE run == [i \in 0..n |-> iter[1..i]]
           G == {i \in 0..n : run[i] \in V}
<1>1. run[0] = b /\ run[n] = iter[1..n]
  BY DEF FoldsIn
<1>2. ASSUME NEW i \in 1..n, run[i - 1] \in V
      PROVE  run[i] = F[i][run[i - 1]]
  <2>1. Max(1..i) = i /\ (1..i) \ {i} = 1..i - 1 /\ 1..i # {}
    <3>1. i \in Nat \ {0}
      OBVIOUS
    <3>2. QED
      BY <3>1, MaxOfPrefix
  <2>2. 1..i \in SUBSET (1..n) /\ i - 1 \in 0..n /\ i \in 0..n
    OBVIOUS
  <2>3. iter[1..i - 1] \in V => iter[1..i] = F[i][iter[1..i - 1]]
    BY <2>1, <2>2 DEF FoldsIn
  <2>4. QED
    BY <1>2, <2>2, <2>3
<1>3. 0 \in G /\ \A i \in 1..n : i - 1 \in G => i \in G
  <2> HIDE DEF run
  <2>1. QED
    BY <1>1, <1>2
<1>4. \A i \in 0..n : i \in G
  <2> HIDE DEF G
  <2>1. QED
    BY <1>3, IndexInduction
<1>5. run \in [0..n -> V]
  BY <1>4
<1>6. \A i \in 1..n : run[i] = F[i][run[i - 1]]
  <2> HIDE DEF run
  <2>1. QED
    BY <1>2, <1>5
<1>7. RunsTo(run, n, b, F, iter[1..n])
  <2> HIDE DEF run
  <2>1. QED
    BY <1>1, <1>6 DEF RunsTo
<1>8. QED
  <2> HIDE DEF run
  <2>1. QED
    BY <1>5, <1>7

(* Any nonempty part of 1..n has a least member. *)
LEMMA MinOfSet ==
  ASSUME NEW n \in Nat, NEW S \in SUBSET (1..n), S # {}
  PROVE  Min(S) \in S
<1> DEFINE G == {i \in 0..n : S \cap (1..i) # {} => \E x \in S : \A y \in S : x <= y}
<1>1. 0 \in G
  OBVIOUS
<1>2. ASSUME NEW i \in 1..n, i - 1 \in G
      PROVE  i \in G
  <2>1. CASE S \cap (1..i - 1) # {}
    BY <1>2, <2>1
  <2>2. CASE S \cap (1..i - 1) = {}
    <3>1. \A y \in S : y >= i
      BY <2>2
    <3>2. S \cap (1..i) # {} => i \in S
      BY <2>2
    <3>3. QED
      BY <3>1, <3>2
  <2>3. QED
    BY <2>1, <2>2
<1>3. \A i \in 1..n : i - 1 \in G => i \in G
  BY <1>2
<1>4. n \in G
  <2> HIDE DEF G
  <2>1. QED
    BY <1>1, <1>3, IndexInduction
<1>5. n \in G /\ S \cap (1..n) = S
  BY <1>4
<1>6. \E x \in S : \A y \in S : x <= y
  BY <1>5
<1>7. QED
  BY <1>6 DEF Min

-----------------------------------------------------------------------------
(* Queues: how often something is in them, and the removal of one element.   *)

Where(q, x) == {i \in DOMAIN q : q[i] = x}
Occurs(q, x) == Cardinality(Where(q, x))

LEMMA OccursIs ==
  ASSUME NEW S, NEW q \in Seq(S), NEW x
  PROVE  /\ IsFiniteSet(Where(q, x)) /\ Occurs(q, x) \in Nat
         /\ Occurs(q, x) = 0 <=> x \notin ToSet(q)
<1>1. DOMAIN q = 1..Len(q) /\ Len(q) \in Nat
  OBVIOUS
<1>2. IsFiniteSet(1..Len(q))
  BY <1>1, FS_Interval
<1>3. Where(q, x) \in SUBSET (1..Len(q))
  BY <1>1 DEF Where
<1>4. IsFiniteSet(Where(q, x))
  BY <1>2, <1>3, FS_Subset
<1>5. Occurs(q, x) = 0 <=> Where(q, x) = {}
  BY <1>4, FS_EmptySet DEF Occurs
<1>6. QED
  BY <1>4, <1>5, FS_CardinalityType DEF Occurs, Where, ToSet

LEMMA NoneOccurs ==
  ASSUME NEW x
  PROVE  Occurs(<<>>, x) = 0
<1>1. Where(<<>>, x) = {}
  BY DEF Where
<1>2. QED
  BY <1>1, FS_EmptySet DEF Occurs

LEMMA OccursInAppended ==
  ASSUME NEW S, NEW q \in Seq(S), NEW y \in S
  PROVE  /\ Occurs(Append(q, y), y) = Occurs(q, y) + 1
         /\ \A x : x # y => Occurs(Append(q, y), x) = Occurs(q, x)
<1> DEFINE n == Len(q) + 1
           r == Append(q, y)
<1>1. DOMAIN q = 1..Len(q) /\ Len(q) \in Nat /\ DOMAIN r = 1..n
      /\ r[n] = y /\ \A i \in 1..Len(q) : r[i] = q[i]
  OBVIOUS
<1> HIDE DEF r
<1>2. Where(r, y) = Where(q, y) \cup {n} /\ n \notin Where(q, y)
  BY <1>1 DEF Where
<1>3. \A x : x # y => Where(r, x) = Where(q, x)
  BY <1>1 DEF Where
<1>4. IsFiniteSet(Where(q, y))
  BY OccursIs
<1>5. Occurs(r, y) = Occurs(q, y) + 1
  BY <1>2, <1>4, FS_AddElement DEF Occurs
<1>6. \A x : x # y => Occurs(r, x) = Occurs(q, x)
  BY <1>3 DEF Occurs
<1>7. QED
  BY <1>5, <1>6 DEF r

(* Removal at a position, or at none.                                        *)
LEMMA RemovedAt ==
  ASSUME NEW S, NEW q \in Seq(S), NEW p \in 1..Len(q)
  PROVE  /\ RemoveAt(q, p) \in Seq(S) /\ Len(RemoveAt(q, p)) = Len(q) - 1
         /\ \A i \in 1..Len(q) - 1 : RemoveAt(q, p)[i] = IF i < p THEN q[i] ELSE q[i + 1]
<1> DEFINE a == SubSeq(q, 1, p - 1)
           b == SubSeq(q, p + 1, Len(q))
<1>1. Len(q) \in Nat /\ p \in Nat \ {0}
  OBVIOUS
<1>2. a \in Seq(S) /\ Len(a) = p - 1 /\ \A i \in 1..p - 1 : a[i] = q[i]
  BY <1>1
<1>3. b \in Seq(S) /\ Len(b) = Len(q) - p /\ \A i \in 1..Len(q) - p : b[i] = q[i + p]
  BY <1>1
<1> HIDE DEF a, b
<1>4. /\ a \o b \in Seq(S) /\ Len(a \o b) = Len(q) - 1
      /\ \A i \in 1..Len(q) - 1 : (a \o b)[i] = IF i <= p - 1 THEN a[i] ELSE b[i - (p - 1)]
  <2>1. Len(a) + Len(b) = Len(q) - 1
    BY <1>1, <1>2, <1>3
  <2>2. /\ a \o b \in Seq(S) /\ Len(a \o b) = Len(a) + Len(b)
        /\ \A i \in 1..Len(a) + Len(b) : (a \o b)[i] = IF i <= Len(a) THEN a[i] ELSE b[i - Len(a)]
    BY <1>2, <1>3, ConcatProperties
  <2>3. QED
    BY <1>2, <2>1, <2>2
<1>5. ASSUME NEW i \in 1..Len(q) - 1
      PROVE  (a \o b)[i] = IF i < p THEN q[i] ELSE q[i + 1]
  <2>1. ASSUME i < p
        PROVE  (a \o b)[i] = q[i]
    <3>1. i <= p - 1 /\ i \in 1..p - 1
      BY <1>1, <2>1
    <3>2. QED
      BY <1>2, <1>4, <2>1, <3>1
  <2>2. ASSUME i >= p
        PROVE  (a \o b)[i] = q[i + 1]
    <3>1. (a \o b)[i] = b[i - p + 1]
      <4>1. ~(i <= p - 1) /\ i - (p - 1) = i - p + 1
        BY <1>1, <2>2
      <4>2. QED
        BY <1>4, <4>1
    <3>2. i - p + 1 \in 1..Len(q) - p
      BY <1>1, <2>2
    <3>3. b[i - p + 1] = q[i - p + 1 + p]
      BY <1>3, <3>2
    <3>4. QED
      BY <1>1, <2>2, <3>1, <3>3
  <2>3. (i >= p /\ ~(i < p)) \/ i < p
    BY <1>1
  <2>4. QED
    BY <2>1, <2>2, <2>3
<1>6. QED
  BY <1>4, <1>5 DEF RemoveAt, a, b

LEMMA RemovedNowhere ==
  ASSUME NEW S, NEW q \in Seq(S)
  PROVE  RemoveAt(q, 0) = q
<1>1. SubSeq(q, 1, 0 - 1) = <<>> /\ SubSeq(q, 0 + 1, Len(q)) = q
  OBVIOUS
<1>2. QED
  BY <1>1 DEF RemoveAt

LEMMA OccursInRemoved ==
  ASSUME NEW S, NEW q \in Seq(S), NEW p \in 1..Len(q), NEW r \in Seq(S), Len(r) = Len(q) - 1,
         \A i \in 1..Len(q) - 1 : r[i] = IF i < p THEN q[i] ELSE q[i + 1],
         NEW y
  PROVE  Occurs(r, y) = IF q[p] = y THEN Occurs(q, y) - 1 ELSE Occurs(q, y)
<1> DEFINE f == [i \in Where(r, y) |-> IF i < p THEN i ELSE i + 1]
           T == Where(q, y) \ {p}
<1>1. DOMAIN q = 1..Len(q) /\ DOMAIN r = 1..Len(q) - 1 /\ Len(q) \in Nat /\ p \in Nat
  OBVIOUS
<1>2. f \in [Where(r, y) -> T]
  <2> SUFFICES ASSUME NEW i \in Where(r, y) PROVE f[i] \in T
    OBVIOUS
  <2>1. i \in 1..Len(q) - 1 /\ r[i] = y
    BY <1>1 DEF Where
  <2>2. QED
    BY <1>1, <2>1 DEF Where
<1>3. \A i, j \in Where(r, y) : i # j => f[i] # f[j]
  BY <1>1 DEF Where
<1>4. ASSUME NEW j \in T
      PROVE  \E i \in Where(r, y) : f[i] = j
  <2>1. j \in 1..Len(q) /\ q[j] = y /\ j # p
    BY <1>1 DEF Where
  <2> DEFINE i == IF j < p THEN j ELSE j - 1
  <2>2. i \in 1..Len(q) - 1 /\ r[i] = y
    BY <1>1, <2>1
  <2>3. i \in Where(r, y)
    BY <1>1, <2>2 DEF Where
  <2>4. f[i] = j
    BY <1>1, <2>1, <2>3
  <2>5. QED
    BY <2>3, <2>4
<1>5. ExistsBijection(Where(r, y), T)
  <2> HIDE DEF f
  <2>1. f \in Bijection(Where(r, y), T)
    BY <1>2, <1>3, <1>4 DEF Bijection, Injection, Surjection, IsInjective
  <2>2. QED
    BY <2>1 DEF ExistsBijection
<1>6. IsFiniteSet(Where(r, y)) /\ IsFiniteSet(Where(q, y))
  BY OccursIs
<1>7. Cardinality(T) = Cardinality(Where(r, y))
  BY <1>5, <1>6, FS_Bijection
<1>8. p \in Where(q, y) <=> q[p] = y
  BY <1>1 DEF Where
<1>9. Cardinality(T) = IF p \in Where(q, y) THEN Cardinality(Where(q, y)) - 1 ELSE Cardinality(Where(q, y))
  <2> HIDE DEF Where
  <2>1. QED
    BY <1>6, FS_RemoveElement
<1>10. QED
  BY <1>7, <1>8, <1>9 DEF Occurs

FirstAt(q, x) == SelectInSeq(q, LAMBDA y : y = x)

LEMMA FirstAtIs ==
  ASSUME NEW S, NEW q \in Seq(S), NEW x, NEW i \in 1..Len(q), q[i] = x
  PROVE  FirstAt(q, x) \in 1..Len(q) /\ q[FirstAt(q, x)] = x /\ (q[1] = x => FirstAt(q, x) = 1)
<1> DEFINE I == {j \in 1..Len(q) : q[j] = x}
<1>1. Len(q) \in Nat /\ I \in SUBSET (1..Len(q)) /\ I # {}
  OBVIOUS
<1>2. FirstAt(q, x) = Min(I)
  BY <1>1 DEF FirstAt, SelectInSeq
<1>3. Min(I) \in I
  <2> HIDE DEF I
  <2>1. QED
    BY <1>1, MinOfSet
<1>4. 1 \in I => Min(I) = 1
  <2>1. \A j \in I : j >= 1 /\ j \in Nat
    OBVIOUS
  <2>2. 1 \in I => \A m \in I : (\A j \in I : m <= j) => m = 1
    BY <2>1
  <2>3. QED
    BY <2>1, <2>2 DEF Min
<1>5. QED
  BY <1>2, <1>3, <1>4

LEMMA RemovedFirst ==
  ASSUME NEW S, NEW q \in Seq(S), NEW x
  PROVE  /\ RemoveFirst(q, x) \in Seq(S)
         /\ Occurs(q, x) = 0 => RemoveFirst(q, x) = q
         /\ Occurs(q, x) # 0 => /\ q # <<>> /\ Occurs(RemoveFirst(q, x), x) = Occurs(q, x) - 1
                                /\ Len(RemoveFirst(q, x)) = Len(q) - 1
         /\ \A y : y # x => Occurs(RemoveFirst(q, x), y) = Occurs(q, y)
         /\ q # <<>> /\ q[1] = x => RemoveFirst(q, x) = Tail(q)
<1>0. Len(q) \in Nat /\ DOMAIN q = 1..Len(q)
  OBVIOUS
<1>1. CASE ~\E i \in 1..Len(q) : q[i] = x
  <2>1. RemoveFirst(q, x) = q
    BY <1>1 DEF RemoveFirst
  <2>2. x \notin ToSet(q)
    BY <1>0, <1>1 DEF ToSet
  <2>3. Occurs(q, x) = 0
    BY <2>2, OccursIs
  <2>4. ~(q # <<>> /\ q[1] = x)
    BY <1>0, <1>1
  <2>5. QED
    BY <2>1, <2>3, <2>4
<1>2. CASE \E i \in 1..Len(q) : q[i] = x
  <2> DEFINE p == FirstAt(q, x)
             r == RemoveFirst(q, x)
  <2>1. r = RemoveAt(q, p)
    BY <1>2 DEF RemoveFirst, FirstAt
  <2>2. p \in 1..Len(q) /\ q[p] = x /\ (q[1] = x => p = 1)
    BY <1>2, FirstAtIs
  <2> HIDE DEF p, r
  <2>3. /\ r \in Seq(S) /\ Len(r) = Len(q) - 1
        /\ \A i \in 1..Len(q) - 1 : r[i] = IF i < p THEN q[i] ELSE q[i + 1]
    BY <2>1, <2>2, RemovedAt
  <2>4. \A y : Occurs(r, y) = IF q[p] = y THEN Occurs(q, y) - 1 ELSE Occurs(q, y)
    BY <2>2, <2>3, OccursInRemoved
  <2>5. Occurs(q, x) # 0 /\ q # <<>>
    <3>1. x \in ToSet(q) /\ q # <<>>
      BY <1>0, <1>2 DEF ToSet
    <3>2. QED
      BY <3>1, OccursIs
  <2>6. ASSUME q[1] = x
        PROVE  r = Tail(q)
    <3>1. p = 1 /\ Len(q) \in Nat \ {0}
      BY <1>0, <2>2, <2>6
    <3>2. \A i \in 1..Len(q) - 1 : r[i] = q[i + 1]
      BY <2>3, <3>1
    <3>3. Tail(q) \in Seq(S) /\ Len(Tail(q)) = Len(q) - 1 /\ \A i \in 1..Len(q) - 1 : Tail(q)[i] = q[i + 1]
      BY <2>5, <3>1
    <3>4. QED
      BY <2>3, <3>2, <3>3, SeqEqual
  <2>7. /\ r \in Seq(S)
        /\ Occurs(q, x) = 0 => r = q
        /\ Occurs(q, x) # 0 => /\ q # <<>> /\ Occurs(r, x) = Occurs(q, x) - 1
                               /\ Len(r) = Len(q) - 1
        /\ \A y : y # x => Occurs(r, y) = Occurs(q, y)
        /\ q # <<>> /\ q[1] = x => r = Tail(q)
    BY <2>2, <2>3, <2>4, <2>5, <2>6
  <2>8. QED
    BY <2>7 DEF r
<1>3. QED
  BY <1>1, <1>2


-----------------------------------------------------------------------------
(* Queues of jobs: at most one job of a key that is not cancelled.           *)

Words == Vals \cup {"none", "garbage"}
PageSets == SUBSET (0..Pages - 1)
AnyJob ==
  [type : {"load", "prepare", "swap"}, key : Keys, id : Nat, canceled : BOOLEAN,
   val : Words, pages : PageSets]

Of(q, k) == {j \in ToSet(q) : j.key = k /\ ~j.canceled}
At(P, k) == {j \in P : j.key = k}
Distinct(q) ==
  \A i, j \in DOMAIN q : q[i].key = q[j].key /\ ~q[i].canceled /\ ~q[j].canceled => i = j
AllLive(q) == \A i \in DOMAIN q : ~q[i].canceled

LEMMA MembersOfAppended ==
  ASSUME NEW S, NEW q \in Seq(S), NEW x \in S
  PROVE  ToSet(Append(q, x)) = ToSet(q) \cup {x}
<1>1. DOMAIN q = 1..Len(q) /\ Len(q) \in Nat
  OBVIOUS
<1>2. /\ DOMAIN Append(q, x) = 1..Len(q) + 1
      /\ Append(q, x)[Len(q) + 1] = x
      /\ \A i \in 1..Len(q) : Append(q, x)[i] = q[i]
  OBVIOUS
<1>3. QED
  BY <1>1, <1>2 DEF ToSet

LEMMA AppendedJob ==
  ASSUME NEW q \in Seq(AnyJob), NEW x \in AnyJob, Distinct(q), Of(q, x.key) = {}
  PROVE  /\ Append(q, x) \in Seq(AnyJob) /\ Distinct(Append(q, x))
         /\ Of(Append(q, x), x.key) = IF x.canceled THEN {} ELSE {x}
         /\ \A k : k # x.key => Of(Append(q, x), k) = Of(q, k)
         /\ AllLive(q) /\ ~x.canceled => AllLive(Append(q, x))
<1> DEFINE r == Append(q, x)
<1>1. /\ r \in Seq(AnyJob) /\ DOMAIN q = 1..Len(q) /\ Len(q) \in Nat
      /\ DOMAIN r = 1..Len(q) + 1 /\ r[Len(q) + 1] = x
      /\ \A i \in 1..Len(q) : r[i] = q[i]
  OBVIOUS
<1>2. ToSet(r) = ToSet(q) \cup {x}
  BY MembersOfAppended
<1> HIDE DEF r
<1>3. \A i \in 1..Len(q) : q[i].key = x.key => q[i].canceled
  BY <1>1 DEF Of, ToSet
<1>4. Distinct(r)
  <2> SUFFICES ASSUME NEW i \in 1..Len(q) + 1, NEW j \in 1..Len(q) + 1,
                      r[i].key = r[j].key, ~r[i].canceled, ~r[j].canceled
               PROVE  i = j
    BY <1>1 DEF Distinct
  <2>1. CASE i = Len(q) + 1 \/ j = Len(q) + 1
    BY <1>1, <1>3, <2>1
  <2>2. CASE i \in 1..Len(q) /\ j \in 1..Len(q)
    BY <1>1, <2>2 DEF Distinct
  <2>3. QED
    BY <1>1, <2>1, <2>2
<1>5. Of(r, x.key) = IF x.canceled THEN {} ELSE {x}
  BY <1>2 DEF Of
<1>6. \A k : k # x.key => Of(r, k) = Of(q, k)
  BY <1>2 DEF Of
<1>7. AllLive(q) /\ ~x.canceled => AllLive(r)
  BY <1>1 DEF AllLive
<1>8. QED
  BY <1>1, <1>4, <1>5, <1>6, <1>7 DEF r

(* The job at a position goes, whatever its state.                           *)
Shortened(q, r, p) ==
  /\ p \in 1..Len(q) /\ r \in Seq(AnyJob) /\ Len(r) = Len(q) - 1
  /\ \A i \in 1..Len(q) - 1 : r[i] = IF i < p THEN q[i] ELSE q[i + 1]

LEMMA ShortenedJobs ==
  ASSUME NEW q \in Seq(AnyJob), Distinct(q), NEW r, NEW p, Shortened(q, r, p)
  PROVE  /\ Distinct(r) /\ ToSet(r) \subseteq ToSet(q)
         /\ ~q[p].canceled => Of(r, q[p].key) = {}
         /\ \A k : k # q[p].key \/ q[p].canceled => Of(r, k) = Of(q, k)
         /\ AllLive(q) => AllLive(r)
<1> DEFINE f(i) == IF i < p THEN i ELSE i + 1
<1>1. /\ DOMAIN q = 1..Len(q) /\ Len(q) \in Nat /\ DOMAIN r = 1..Len(q) - 1 /\ p \in 1..Len(q)
      /\ \A i \in 1..Len(q) - 1 : r[i] = q[f(i)] /\ f(i) \in 1..Len(q) /\ f(i) # p
      /\ \A i, j \in 1..Len(q) - 1 : f(i) = f(j) => i = j
  BY DEF Shortened
<1>2. \A i \in 1..Len(q) : i # p => \E j \in 1..Len(q) - 1 : f(j) = i
  <2> SUFFICES ASSUME NEW i \in 1..Len(q), i # p
               PROVE  \E j \in 1..Len(q) - 1 : f(j) = i
    OBVIOUS
  <2>1. CASE i < p
    <3>1. i \in 1..Len(q) - 1 /\ f(i) = i
      BY <1>1, <2>1
    <3>2. QED
      BY <3>1
  <2>2. CASE i > p
    <3>1. i - 1 \in 1..Len(q) - 1 /\ f(i - 1) = i
      BY <1>1, <2>2
    <3>2. QED
      BY <3>1
  <2>3. QED
    BY <1>1, <2>1, <2>2
<1> HIDE DEF f
<1>3. Distinct(r)
  BY <1>1 DEF Distinct
<1>4. ToSet(r) = {q[i] : i \in (1..Len(q)) \ {p}}
  <2>1. ASSUME NEW x \in ToSet(r)
        PROVE  x \in {q[i] : i \in (1..Len(q)) \ {p}}
    <3>1. PICK i \in 1..Len(q) - 1 : x = r[i]
      BY <1>1 DEF ToSet
    <3>2. QED
      BY <1>1, <3>1
  <2>2. ASSUME NEW i \in (1..Len(q)) \ {p}
        PROVE  q[i] \in ToSet(r)
    <3>1. PICK j \in 1..Len(q) - 1 : f(j) = i
      BY <1>2
    <3>2. QED
      BY <1>1, <3>1 DEF ToSet
  <2>3. QED
    BY <2>1, <2>2
<1>5. ~q[p].canceled => Of(r, q[p].key) = {}
  <2>1. \A i \in (1..Len(q)) \ {p} : q[i].key = q[p].key /\ ~q[p].canceled => q[i].canceled
    BY <1>1 DEF Distinct
  <2>2. QED
    BY <1>4, <2>1 DEF Of
<1>6. ToSet(q) = ToSet(r) \cup {q[p]}
  BY <1>1, <1>4 DEF ToSet
<1>7. \A k : k # q[p].key \/ q[p].canceled => Of(r, k) = Of(q, k)
  BY <1>6 DEF Of
<1>8. AllLive(q) => AllLive(r)
  BY <1>1 DEF AllLive
<1>9. QED
  BY <1>3, <1>5, <1>6, <1>7, <1>8

LEMMA TailIsShortened ==
  ASSUME NEW q \in Seq(AnyJob), q # <<>>
  PROVE  Shortened(q, Tail(q), 1) /\ Head(q) = q[1] /\ q[1] \in AnyJob /\ q[1] \in ToSet(q)
<1>1. /\ Len(q) \in Nat \ {0} /\ Tail(q) \in Seq(AnyJob) /\ Len(Tail(q)) = Len(q) - 1
      /\ \A i \in 1..Len(q) - 1 : Tail(q)[i] = q[i + 1]
  OBVIOUS
<1>2. Head(q) = q[1] /\ q[1] \in AnyJob /\ q[1] \in ToSet(q)
  BY DEF ToSet
<1>3. QED
  BY <1>1, <1>2 DEF Shortened

LEMMA RemovedIsShortened ==
  ASSUME NEW q \in Seq(AnyJob), NEW p \in 1..Len(q)
  PROVE  Shortened(q, RemoveAt(q, p), p)
BY RemovedAt DEF Shortened

(* A cancelled job stays in its queue.                                       *)
Marked(j, k) == [j EXCEPT !.canceled = @ \/ (j.key = k /\ ~j.canceled)]

LEMMA MarkedIs ==
  ASSUME NEW j \in AnyJob, NEW k
  PROVE  /\ Marked(j, k) \in AnyJob /\ Marked(j, k).key = j.key
         /\ j.canceled \/ j.key = k => Marked(j, k).canceled
         /\ j.canceled \/ j.key # k => Marked(j, k) = j
<1>1. j.canceled \in BOOLEAN
  BY DEF AnyJob
<1> DEFINE b == j.canceled \/ (j.key = k /\ ~j.canceled)
<1>2. b \in BOOLEAN /\ (j.canceled \/ j.key = k => b = TRUE)
      /\ (j.canceled \/ j.key # k => b = j.canceled)
  BY <1>1
<1>3. Marked(j, k) = [j EXCEPT !.canceled = b]
  BY DEF Marked
<1> HIDE DEF b
<1>4. QED
  BY <1>2, <1>3 DEF AnyJob

MarkedQueue(q, r, k) == r = [i \in DOMAIN q |-> Marked(q[i], k)]

LEMMA CanceledJobs ==
  ASSUME NEW q \in Seq(AnyJob), Distinct(q), NEW k, NEW r, MarkedQueue(q, r, k)
  PROVE  /\ r \in Seq(AnyJob) /\ Distinct(r) /\ Of(r, k) = {}
         /\ \A i : i # k => Of(r, i) = Of(q, i)
<1>1. DOMAIN q = 1..Len(q) /\ Len(q) \in Nat /\ \A i \in DOMAIN q : q[i] \in AnyJob
  OBVIOUS
<1>2. \A i \in DOMAIN q : /\ r[i] \in AnyJob /\ r[i].key = q[i].key
                          /\ q[i].canceled \/ q[i].key = k => r[i].canceled
                          /\ q[i].canceled \/ q[i].key # k => r[i] = q[i]
  BY <1>1, MarkedIs DEF MarkedQueue
<1>3. DOMAIN r = DOMAIN q /\ r \in Seq(AnyJob)
  <2>1. r \in [1..Len(q) -> AnyJob]
    BY <1>1, <1>2 DEF MarkedQueue
  <2>2. QED
    BY <1>1, <2>1
<1>4. Distinct(r)
  BY <1>2, <1>3 DEF Distinct
<1>5. Of(r, k) = {}
  BY <1>2, <1>3 DEF Of, ToSet
<1>6. \A i : i # k => Of(r, i) = Of(q, i)
  BY <1>2, <1>3 DEF Of, ToSet
<1>7. QED
  BY <1>3, <1>4, <1>5, <1>6

-----------------------------------------------------------------------------
(* Types.  An address is any number, and a page holds any word.              *)

Objects ==
  [storage : {"none", "memory", "swapping", "loading", "swapped"}, id : Nat,
   val : Words, pages : PageSets]

Servers ==
  [db : [Keys -> Objects], bitmap : PageSets, newjobs : Seq(AnyJob), processed : Seq(AnyJob),
   active : Int, waits : [Clients -> Seq(Keys)], waiters : [Keys -> Seq(Clients)],
   ready : Seq(Clients)]

Files == [0..Pages - 1 -> Words]
Contents == [Keys -> Words]

LEMMA NoneIs == None \in Objects /\ None.storage = "none" /\ None.pages = {}
BY DEF None, Objects, Words, PageSets

LEMMA InMemoryIs ==
  ASSUME NEW id \in Nat, NEW v \in Words
  PROVE  /\ InMemory(id, v) \in Objects /\ InMemory(id, v).storage = "memory"
         /\ InMemory(id, v).val = v
BY DEF InMemory, Objects, PageSets

LEMMA VmPointerIs ==
  ASSUME NEW id \in Nat, NEW run \in PageSets
  PROVE  /\ createVmPointer(id, run) \in Objects /\ createVmPointer(id, run).storage = "swapped"
         /\ createVmPointer(id, run).pages = run
BY DEF createVmPointer, Objects, Words

LEMMA JobIs ==
  ASSUME NEW type \in {"load", "prepare"}, NEW k \in Keys, NEW o \in Objects
  PROVE  LET j == Job(type, k, o)
         IN  /\ j \in AnyJob /\ j.type = type /\ j.key = k /\ j.id = o.id /\ ~j.canceled
             /\ type = "load" => j.val = "none" /\ j.pages = o.pages
             /\ type = "prepare" => j.val = o.val /\ j.pages = {}
<1>1. o.id \in Nat /\ o.val \in Words /\ o.pages \in PageSets
  BY DEF Objects
<1>2. "none" \in Words /\ {} \in PageSets
  BY DEF Words, PageSets
<1>3. CASE type = "load"
  BY <1>1, <1>2, <1>3 DEF Job, AnyJob
<1>4. CASE type = "prepare"
  BY <1>1, <1>2, <1>4 DEF Job, AnyJob
<1>5. QED
  BY <1>3, <1>4

(* The addresses in use are finitely many: there is a least one that is free.*)
LEMMA NewIdIsNat ==
  ASSUME NEW s \in Servers, NEW k, IsFiniteSet(processing)
  PROVE  NewId(s, k) \in Nat
<1> DEFINE J == {i \in Jobs(s) : i.key = k /\ i.type # "load"}
           used == {j.id : j \in J}
           n == Cardinality(used) + 1
           free == (1..n) \ used
<1>1. IsFiniteSet(J)
  <2>1. \A q \in Seq(AnyJob) : IsFiniteSet(ToSet(q))
    <3> SUFFICES ASSUME NEW q \in Seq(AnyJob) PROVE IsFiniteSet(ToSet(q))
      OBVIOUS
    <3> DEFINE f == [i \in 1..Len(q) |-> q[i]]
    <3>1. DOMAIN q = 1..Len(q) /\ Len(q) \in Nat
      OBVIOUS
    <3>2. f \in Surjection(1..Len(q), ToSet(q))
      BY <3>1 DEF Surjection, ToSet
    <3>3. IsFiniteSet(1..Len(q))
      BY <3>1, FS_Interval
    <3>4. QED
      <4> HIDE DEF f
      <4>1. QED
        BY <3>2, <3>3, FS_Surjection
  <2>2. IsFiniteSet(ToSet(s.newjobs)) /\ IsFiniteSet(ToSet(s.processed))
    BY <2>1 DEF Servers
  <2>3. IsFiniteSet(Jobs(s))
    BY <2>2, FS_Union DEF Jobs
  <2>4. J \subseteq Jobs(s)
    OBVIOUS
  <2>5. QED
    BY <2>3, <2>4, FS_Subset
<1>2. IsFiniteSet(used)
  <2> DEFINE f == [j \in J |-> j.id]
  <2>1. f \in Surjection(J, used)
    BY DEF Surjection
  <2>2. QED
    <3> HIDE DEF f, J, used
    <3>1. QED
      BY <1>1, <2>1, FS_Surjection
<1>3. n \in Nat
  BY <1>2, FS_CardinalityType
<1>4. free # {}
  <2> SUFFICES ASSUME 1..n \subseteq used PROVE FALSE
    OBVIOUS
  <2>1. Cardinality(1..n) <= Cardinality(used)
    BY <1>2, FS_Subset
  <2>2. Cardinality(1..n) = n
    <3> HIDE DEF n
    <3>1. QED
      BY <1>3, FS_Interval
  <2>3. Cardinality(used) \in Nat
    BY <1>2, FS_CardinalityType
  <2>4. QED
    BY <2>1, <2>2, <2>3
<1>5. free \in SUBSET (1..n)
  OBVIOUS
<1>6. Min(free) \in free
  <2> HIDE DEF free, n
  <2>1. QED
    BY <1>3, <1>4, <1>5, MinOfSet
<1>7. NewId(s, k) = Min(free)
  BY DEF NewId, Min
<1>8. QED
  <2> HIDE DEF n
  <2>1. QED
    BY <1>3, <1>6, <1>7

-----------------------------------------------------------------------------
(* What is read from the pages of a file *)

TheOnly(found) == IF Cardinality(found) = 1 THEN CHOOSE v \in found : TRUE ELSE "garbage"
ReadIn(file, run) == TheOnly({file[p] : p \in run})

LEMMA ReadsSwap ==
  \A run : ReadFrom(run) = ReadIn(swap, run)
BY DEF ReadFrom, ReadIn, TheOnly

LEMMA ReadIsWord ==
  ASSUME NEW file \in Files, NEW run \in PageSets
  PROVE  ReadIn(file, run) \in Words
<1> DEFINE found == {file[p] : p \in run}
<1>1. found \subseteq Words
  BY DEF Files, PageSets
<1>2. Cardinality(found) = 1 => found # {}
  BY FS_EmptySet
<1>3. "garbage" \in Words
  BY DEF Words
<1>4. Cardinality(found) = 1 => (CHOOSE v \in found : TRUE) \in found
  <2> HIDE DEF found
  <2>1. QED
    BY <1>2
<1>5. QED
  BY <1>1, <1>3, <1>4 DEF ReadIn, TheOnly

(* Only the pages of the run matter,                                         *)
LEMMA ReadSame ==
  ASSUME NEW file, NEW g, NEW run, \A p \in run : g[p] = file[p]
  PROVE  ReadIn(g, run) = ReadIn(file, run)
<1>1. {g[p] : p \in run} = {file[p] : p \in run}
  OBVIOUS
<1>2. QED
  BY <1>1 DEF ReadIn

WrittenIn(file, v, run) == [p \in DOMAIN file |-> IF p \in run THEN v ELSE file[p]]

(* and what is written there is what is read.                                *)
LEMMA ReadWritten ==
  ASSUME NEW file \in Files, NEW v \in Words, NEW run \in PageSets
  PROVE  /\ WrittenIn(file, v, run) \in Files
         /\ run # {} => ReadIn(WrittenIn(file, v, run), run) = v
         /\ \A p \in (0..Pages - 1) \ run : WrittenIn(file, v, run)[p] = file[p]
<1> DEFINE g == WrittenIn(file, v, run)
<1>1. g \in Files /\ (\A p \in run : g[p] = v) /\ \A p \in (0..Pages - 1) \ run : g[p] = file[p]
  BY DEF WrittenIn, Files, PageSets
<1> HIDE DEF g
<1>2. ASSUME run # {}
      PROVE  ReadIn(g, run) = v
  <2>1. {g[p] : p \in run} = {v}
    BY <1>1, <1>2
  <2>2. Cardinality({v}) = 1
    BY FS_Singleton
  <2>3. (CHOOSE x \in {v} : TRUE) = v
    OBVIOUS
  <2>4. QED
    BY <2>1, <2>2, <2>3 DEF ReadIn, TheOnly
<1>3. QED
  BY <1>1, <1>2 DEF g

LEMMA FreeRunIs ==
  ASSUME NEW s, NEW v \in Vals, NEW run \in FreeRuns(s, PagesOf(v))
  PROVE  run \in PageSets /\ run # {} /\ run \cap s.bitmap = {}
<1> DEFINE n == PagesOf(v)
<1>1. n \in 1..Pages /\ Pages \in Nat \ {0}
  BY VirtualMemoryAssumption
<1>2. run \in FreeRuns(s, n)
  OBVIOUS
<1> HIDE DEF n
<1>3. PICK first \in 0..Pages - n : run = first..first + n - 1
  BY <1>2 DEF FreeRuns
<1>4. run \cap s.bitmap = {}
  BY <1>2 DEF FreeRuns
<1>5. first \in run /\ first + n - 1 <= Pages - 1 /\ first \in Nat
  BY <1>1, <1>3
<1>6. run \subseteq 0..Pages - 1
  BY <1>1, <1>3, <1>5
<1>7. QED
  BY <1>4, <1>5, <1>6 DEF PageSets

-----------------------------------------------------------------------------
(* The invariant of the values.  For every key, with the value v it holds,   *)
(* the jobs for it that are queued (n), worked at (p) and done (d): it is at *)
(* rest and has no job, or it has one, in one of the three places, that fits *)
(* its object.  While a child saves, nothing is going to be written.         *)

Fits(j, o) ==
  /\ ~j.canceled /\ j.id = o.id
  /\ IF j.type = "load" THEN o.storage = "loading" /\ j.pages = o.pages
     ELSE /\ o.storage = "swapping" /\ j.val = o.val
          /\ j.type = "prepare" <=> j.pages = {}

AtRest(o, n, p, d) == o.storage \notin {"swapping", "loading"} /\ n = {} /\ p = {} /\ d = {}

Ahead(j, n, p, d, child) ==
  /\ (n = {j} /\ p = {}) \/ (n = {} /\ p = {j})
  /\ d = {}
  /\ j.type = "load" => j.val = "none"
  /\ child => j.type # "swap"

Over(j, v, n, p, d, file) ==
  /\ n = {} /\ p = {} /\ d = {j}
  /\ j.type = "load" => j.val = v
  /\ j.type = "swap" => ReadIn(file, j.pages) = j.val

KeyOk(o, v, n, p, d, file, child) ==
  /\ o.storage = "none" => o = None /\ v = "none"
  /\ o.storage # "none" => v \in Vals
  /\ Swapped(o) => v = ReadIn(file, o.pages)
  /\ o.storage \in {"memory", "swapping"} => o.val = v
  /\ \/ AtRest(o, n, p, d)
     \/ \E j \in AnyJob : Fits(j, o) /\ (Ahead(j, n, p, d, child) \/ Over(j, v, n, p, d, file))

(* The pages of a key are those of its value, or of the job that swaps it.   *)
OwnedBy(o, J) == IF Swapped(o) THEN o.pages ELSE UNION {j.pages : j \in J}

Owned(s, P, k) == OwnedBy(s.db[k], Of(s.newjobs, k) \cup At(P, k) \cup Of(s.processed, k))
KeyGood(s, P, file, v, child, k) ==
  KeyOk(s.db[k], v[k], Of(s.newjobs, k), At(P, k), Of(s.processed, k), file, child)

Typed(s, P, file, v) ==
  s \in Servers /\ P \in SUBSET AnyJob /\ file \in Files /\ v \in Contents
Queues(s) == Distinct(s.newjobs) /\ AllLive(s.newjobs) /\ Distinct(s.processed)
Partition(bitmap, own) ==
  /\ bitmap = UNION {own[k] : k \in Keys}
  /\ \A i, k \in Keys : i # k => own[i] \cap own[k] = {}
Ownership(s, P) == [k \in Keys |-> Owned(s, P, k)]

Good(s, P, file, v, child) ==
  /\ Typed(s, P, file, v)
  /\ Queues(s)
  /\ \A k \in Keys : KeyGood(s, P, file, v, child, k)
  /\ Partition(s.bitmap, Ownership(s, P))

(* Nothing changes but what concerns one key, *)
Elsewhere(s, P, v, t, Q, u, k) ==
  \A i \in Keys \ {k} :
    /\ t.db[i] = s.db[i] /\ u[i] = v[i]
    /\ Of(t.newjobs, i) = Of(s.newjobs, i) /\ At(Q, i) = At(P, i)
    /\ Of(t.processed, i) = Of(s.processed, i)

(* which trades its pages for others that nobody has.                        *)
Trades(bitmap, x, y, new) ==
  new = (bitmap \ x) \cup y /\ y \cap (bitmap \ x) = {}

LEMMA PartitionStep ==
  ASSUME NEW bitmap, NEW own, Partition(bitmap, own), NEW k \in Keys, NEW new, NEW on,
         \A i \in Keys \ {k} : on[i] = own[i],
         Trades(bitmap, own[k], on[k], new)
  PROVE  Partition(new, on)
<1>1. ASSUME NEW i \in Keys, NEW j \in Keys, i # j
      PROVE  on[i] \cap on[j] = {}
  <2>1. ASSUME NEW m \in Keys \ {k}
        PROVE  on[k] \cap on[m] = {}
    <3>1. on[m] = own[m] /\ own[m] \subseteq bitmap /\ own[m] \cap own[k] = {}
      BY DEF Partition
    <3>2. QED
      BY <3>1 DEF Trades
  <2>2. CASE i = k
    BY <1>1, <2>1, <2>2
  <2>3. CASE j = k
    <3>1. on[k] \cap on[i] = {}
      BY <1>1, <2>1, <2>3
    <3>2. QED
      BY <2>3, <3>1
  <2>4. CASE i # k /\ j # k
    BY <1>1, <2>4 DEF Partition
  <2>5. QED
    BY <2>2, <2>3, <2>4
<1>2. ASSUME NEW p \in new
      PROVE  \E i \in Keys : p \in on[i]
  <2>1. CASE p \in on[k]
    BY <2>1
  <2>2. CASE p \in bitmap /\ p \notin own[k]
    <3>1. PICK i \in Keys : p \in own[i]
      BY <2>2 DEF Partition
    <3>2. QED
      BY <2>2, <3>1
  <2>3. QED
    BY <2>1, <2>2 DEF Trades
<1>3. ASSUME NEW i \in Keys, NEW p \in on[i]
      PROVE  p \in new
  <2>1. CASE i = k
    BY <2>1 DEF Trades
  <2>2. CASE i # k
    <3>1. p \in own[i] /\ own[i] \cap own[k] = {} /\ own[i] \subseteq bitmap
      BY <2>2 DEF Partition
    <3>2. QED
      BY <3>1 DEF Trades
  <2>3. QED
    BY <2>1, <2>2
<1>4. new = UNION {on[i] : i \in Keys}
  BY <1>2, <1>3
<1>5. QED
  BY <1>1, <1>4 DEF Partition

(* A key is read from its own pages only.                                    *)
LEMMA KeyReads ==
  ASSUME NEW o, NEW v, NEW n, NEW p, NEW d, NEW file, NEW g, NEW child,
         KeyOk(o, v, n, p, d, file, child),
         \A x \in OwnedBy(o, n \cup p \cup d) : g[x] = file[x]
  PROVE  KeyOk(o, v, n, p, d, g, child)
<1>1. Swapped(o) => ReadIn(g, o.pages) = ReadIn(file, o.pages)
  <2> SUFFICES ASSUME Swapped(o) PROVE ReadIn(g, o.pages) = ReadIn(file, o.pages)
    OBVIOUS
  <2>1. \A x \in o.pages : g[x] = file[x]
    BY DEF OwnedBy
  <2>2. QED
    BY <2>1, ReadSame
<1>2. ASSUME NEW j \in AnyJob, Fits(j, o), Over(j, v, n, p, d, file)
      PROVE  Over(j, v, n, p, d, g)
  <2>1. ASSUME j.type = "swap"
        PROVE  ReadIn(g, j.pages) = ReadIn(file, j.pages)
    <3>1. ~Swapped(o)
      BY <1>2, <2>1 DEF Fits, Swapped
    <3>2. j.pages \subseteq OwnedBy(o, n \cup p \cup d)
      BY <1>2, <3>1 DEF OwnedBy, Over
    <3>3. \A x \in j.pages : g[x] = file[x]
      BY <3>2
    <3>4. QED
      BY <3>3, ReadSame
  <2>2. QED
    BY <1>2, <2>1 DEF Over
<1>3. QED
  BY <1>1, <1>2 DEF KeyOk

LEMMA KeyStep ==
  ASSUME NEW s, NEW P, NEW file, NEW v, NEW child, Good(s, P, file, v, child),
         NEW t, NEW Q, NEW g, NEW u, Typed(t, Q, g, u), Queues(t),
         NEW k \in Keys, Elsewhere(s, P, v, t, Q, u, k),
         \A p \in s.bitmap \ Owned(s, P, k) : g[p] = file[p],
         KeyGood(t, Q, g, u, child, k),
         Trades(s.bitmap, Owned(s, P, k), Owned(t, Q, k), t.bitmap)
  PROVE  Good(t, Q, g, u, child)
<1>1. \A i \in Keys \ {k} : Owned(t, Q, i) = Owned(s, P, i)
  BY DEF Elsewhere, Owned
<1>2. ASSUME NEW i \in Keys \ {k}
      PROVE  KeyGood(t, Q, g, u, child, i)
  <2>1. Owned(s, P, i) \cap Owned(s, P, k) = {} /\ Owned(s, P, i) \subseteq s.bitmap
    BY DEF Good, Partition, Ownership
  <2>2. \A p \in Owned(s, P, i) : g[p] = file[p]
    BY <2>1
  <2>3. KeyGood(s, P, file, v, child, i)
    BY DEF Good
  <2>4. KeyGood(s, P, g, v, child, i)
    BY <2>2, <2>3, KeyReads DEF KeyGood, Owned
  <2>5. QED
    BY <2>4 DEF Elsewhere, KeyGood
<1>3. \A i \in Keys : KeyGood(t, Q, g, u, child, i)
  BY <1>2
<1>4. Partition(t.bitmap, Ownership(t, Q))
  <2>1. Partition(s.bitmap, Ownership(s, P))
    BY DEF Good
  <2>2. \A i \in Keys \ {k} : Ownership(t, Q)[i] = Ownership(s, P)[i]
    BY <1>1 DEF Ownership
  <2>3. Ownership(t, Q)[k] = Owned(t, Q, k) /\ Ownership(s, P)[k] = Owned(s, P, k)
    BY DEF Ownership
  <2>4. QED
    BY <2>1, <2>2, <2>3, PartitionStep
<1>5. QED
  BY <1>3, <1>4 DEF Good

-----------------------------------------------------------------------------
(* Cancelling a job *)

Still(s, t) == t.waits = s.waits /\ t.waiters = s.waiters /\ t.ready = s.ready
AloneIn(s, t, k) == \A i \in Keys \ {k} : t.db[i] = s.db[i]
Resting(o) == o.storage \notin {"swapping", "loading"}
Held(o) == IF Swapped(o) THEN o.pages ELSE {}
Stored(o) == [o EXCEPT !.storage = IF @ = "loading" THEN "swapped" ELSE "memory"]

LEMMA ServerIs ==
  ASSUME NEW s \in Servers
  PROVE  /\ s.db \in [Keys -> Objects] /\ s.bitmap \in PageSets
         /\ s.newjobs \in Seq(AnyJob) /\ s.processed \in Seq(AnyJob) /\ s.active \in Int
         /\ s.waits \in [Clients -> Seq(Keys)] /\ s.waiters \in [Keys -> Seq(Clients)]
         /\ s.ready \in Seq(Clients)
BY DEF Servers

LEMMA StoredIs ==
  ASSUME NEW o \in Objects, ~Resting(o)
  PROVE  /\ Stored(o) \in Objects /\ Resting(Stored(o))
         /\ Stored(o).id = o.id /\ Stored(o).val = o.val /\ Stored(o).pages = o.pages
         /\ Stored(o).storage = IF o.storage = "loading" THEN "swapped" ELSE "memory"
BY DEF Stored, Resting, Objects

LEMMA RestIs ==
  ASSUME NEW s, NEW P, NEW file, NEW v, NEW child, Good(s, P, file, v, child), NEW k \in Keys
  PROVE  /\ s.db[k] \in Objects /\ v[k] \in Words
         /\ Swapped(s.db[k]) => v[k] = ReadIn(file, s.db[k].pages) /\ v[k] \in Vals
         /\ s.db[k].storage \in {"memory", "swapping"} => s.db[k].val = v[k] /\ v[k] \in Vals
         /\ s.db[k].storage = "none" => s.db[k] = None /\ v[k] = "none"
         /\ Resting(s.db[k]) =>
              /\ Of(s.newjobs, k) = {} /\ At(P, k) = {} /\ Of(s.processed, k) = {}
              /\ Owned(s, P, k) = Held(s.db[k])
         /\ ~Resting(s.db[k]) =>
              \E j \in AnyJob :
                /\ Fits(j, s.db[k])
                /\ \/ Ahead(j, Of(s.newjobs, k), At(P, k), Of(s.processed, k), child)
                   \/ Over(j, v[k], Of(s.newjobs, k), At(P, k), Of(s.processed, k), file)
<1> DEFINE o == s.db[k]
           n == Of(s.newjobs, k)
           p == At(P, k)
           d == Of(s.processed, k)
<1>1. KeyOk(o, v[k], n, p, d, file, child)
  BY DEF Good, KeyGood
<1>2. o \in Objects /\ v[k] \in Words
  BY DEF Good, Typed, Servers, Contents
<1>3. Owned(s, P, k) = OwnedBy(o, n \cup p \cup d)
  BY DEF Owned
<1> HIDE DEF o, n, p, d
<1>4. AtRest(o, n, p, d) => Resting(o)
  BY DEF AtRest, Resting
<1>5. (\E j \in AnyJob : Fits(j, o)) => ~Resting(o)
  BY DEF Fits, Resting
<1>6. Resting(o) => n = {} /\ p = {} /\ d = {}
  BY <1>1, <1>5 DEF KeyOk, AtRest
<1>7. Resting(o) => Owned(s, P, k) = Held(o)
  BY <1>3, <1>6 DEF OwnedBy, Held
<1>8. ~Resting(o) =>
        \E j \in AnyJob : Fits(j, o) /\ (Ahead(j, n, p, d, child) \/ Over(j, v[k], n, p, d, file))
  BY <1>1, <1>4 DEF KeyOk
<1>9. Swapped(o) => o.storage # "none"
  BY DEF Swapped
<1>10. QED
  BY <1>1, <1>2, <1>6, <1>7, <1>8, <1>9 DEF KeyOk, o, n, p, d

IsJob(j, k, id) == j.key = k /\ j.id = id /\ ~j.canceled
FindJob(q, k, id) == SelectInSeq(q, LAMBDA j : j.key = k /\ j.id = id /\ ~j.canceled)
MarkedJob(j, k, id) == [j EXCEPT !.canceled = @ \/ IsJob(j, k, id)]
Swaps(q, k, id) == {j \in q : IsJob(j, k, id) /\ j.type = "swap"}

LEMMA FindJobIs ==
  ASSUME NEW q \in Seq(AnyJob), NEW k, NEW id
  PROVE  LET p == FindJob(q, k, id)
         IN  \/ p = 0 /\ \A i \in 1..Len(q) : ~IsJob(q[i], k, id)
             \/ p \in 1..Len(q) /\ IsJob(q[p], k, id)
<1> DEFINE I == {i \in 1..Len(q) : q[i].key = k /\ q[i].id = id /\ ~q[i].canceled}
<1>1. Len(q) \in Nat /\ I \in SUBSET (1..Len(q))
  OBVIOUS
<1>2. FindJob(q, k, id) = IF I # {} THEN Min(I) ELSE 0
  BY DEF FindJob, SelectInSeq
<1>3. I # {} => Min(I) \in I
  <2> HIDE DEF I
  <2>1. QED
    BY <1>1, MinOfSet
<1>4. CASE I = {}
  BY <1>2, <1>4 DEF IsJob
<1>5. CASE I # {}
  <2>1. FindJob(q, k, id) \in I
    BY <1>2, <1>3, <1>5
  <2>2. QED
    BY <2>1 DEF IsJob
<1>6. QED
  BY <1>4, <1>5

LEMMA MarkedJobIs ==
  ASSUME NEW j \in AnyJob, NEW k, NEW id
  PROVE  /\ MarkedJob(j, k, id) \in AnyJob
         /\ (j.key = k /\ ~j.canceled => j.id = id) => MarkedJob(j, k, id) = Marked(j, k)
<1>1. j.canceled \in BOOLEAN
  BY DEF AnyJob
<1> DEFINE b == j.canceled \/ IsJob(j, k, id)
<1>2. b \in BOOLEAN
  BY <1>1 DEF IsJob
<1>3. MarkedJob(j, k, id) = [j EXCEPT !.canceled = b]
  BY DEF MarkedJob
<1>4. (j.key = k /\ ~j.canceled => j.id = id) => b = (j.canceled \/ (j.key = k /\ ~j.canceled))
  BY <1>1 DEF IsJob
<1>5. Marked(j, k) = [j EXCEPT !.canceled = j.canceled \/ (j.key = k /\ ~j.canceled)]
  BY DEF Marked
<1> HIDE DEF b
<1>6. [j EXCEPT !.canceled = b] \in AnyJob
  BY <1>2 DEF AnyJob
<1>7. QED
  BY <1>3, <1>4, <1>5, <1>6

LEMMA CancelIs ==
  ASSUME NEW s \in Servers, NEW k \in Keys, ~Resting(s.db[k])
  PROVE  LET t == vmCancelThreadedIOJob(s, k)
             id == s.db[k].id
         IN  /\ t \in Servers /\ Still(s, t)
             /\ t.db = [s.db EXCEPT ![k] = Stored(s.db[k])]
             /\ t.newjobs = RemoveAt(s.newjobs, FindJob(s.newjobs, k, id))
             /\ t.processed = [i \in DOMAIN s.processed |-> MarkedJob(s.processed[i], k, id)]
             /\ t.bitmap = s.bitmap \ UNION {j.pages : j \in Swaps(ToSet(s.newjobs) \cup ToSet(s.processed), k, id)}
<1> DEFINE id == s.db[k].id
           new == RemoveAt(s.newjobs, FindJob(s.newjobs, k, id))
           done == [i \in DOMAIN s.processed |-> MarkedJob(s.processed[i], k, id)]
           pages == s.bitmap \ UNION {j.pages : j \in Swaps(ToSet(s.newjobs) \cup ToSet(s.processed), k, id)}
           t == vmCancelThreadedIOJob(s, k)
<1>0. s.db[k] \in Objects
  BY ServerIs
<1>1. new \in Seq(AnyJob)
  <2>1. s.newjobs \in Seq(AnyJob)
    BY ServerIs
  <2>2. CASE FindJob(s.newjobs, k, id) = 0
    BY <2>1, <2>2, RemovedNowhere
  <2>3. CASE FindJob(s.newjobs, k, id) \in 1..Len(s.newjobs)
    BY <2>1, <2>3, RemovedAt
  <2>4. QED
    BY <2>1, <2>2, <2>3, FindJobIs
<1>2. done \in Seq(AnyJob)
  <2>1. s.processed \in Seq(AnyJob)
    BY ServerIs
  <2>2. DOMAIN s.processed = 1..Len(s.processed) /\ Len(s.processed) \in Nat
    BY <2>1
  <2>3. done \in [1..Len(s.processed) -> AnyJob]
    BY <2>1, <2>2, MarkedJobIs
  <2>4. QED
    BY <2>2, <2>3
<1>3. pages \in PageSets
  BY ServerIs DEF PageSets
<1>4. t = [s EXCEPT !.newjobs = new, !.processed = done, !.bitmap = pages,
                    !.db[k].storage = IF @ = "loading" THEN "swapped" ELSE "memory"]
  <2>1. new = RemoveAt(s.newjobs, SelectInSeq(s.newjobs, LAMBDA j : j.key = k /\ j.id = s.db[k].id /\ ~j.canceled))
    BY DEF FindJob
  <2>2. done = [i \in DOMAIN s.processed |->
                  [s.processed[i] EXCEPT
                     !.canceled = @ \/ (/\ s.processed[i].key = k /\ s.processed[i].id = s.db[k].id
                                        /\ ~s.processed[i].canceled)]]
    BY DEF MarkedJob, IsJob
  <2>3. pages = s.bitmap \ UNION {j.pages : j \in {i \in ToSet(s.newjobs) \cup ToSet(s.processed) :
                                     (i.key = k /\ i.id = s.db[k].id /\ ~i.canceled) /\ i.type = "swap"}}
    BY DEF Swaps, IsJob
  <2> HIDE DEF new, done, pages
  <2>4. QED
    BY <2>1, <2>2, <2>3, Zenon DEF vmCancelThreadedIOJob
<1> HIDE DEF new, done, pages, t
<1>5. Stored(s.db[k]) \in Objects
  BY <1>0, StoredIs
<1>6. t = [s EXCEPT !.newjobs = new, !.processed = done, !.bitmap = pages,
                    !.db = [s.db EXCEPT ![k] = Stored(s.db[k])]]
  BY <1>4 DEF Stored
<1>7. [s.db EXCEPT ![k] = Stored(s.db[k])] \in [Keys -> Objects]
  BY <1>5, ServerIs
<1>8. /\ t \in Servers /\ Still(s, t) /\ t.db = [s.db EXCEPT ![k] = Stored(s.db[k])]
      /\ t.newjobs = new /\ t.processed = done /\ t.bitmap = pages
  <2> DEFINE db == [s.db EXCEPT ![k] = Stored(s.db[k])]
  <2> HIDE DEF db
  <2>1. db \in [Keys -> Objects] /\ t = [s EXCEPT !.newjobs = new, !.processed = done, !.bitmap = pages, !.db = db]
    BY <1>6, <1>7 DEF db
  <2>2. t \in Servers /\ Still(s, t) /\ t.db = db /\ t.newjobs = new /\ t.processed = done /\ t.bitmap = pages
    BY <1>1, <1>2, <1>3, <2>1 DEF Servers, Still
  <2>3. QED
    BY <2>2 DEF db
<1>9. QED
  BY <1>8 DEF new, done, pages, t

(* The queues after a cancellation, when the job of the key is not at work.  *)
LEMMA CancelQueues ==
  ASSUME NEW s, NEW P, NEW file, NEW v, NEW child, Good(s, P, file, v, child), NEW k \in Keys,
         ~Resting(s.db[k]), At(P, k) = {}, NEW t, t = vmCancelThreadedIOJob(s, k)
  PROVE  /\ Queues(t)
         /\ Of(t.newjobs, k) = {} /\ Of(t.processed, k) = {}
         /\ \A i : i # k => Of(t.newjobs, i) = Of(s.newjobs, i) /\ Of(t.processed, i) = Of(s.processed, i)
         /\ t.bitmap = s.bitmap \ (IF Swapped(s.db[k]) THEN {} ELSE Owned(s, P, k))
<1> DEFINE o == s.db[k]
           new == s.newjobs
           done == s.processed
           pos == FindJob(new, k, o.id)
<1>1. s \in Servers /\ Queues(s) /\ new \in Seq(AnyJob) /\ done \in Seq(AnyJob) /\ o \in Objects
  BY ServerIs, RestIs DEF Good, Typed
<1>2. /\ t.newjobs = RemoveAt(new, pos)
      /\ t.processed = [i \in DOMAIN done |-> MarkedJob(done[i], k, o.id)]
      /\ t.bitmap = s.bitmap \ UNION {j.pages : j \in Swaps(ToSet(new) \cup ToSet(done), k, o.id)}
  BY <1>1, CancelIs
<1>3. PICK j \in AnyJob :
        /\ Fits(j, o)
        /\ \/ Of(new, k) = {j} /\ Of(done, k) = {}
           \/ Of(new, k) = {} /\ Of(done, k) = {j}
  <2>1. PICK j \in AnyJob :
          /\ Fits(j, o)
          /\ \/ Ahead(j, Of(new, k), At(P, k), Of(done, k), child)
             \/ Over(j, v[k], Of(new, k), At(P, k), Of(done, k), file)
    BY RestIs
  <2>2. QED
    BY <2>1 DEF Ahead, Over
<1>4. j.id = o.id /\ ~j.canceled
  BY <1>3 DEF Fits
<1>5. Of(new, k) \subseteq {j} /\ Of(done, k) \subseteq {j} /\ Of(new, k) \cup Of(done, k) = {j} /\ j.key = k
  BY <1>3 DEF Of
<1>6. \A x \in ToSet(new) \cup ToSet(done) : IsJob(x, k, o.id) <=> x = j
  BY <1>4, <1>5 DEF Of, IsJob
<1> HIDE DEF o, new, done
<1>7. DOMAIN new = 1..Len(new) /\ DOMAIN done = 1..Len(done)
  BY <1>1
<1>8. Distinct(new) /\ AllLive(new) /\ Distinct(done)
  BY <1>1 DEF Queues, new, done
<1>9. /\ Distinct(t.newjobs) /\ AllLive(t.newjobs) /\ Of(t.newjobs, k) = {}
      /\ \A i : i # k => Of(t.newjobs, i) = Of(new, i)
  <2>1. CASE pos = 0 /\ \A i \in 1..Len(new) : ~IsJob(new[i], k, o.id)
    <3>1. t.newjobs = new
      BY <1>1, <1>2, <2>1, RemovedNowhere
    <3>2. j \notin ToSet(new)
      BY <1>6, <1>7, <2>1 DEF ToSet
    <3>3. Of(new, k) = {}
      BY <1>5, <3>2 DEF Of
    <3>4. QED
      BY <1>8, <3>1, <3>3
  <2>2. CASE pos \in 1..Len(new) /\ IsJob(new[pos], k, o.id)
    <3>1. Shortened(new, t.newjobs, pos)
      BY <1>1, <1>2, <2>2, RemovedIsShortened
    <3>2. new[pos].key = k /\ ~new[pos].canceled
      BY <2>2 DEF IsJob
    <3> DEFINE r == t.newjobs
    <3>3. new \in Seq(AnyJob) /\ Distinct(new) /\ AllLive(new) /\ Shortened(new, r, pos)
      BY <1>1, <1>8, <3>1
    <3> HIDE DEF pos, r
    <3>4. /\ Distinct(r) /\ ToSet(r) \subseteq ToSet(new)
          /\ ~new[pos].canceled => Of(r, new[pos].key) = {}
          /\ \A i : i # new[pos].key \/ new[pos].canceled => Of(r, i) = Of(new, i)
          /\ AllLive(new) => AllLive(r)
      BY <3>3, ShortenedJobs
    <3>5. Distinct(r)
      BY <3>4
    <3>6. AllLive(r)
      BY <3>3, <3>4
    <3>7. Of(r, k) = {}
      BY <3>2, <3>4
    <3>8. \A i : i # k => Of(r, i) = Of(new, i)
      BY <3>2, <3>4
    <3>9. QED
      BY <3>5, <3>6, <3>7, <3>8 DEF r
  <2>3. QED
    <3> HIDE DEF pos
    <3>1. \/ pos = 0 /\ \A i \in 1..Len(new) : ~IsJob(new[i], k, o.id)
          \/ pos \in 1..Len(new) /\ IsJob(new[pos], k, o.id)
      BY <1>1, FindJobIs DEF pos
    <3>2. QED
      BY <2>1, <2>2, <3>1
<1>10. Distinct(t.processed) /\ Of(t.processed, k) = {} /\ \A i : i # k => Of(t.processed, i) = Of(done, i)
  <2>1. \A i \in DOMAIN done : MarkedJob(done[i], k, o.id) = Marked(done[i], k)
    <3> SUFFICES ASSUME NEW i \in DOMAIN done
                 PROVE  MarkedJob(done[i], k, o.id) = Marked(done[i], k)
      OBVIOUS
    <3>1. done[i] \in AnyJob /\ done[i] \in ToSet(done)
      BY <1>1, <1>7 DEF ToSet
    <3>2. done[i].key = k /\ ~done[i].canceled => done[i].id = o.id
      BY <1>4, <1>5, <3>1 DEF Of
    <3>3. QED
      BY <3>1, <3>2, MarkedJobIs
  <2>2. t.processed = [i \in DOMAIN done |-> Marked(done[i], k)]
    BY <1>2, <2>1
  <2> DEFINE r == t.processed
  <2>3. MarkedQueue(done, r, k)
    BY <2>2 DEF MarkedQueue
  <2>4. done \in Seq(AnyJob) /\ Distinct(done)
    BY <1>1, <1>8
  <2> HIDE DEF r
  <2>5. Distinct(r) /\ Of(r, k) = {} /\ \A i : i # k => Of(r, i) = Of(done, i)
    BY <2>3, <2>4, CanceledJobs
  <2>6. QED
    BY <2>5 DEF r
<1>11. t.bitmap = s.bitmap \ (IF Swapped(o) THEN {} ELSE Owned(s, P, k))
  <2>1. j \in ToSet(new) \cup ToSet(done)
    BY <1>5 DEF Of
  <2>2. Swaps(ToSet(new) \cup ToSet(done), k, o.id) = IF j.type = "swap" THEN {j} ELSE {}
    BY <1>6, <2>1 DEF Swaps
  <2>3. UNION {x.pages : x \in {j}} = j.pages
    OBVIOUS
  <2>4. UNION {x.pages : x \in {}} = {}
    OBVIOUS
  <2>5. Swapped(o) => j.type = "load"
    BY <1>3 DEF Fits, Swapped
  <2>6. ~Swapped(o) => Owned(s, P, k) = j.pages /\ (j.type = "swap" \/ j.pages = {})
    <3>1. ~Swapped(o) => Owned(s, P, k) = UNION {x.pages : x \in {j}}
      BY <1>5 DEF Owned, OwnedBy, o, new, done
    <3>2. ~Swapped(o) => j.type # "load" /\ (j.type = "prepare" <=> j.pages = {})
      BY <1>3 DEF Fits, Swapped
    <3>3. j.type \in {"load", "prepare", "swap"}
      BY DEF AnyJob
    <3>4. QED
      BY <2>3, <3>1, <3>2, <3>3
  <2>7. t.bitmap = s.bitmap \ (IF j.type = "swap" THEN j.pages ELSE {})
    BY <1>2, <2>2, <2>3, <2>4
  <2>8. QED
    BY <2>5, <2>6, <2>7
<1>12. QED
  BY <1>9, <1>10, <1>11 DEF Queues, o, new, done

(* What an operation on the value of one key does to the rest of the server. *)
UndoneTo(s, t, k) ==
  /\ t \in Servers /\ Still(s, t) /\ AloneIn(s, t, k)
  /\ Resting(t.db[k]) /\ t.db[k].pages = s.db[k].pages
  /\ t.db[k].storage = IF s.db[k].storage = "loading" THEN "swapped"
                       ELSE IF s.db[k].storage = "swapping" THEN "memory" ELSE s.db[k].storage

LEMMA UndoneIs ==
  ASSUME NEW s \in Servers, NEW k \in Keys
  PROVE  UndoneTo(s, Undone(s, k), k)
<1>1. CASE Resting(s.db[k])
  <2>1. Undone(s, k) = s
    BY <1>1 DEF Undone, Resting
  <2>2. QED
    BY <1>1, <2>1 DEF UndoneTo, Still, AloneIn, Resting
<1>2. CASE ~Resting(s.db[k])
  <2>1. Undone(s, k) = vmCancelThreadedIOJob(s, k)
    BY <1>2 DEF Undone, Resting
  <2>2. s.db \in [Keys -> Objects] /\ s.db[k] \in Objects
    BY ServerIs
  <2> DEFINE t == vmCancelThreadedIOJob(s, k)
  <2>3. t \in Servers /\ Still(s, t) /\ t.db = [s.db EXCEPT ![k] = Stored(s.db[k])]
    BY <1>2, CancelIs
  <2> HIDE DEF t
  <2>4. t.db[k] = Stored(s.db[k]) /\ AloneIn(s, t, k)
    BY <2>2, <2>3 DEF AloneIn
  <2>5. s.db[k].storage \in {"swapping", "loading"}
    BY <1>2 DEF Resting
  <2>6. UndoneTo(s, t, k)
    BY <1>2, <2>2, <2>3, <2>4, <2>5, StoredIs DEF UndoneTo
  <2>7. QED
    BY <2>1, <2>6 DEF t
<1>3. QED
  BY <1>1, <1>2

LEMMA UndoneGood ==
  ASSUME NEW s, NEW P, NEW file, NEW v, NEW child, Good(s, P, file, v, child), NEW k \in Keys,
         At(P, k) = {}
  PROVE  Good(Undone(s, k), P, file, v, child)
<1>1. CASE Resting(s.db[k])
  BY <1>1 DEF Undone, Resting
<1>2. CASE ~Resting(s.db[k])
  <2> DEFINE t == vmCancelThreadedIOJob(s, k)
             o == s.db[k]
  <2>1. Undone(s, k) = t
    BY <1>2 DEF Undone, Resting
  <2>2. s \in Servers /\ Typed(s, P, file, v)
    BY DEF Good, Typed
  <2>3. /\ Queues(t)
        /\ Of(t.newjobs, k) = {} /\ Of(t.processed, k) = {}
        /\ \A i : i # k => Of(t.newjobs, i) = Of(s.newjobs, i) /\ Of(t.processed, i) = Of(s.processed, i)
        /\ t.bitmap = s.bitmap \ (IF Swapped(o) THEN {} ELSE Owned(s, P, k))
    BY <1>2, CancelQueues
  <2>4. t \in Servers /\ t.db = [s.db EXCEPT ![k] = Stored(o)]
    BY <1>2, <2>2, CancelIs
  <2>5. s.db \in [Keys -> Objects] /\ o \in Objects
    BY <2>2, ServerIs
  <2> HIDE DEF t
  <2>6. t.db[k] = Stored(o) /\ \A i \in Keys \ {k} : t.db[i] = s.db[i]
    BY <2>4, <2>5
  <2>7. Elsewhere(s, P, v, t, P, v, k)
    BY <2>3, <2>6 DEF Elsewhere
  <2>8. /\ Swapped(o) => v[k] = ReadIn(file, o.pages) /\ v[k] \in Vals
        /\ o.storage = "swapping" => o.val = v[k] /\ v[k] \in Vals
    BY RestIs
  <2>9. o.storage \in {"swapping", "loading"}
    BY <1>2 DEF Resting
  <2> HIDE DEF o
  <2>10. /\ Stored(o).val = o.val /\ Stored(o).pages = o.pages
         /\ Stored(o).storage = IF o.storage = "loading" THEN "swapped" ELSE "memory"
    BY <1>2, <2>5, StoredIs DEF o
  <2>11. KeyGood(t, P, file, v, child, k)
    <3>1. KeyOk(Stored(o), v[k], {}, {}, {}, file, child)
      BY <2>8, <2>9, <2>10 DEF KeyOk, AtRest, Swapped
    <3>2. QED
      BY <2>3, <2>6, <3>1 DEF KeyGood
  <2>12. Owned(t, P, k) = IF Swapped(o) THEN o.pages ELSE {}
    <3>1. Owned(t, P, k) = OwnedBy(Stored(o), {})
      BY <2>3, <2>6 DEF Owned
    <3>2. QED
      BY <2>9, <2>10, <3>1 DEF OwnedBy, Swapped
  <2>13. Trades(s.bitmap, Owned(s, P, k), Owned(t, P, k), t.bitmap)
    <3>1. Swapped(o) => Owned(s, P, k) = o.pages
      BY DEF Owned, OwnedBy, o
    <3>2. Owned(s, P, k) \subseteq s.bitmap
      BY DEF Good, Partition, Ownership
    <3>3. QED
      BY <2>3, <2>12, <3>1, <3>2 DEF Trades, o
  <2>14. Typed(t, P, file, v)
    BY <2>2, <2>4 DEF Typed
  <2>15. Good(t, P, file, v, child)
    BY <2>3, <2>7, <2>11, <2>13, <2>14, KeyStep
  <2>16. QED
    BY <2>1, <2>15
<1>3. QED
  BY <1>1, <1>2

-----------------------------------------------------------------------------
(* The value of a key that has no job is replaced.                           *)

Becomes(s, t, k, o) ==
  t.db = [s.db EXCEPT ![k] = o] /\ t.newjobs = s.newjobs /\ t.processed = s.processed

(* o holds x, and has no job *)
Holds(o, x, file) ==
  \/ o = None /\ x = "none"
  \/ o.storage = "memory" /\ o.val = x /\ x \in Vals
  \/ o.storage = "swapped" /\ x = ReadIn(file, o.pages) /\ x \in Vals

LEMMA HoldsIs ==
  ASSUME NEW o, NEW x, NEW file, NEW child, Holds(o, x, file)
  PROVE  Resting(o) /\ KeyOk(o, x, {}, {}, {}, file, child)
<1>1. None.storage = "none"
  BY NoneIs
<1>2. Resting(o)
  BY <1>1 DEF Holds, Resting
<1>3. AtRest(o, {}, {}, {})
  BY <1>2 DEF AtRest, Resting
<1>4. QED
  BY <1>1, <1>2, <1>3 DEF Holds, KeyOk, Swapped

LEMMA ReplacedGood ==
  ASSUME NEW s, NEW P, NEW file, NEW v, NEW child, Good(s, P, file, v, child), NEW k \in Keys,
         Resting(s.db[k]),
         NEW t \in Servers, NEW g \in Files, NEW o, NEW x \in Words,
         Becomes(s, t, k, o), Holds(o, x, g),
         \A p \in s.bitmap \ Held(s.db[k]) : g[p] = file[p],
         Trades(s.bitmap, Held(s.db[k]), Held(o), t.bitmap)
  PROVE  Good(t, P, g, [v EXCEPT ![k] = x], child)
<1> DEFINE u == [v EXCEPT ![k] = x]
<1>1. Typed(s, P, file, v) /\ Queues(s)
  BY DEF Good
<1>2. s.db \in [Keys -> Objects] /\ v \in Contents
  BY <1>1 DEF Typed, Servers
<1>3. u \in Contents /\ u[k] = x /\ \A i \in Keys \ {k} : u[i] = v[i]
  BY <1>2 DEF Contents
<1>4. t.db[k] = o /\ \A i \in Keys \ {k} : t.db[i] = s.db[i]
  BY <1>2 DEF Becomes
<1>5. Of(s.newjobs, k) = {} /\ At(P, k) = {} /\ Of(s.processed, k) = {} /\ Owned(s, P, k) = Held(s.db[k])
  BY RestIs
<1> HIDE DEF u
<1>6. Typed(t, P, g, u) /\ Queues(t)
  BY <1>1, <1>3 DEF Typed, Queues, Becomes
<1>7. Elsewhere(s, P, v, t, P, u, k)
  BY <1>3, <1>4 DEF Elsewhere, Becomes
<1>8. KeyGood(t, P, g, u, child, k)
  <2>1. KeyOk(o, x, {}, {}, {}, g, child)
    BY HoldsIs
  <2>2. QED
    BY <1>3, <1>4, <1>5, <2>1 DEF KeyGood, Becomes
<1>9. Owned(t, P, k) = Held(o)
  <2>1. Owned(t, P, k) = OwnedBy(o, {})
    BY <1>4, <1>5 DEF Owned, Becomes
  <2>2. QED
    BY <2>1 DEF OwnedBy, Held
<1>10. Good(t, P, g, u, child)
  BY <1>5, <1>6, <1>7, <1>8, <1>9, KeyStep
<1>11. QED
  BY <1>10 DEF u

LEMMA ReleasedIs ==
  ASSUME NEW s \in Servers, NEW k \in Keys
  PROVE  LET t == Undone(s, k)
             r == Released(s, k)
         IN  /\ r \in Servers /\ Still(s, r) /\ AloneIn(s, r, k) /\ r.db[k] = None
             /\ Becomes(t, r, k, None) /\ r.bitmap = t.bitmap \ Held(t.db[k])
<1> DEFINE t == Undone(s, k)
           r == Released(s, k)
<1>1. UndoneTo(s, t, k)
  BY UndoneIs
<1>2. t \in Servers
  BY <1>1 DEF UndoneTo
<1>3. t.db \in [Keys -> Objects] /\ t.bitmap \in PageSets
  BY <1>2, ServerIs
<1>4. r = [t EXCEPT !.db[k] = None, !.bitmap = IF Swapped(t.db[k]) THEN @ \ t.db[k].pages ELSE @]
  BY DEF Released
<1> HIDE DEF t, r
<1>5. (IF Swapped(t.db[k]) THEN t.bitmap \ t.db[k].pages ELSE t.bitmap) = t.bitmap \ Held(t.db[k])
  BY DEF Held
<1> DEFINE db == [t.db EXCEPT ![k] = None]
           pages == t.bitmap \ Held(t.db[k])
<1>6. db \in [Keys -> Objects] /\ pages \in PageSets /\ db[k] = None /\ \A i \in Keys \ {k} : db[i] = t.db[i]
  BY <1>3, NoneIs DEF PageSets
<1>7. r = [t EXCEPT !.db = db, !.bitmap = pages]
  BY <1>4, <1>5
<1>8. db = [t.db EXCEPT ![k] = None] /\ pages = t.bitmap \ Held(t.db[k])
  OBVIOUS
<1> HIDE DEF db, pages
<1>9. /\ r \in Servers /\ Still(t, r) /\ r.db = db /\ r.bitmap = pages
      /\ r.newjobs = t.newjobs /\ r.processed = t.processed
  BY <1>2, <1>6, <1>7 DEF Servers, Still
<1>10. Still(s, r) /\ AloneIn(s, r, k) /\ r.db[k] = None
  BY <1>1, <1>6, <1>9 DEF UndoneTo, Still, AloneIn
<1>11. QED
  BY <1>8, <1>9, <1>10 DEF Becomes, t, r

LEMMA ReleasedGood ==
  ASSUME NEW s, NEW P, NEW file, NEW v, NEW child, Good(s, P, file, v, child), NEW k \in Keys,
         At(P, k) = {}
  PROVE  Good(Released(s, k), P, file, [v EXCEPT ![k] = "none"], child)
<1> DEFINE t == Undone(s, k)
           r == Released(s, k)
<1>1. Good(t, P, file, v, child)
  BY UndoneGood
<1>2. s \in Servers /\ file \in Files
  BY DEF Good, Typed
<1>3. UndoneTo(s, t, k)
  BY <1>2, UndoneIs
<1>4. r \in Servers /\ Becomes(t, r, k, None) /\ r.bitmap = t.bitmap \ Held(t.db[k])
  BY <1>2, ReleasedIs
<1> HIDE DEF t, r
<1>5. Held(None) = {}
  BY NoneIs DEF Held
<1>6. Trades(t.bitmap, Held(t.db[k]), Held(None), r.bitmap)
  BY <1>4, <1>5 DEF Trades
<1>7. Holds(None, "none", file) /\ "none" \in Words
  BY DEF Holds, Words
<1>8. Resting(t.db[k])
  BY <1>3 DEF UndoneTo
<1>9. Good(r, P, file, [v EXCEPT ![k] = "none"], child)
  BY <1>1, <1>2, <1>4, <1>6, <1>7, <1>8, ReplacedGood
<1>10. QED
  BY <1>9 DEF r

(* A new object in memory, with or without the pages of the old one.         *)
LEMMA InMemoryGood ==
  ASSUME NEW s, NEW P, NEW file, NEW v, NEW child, Good(s, P, file, v, child), NEW k \in Keys,
         Resting(s.db[k]),
         NEW t \in Servers, NEW o \in Objects, NEW x \in Vals,
         Becomes(s, t, k, o), o.storage = "memory", o.val = x,
         t.bitmap = s.bitmap \ Held(s.db[k])
  PROVE  Good(t, P, file, [v EXCEPT ![k] = x], child)
<1>1. Held(o) = {}
  BY DEF Held, Swapped
<1>2. Trades(s.bitmap, Held(s.db[k]), Held(o), t.bitmap)
  BY <1>1 DEF Trades
<1>3. Holds(o, x, file) /\ x \in Words /\ file \in Files
  BY DEF Holds, Words, Good, Typed
<1>4. QED
  BY <1>2, <1>3, ReplacedGood

-----------------------------------------------------------------------------
(* Looking up: a value that is in the file, or on its way, is loaded at once *)

LEMMA LoadIs ==
  ASSUME NEW s \in Servers, NEW k \in Keys, IsFiniteSet(processing), swap \in Files
  PROVE  LET t == Undone(s, k)
             r == vmLoadObject(s, k)
             o == InMemory(NewId(t, k), ReadFrom(t.db[k].pages))
         IN  /\ r \in Servers /\ Still(s, r) /\ AloneIn(s, r, k) /\ r.db[k] = o
             /\ o \in Objects /\ o.storage = "memory" /\ o.val = ReadIn(swap, s.db[k].pages)
             /\ Becomes(t, r, k, o) /\ r.bitmap = t.bitmap \ t.db[k].pages
<1> DEFINE t == Undone(s, k)
           r == vmLoadObject(s, k)
           o == InMemory(NewId(t, k), ReadFrom(t.db[k].pages))
<1>1. UndoneTo(s, t, k)
  BY UndoneIs
<1>2. t \in Servers
  BY <1>1 DEF UndoneTo
<1>3. t.db \in [Keys -> Objects] /\ t.bitmap \in PageSets
  BY <1>2, ServerIs
<1>4. r = [t EXCEPT !.bitmap = @ \ t.db[k].pages, !.db[k] = o]
  BY DEF vmLoadObject
<1>5. o \in Objects /\ o.storage = "memory" /\ o.val = ReadIn(swap, s.db[k].pages)
  <2>1. NewId(t, k) \in Nat
    BY <1>2, NewIdIsNat
  <2>2. t.db[k] \in Objects /\ t.db[k].pages = s.db[k].pages
    BY <1>1, <1>3 DEF UndoneTo
  <2>3. t.db[k].pages \in PageSets
    BY <2>2 DEF Objects
  <2>4. ReadFrom(t.db[k].pages) = ReadIn(swap, t.db[k].pages) /\ ReadIn(swap, t.db[k].pages) \in Words
    BY <2>3, ReadsSwap, ReadIsWord
  <2> HIDE DEF t
  <2>5. QED
    BY <2>1, <2>2, <2>4, InMemoryIs
<1> HIDE DEF t, r, o
<1> DEFINE db == [t.db EXCEPT ![k] = o]
           pages == t.bitmap \ t.db[k].pages
<1>6. db \in [Keys -> Objects] /\ pages \in PageSets /\ db[k] = o /\ \A i \in Keys \ {k} : db[i] = t.db[i]
  BY <1>3, <1>5 DEF PageSets
<1>7. r = [t EXCEPT !.bitmap = pages, !.db = db]
  BY <1>4
<1>8. db = [t.db EXCEPT ![k] = o] /\ pages = t.bitmap \ t.db[k].pages
  OBVIOUS
<1> HIDE DEF db, pages
<1>9. /\ r \in Servers /\ Still(t, r) /\ r.db = db /\ r.bitmap = pages
      /\ r.newjobs = t.newjobs /\ r.processed = t.processed
  BY <1>2, <1>6, <1>7 DEF Servers, Still
<1>10. Still(s, r) /\ AloneIn(s, r, k) /\ r.db[k] = o
  BY <1>1, <1>6, <1>9 DEF UndoneTo, Still, AloneIn
<1>11. QED
  BY <1>5, <1>8, <1>9, <1>10 DEF Becomes, t, r, o

LEMMA LoadGood ==
  ASSUME NEW s, NEW v, NEW child, Good(s, processing, swap, v, child), NEW k \in Keys,
         IsFiniteSet(processing), At(processing, k) = {}, Swapped(s.db[k])
  PROVE  Good(vmLoadObject(s, k), processing, swap, v, child)
<1> DEFINE t == Undone(s, k)
           r == vmLoadObject(s, k)
<1>1. Good(t, processing, swap, v, child)
  BY UndoneGood
<1>2. s \in Servers /\ swap \in Files /\ v \in Contents
  BY DEF Good, Typed
<1>3. UndoneTo(s, t, k)
  BY <1>2, UndoneIs
<1>4. PICK o \in Objects : /\ r \in Servers /\ o.storage = "memory" /\ o.val = ReadIn(swap, s.db[k].pages)
                           /\ Becomes(t, r, k, o) /\ r.bitmap = t.bitmap \ t.db[k].pages
  BY <1>2, LoadIs
<1> HIDE DEF t, r
<1>5. t.db[k].storage = "swapped" /\ Resting(t.db[k])
  BY <1>3 DEF UndoneTo, Swapped
<1>6. Held(t.db[k]) = t.db[k].pages
  BY <1>5 DEF Held, Swapped
<1>7. o.val = v[k] /\ v[k] \in Vals
  BY <1>4, RestIs
<1>8. Good(r, processing, swap, [v EXCEPT ![k] = v[k]], child)
  BY <1>1, <1>4, <1>5, <1>6, <1>7, InMemoryGood
<1>9. [v EXCEPT ![k] = v[k]] = v
  BY <1>2 DEF Contents
<1>10. QED
  BY <1>8, <1>9 DEF r

(* which tells the clients that wait for it: that changes no value.          *)
SameValues(s, t) ==
  /\ t.db = s.db /\ t.bitmap = s.bitmap /\ t.newjobs = s.newjobs
  /\ t.processed = s.processed /\ t.active = s.active

LEMMA SameValuesGood ==
  ASSUME NEW s, NEW P, NEW file, NEW v, NEW child, Good(s, P, file, v, child),
         NEW t \in Servers, SameValues(s, t)
  PROVE  Good(t, P, file, v, child)
<1>1. Ownership(t, P) = Ownership(s, P)
  BY DEF SameValues, Ownership, Owned
<1>2. QED
  BY <1>1 DEF SameValues, Good, Typed, Queues, KeyGood

Unlisted(s, t, c, k) ==
  /\ t \in Servers /\ SameValues(s, t)
  /\ t.waits = [s.waits EXCEPT ![c] = RemoveFirst(s.waits[c], k)]
  /\ t.waiters = [s.waiters EXCEPT ![k] = RemoveFirst(s.waiters[k], c)]

LEMMA DontWaitIs ==
  ASSUME NEW s \in Servers, NEW c \in Clients, NEW k \in Keys
  PROVE  LET t == dontWaitForSwappedKey(s, c, k)
         IN  Unlisted(s, t, c, k) /\ t.ready = s.ready
<1> DEFINE t == dontWaitForSwappedKey(s, c, k)
           waits == [s.waits EXCEPT ![c] = RemoveFirst(s.waits[c], k)]
           waiters == [s.waiters EXCEPT ![k] = RemoveFirst(s.waiters[k], c)]
<1>1. s.waits \in [Clients -> Seq(Keys)] /\ s.waiters \in [Keys -> Seq(Clients)]
  BY ServerIs
<1>2. RemoveFirst(s.waits[c], k) \in Seq(Keys) /\ RemoveFirst(s.waiters[k], c) \in Seq(Clients)
  BY <1>1, RemovedFirst
<1>3. waits \in [Clients -> Seq(Keys)] /\ waiters \in [Keys -> Seq(Clients)]
  BY <1>1, <1>2
<1>4. t = [s EXCEPT !.waits = waits, !.waiters = waiters]
  BY DEF dontWaitForSwappedKey
<1> HIDE DEF t, waits, waiters
<1>5. t \in Servers /\ SameValues(s, t) /\ t.ready = s.ready /\ t.waits = waits /\ t.waiters = waiters
  BY <1>3, <1>4 DEF Servers, SameValues
<1>6. QED
  BY <1>5 DEF t, waits, waiters, Unlisted

Woken(t, c, k) ==
  LET u == dontWaitForSwappedKey(t, c, k)
  IN  IF u.waits[c] = <<>> THEN [u EXCEPT !.ready = Append(@, c)] ELSE u

LEMMA WokenIs ==
  ASSUME NEW s \in Servers, NEW c \in Clients, NEW k \in Keys
  PROVE  LET t == Woken(s, c, k)
         IN  /\ Unlisted(s, t, c, k)
             /\ t.ready = IF t.waits[c] = <<>> THEN Append(s.ready, c) ELSE s.ready
<1> DEFINE u == dontWaitForSwappedKey(s, c, k)
           t == Woken(s, c, k)
<1>1. /\ u \in Servers /\ SameValues(s, u) /\ u.ready = s.ready
      /\ u.waits = [s.waits EXCEPT ![c] = RemoveFirst(s.waits[c], k)]
      /\ u.waiters = [s.waiters EXCEPT ![k] = RemoveFirst(s.waiters[k], c)]
  BY DontWaitIs DEF Unlisted
<1>2. t = IF u.waits[c] = <<>> THEN [u EXCEPT !.ready = Append(@, c)] ELSE u
  BY DEF Woken
<1> HIDE DEF u, t
<1>3. u.ready \in Seq(Clients) /\ Append(u.ready, c) \in Seq(Clients)
  BY <1>1, ServerIs
<1> DEFINE ready == Append(u.ready, c)
<1>4. t = IF u.waits[c] = <<>> THEN [u EXCEPT !.ready = ready] ELSE u
  BY <1>2
<1>5. ready \in Seq(Clients) /\ ready = Append(s.ready, c)
  BY <1>1, <1>3
<1> HIDE DEF ready
<1>6. /\ t \in Servers /\ t.waits = u.waits /\ t.waiters = u.waiters
      /\ t.ready = IF u.waits[c] = <<>> THEN ready ELSE u.ready
      /\ SameValues(u, t)
  <2>1. CASE u.waits[c] = <<>>
    BY <1>1, <1>4, <1>5, <2>1 DEF Servers, SameValues
  <2>2. CASE u.waits[c] # <<>>
    BY <1>1, <1>4, <2>2 DEF SameValues
  <2>3. QED
    BY <2>1, <2>2
<1>7. SameValues(s, t)
  BY <1>1, <1>6 DEF SameValues
<1>8. QED
  BY <1>1, <1>5, <1>6, <1>7 DEF t, Unlisted

(* The fold of handleClientsBlockedOnSwappedKey.                             *)
LEMMA HandleRuns ==
  ASSUME NEW s \in Servers, NEW k \in Keys
  PROVE  LET q == s.waiters[k]
         IN  \E run \in [0..Len(q) -> Servers] :
               /\ run[0] = s
               /\ \A i \in 1..Len(q) : run[i] = Woken(run[i - 1], q[i], k)
               /\ handleClientsBlockedOnSwappedKey(s, k) = run[Len(q)]
<1> DEFINE q == s.waiters[k]
           n == Len(q)
           F == [i \in 1..n |-> [v \in Servers |-> Woken(v, q[i], k)]]
           Is(h) == h = [S \in SUBSET (1..n) |->
                           IF S = {} THEN s ELSE Woken(h[S \ {Max(S)}], q[Max(S)], k)]
           iter == CHOOSE h : Is(h)
<1>0. n \in Nat /\ DOMAIN q = 1..n /\ \A i \in 1..n : q[i] \in Clients
  <2>1. q \in Seq(Clients)
    BY ServerIs
  <2>2. QED
    BY <2>1
<1>1. handleClientsBlockedOnSwappedKey(s, k) = iter[1..n]
  <2>1. DOMAIN q = 1..n
    BY <1>0
  <2>2. QED
    BY <2>1 DEF handleClientsBlockedOnSwappedKey, FoldLeft, MapThenFoldSet, Woken
<1> HIDE DEF q, n
<1>2. F \in [1..n -> [Servers -> Servers]]
  BY <1>0, WokenIs DEF Unlisted
<1>3. \A S \in (SUBSET (1..n)) \ {{}} : Max(S) \in 1..n
  BY <1>0, MaxOfSet
<1>4. PICK h \in [SUBSET (1..n) -> Servers] : Folds(h, n, s, F)
  <2> HIDE DEF F
  <2>1. QED
    BY <1>0, <1>2, FoldRuns
<1>5. Is(h)
  BY <1>3, <1>4 DEF Folds
<1>6. Is(iter)
  <2> HIDE DEF Is
  <2>1. QED
    BY <1>5
<1>7. FoldsIn(iter, n, Servers, s, F)
  <2> HIDE DEF iter
  <2>1. QED
    BY <1>3, <1>6 DEF FoldsIn
<1>8. PICK run \in [0..n -> Servers] : RunsTo(run, n, s, F, iter[1..n])
  <2> HIDE DEF F, iter
  <2>1. QED
    BY <1>0, <1>2, <1>7, FoldIs
<1>9. \A i \in 1..n : run[i] = Woken(run[i - 1], q[i], k)
  <2>1. \A i \in 1..n : run[i - 1] \in Servers
    BY <1>0
  <2>2. QED
    BY <1>8, <2>1 DEF RunsTo
<1>10. run[0] = s /\ handleClientsBlockedOnSwappedKey(s, k) = run[n]
  BY <1>1, <1>8 DEF RunsTo
<1>11. QED
  BY <1>9, <1>10 DEF q, n

LEMMA HandleIs ==
  ASSUME NEW s \in Servers, NEW k \in Keys
  PROVE  LET t == handleClientsBlockedOnSwappedKey(s, k)
         IN  t \in Servers /\ SameValues(s, t)
<1> DEFINE q == s.waiters[k]
           n == Len(q)
<1>0. n \in Nat /\ \A i \in 1..n : q[i] \in Clients
  <2>1. q \in Seq(Clients)
    BY ServerIs
  <2>2. QED
    BY <2>1
<1>1. PICK run \in [0..n -> Servers] :
        /\ run[0] = s
        /\ \A i \in 1..n : run[i] = Woken(run[i - 1], q[i], k)
        /\ handleClientsBlockedOnSwappedKey(s, k) = run[n]
  BY HandleRuns
<1> HIDE DEF n, q
<1> DEFINE G == {i \in 0..n : SameValues(s, run[i])}
<1>2. 0 \in G
  BY <1>0, <1>1 DEF SameValues
<1>3. ASSUME NEW i \in 1..n, i - 1 \in G
      PROVE  i \in G
  <2> DEFINE a == run[i - 1]
             b == run[i]
             c == q[i]
  <2>1. a \in Servers /\ c \in Clients /\ b = Woken(a, c, k)
    <3>1. i - 1 \in 0..n
      BY <1>0
    <3>2. QED
      BY <1>0, <1>1, <3>1
  <2>2. SameValues(s, a)
    BY <1>3
  <2> HIDE DEF a, b, c
  <2>3. SameValues(a, b)
    BY <2>1, WokenIs DEF Unlisted
  <2>4. SameValues(s, b)
    BY <2>2, <2>3 DEF SameValues
  <2>5. QED
    BY <2>4 DEF b
<1>4. \A i \in 1..n : i - 1 \in G => i \in G
  BY <1>3
<1>5. n \in G
  <2> HIDE DEF G
  <2>1. QED
    BY <1>0, <1>2, <1>4, IndexInduction
<1>6. QED
  BY <1>0, <1>1, <1>5

LEMMA LookupIs ==
  ASSUME NEW s \in Servers, NEW k \in Keys, IsFiniteSet(processing), swap \in Files
  PROVE  LET t == lookupKey(s, k)
         IN  t \in Servers /\ AloneIn(s, t, k) /\ t.db[k].storage \in {"none", "memory"}
<1>1. CASE Swapped(s.db[k])
  <2> DEFINE t == vmLoadObject(s, k)
             h == handleClientsBlockedOnSwappedKey(t, k)
  <2>1. t \in Servers /\ AloneIn(s, t, k) /\ t.db[k].storage = "memory"
    BY LoadIs
  <2>2. h \in Servers /\ SameValues(t, h)
    <3> HIDE DEF t
    <3>1. QED
      BY <2>1, HandleIs
  <2>3. lookupKey(s, k) = IF s.db[k].storage = "loading" THEN h ELSE t
    BY <1>1 DEF lookupKey
  <2> HIDE DEF t, h
  <2>4. QED
    BY <2>1, <2>2, <2>3 DEF AloneIn, SameValues
<1>2. CASE ~Swapped(s.db[k])
  <2>1. lookupKey(s, k) = Undone(s, k)
    BY <1>2 DEF lookupKey
  <2>2. UndoneTo(s, Undone(s, k), k)
    BY UndoneIs
  <2>3. s.db[k] \in Objects
    BY ServerIs
  <2>4. s.db[k].storage \in {"none", "memory", "swapping"}
    BY <1>2, <2>3 DEF Swapped, Objects
  <2>5. QED
    BY <2>1, <2>2, <2>4 DEF UndoneTo
<1>3. QED
  BY <1>1, <1>2

LEMMA LookupGood ==
  ASSUME NEW s, NEW v, NEW child, Good(s, processing, swap, v, child), NEW k \in Keys,
         IsFiniteSet(processing), At(processing, k) = {}
  PROVE  Good(lookupKey(s, k), processing, swap, v, child)
<1>0. s \in Servers /\ swap \in Files
  BY DEF Good, Typed
<1>1. CASE Swapped(s.db[k])
  <2> DEFINE t == vmLoadObject(s, k)
             h == handleClientsBlockedOnSwappedKey(t, k)
  <2>1. Good(t, processing, swap, v, child)
    BY <1>1, LoadGood
  <2>2. t \in Servers
    BY <2>1 DEF Good, Typed
  <2>3. h \in Servers /\ SameValues(t, h)
    <3> HIDE DEF t
    <3>1. QED
      BY <2>2, HandleIs
  <2>4. lookupKey(s, k) = IF s.db[k].storage = "loading" THEN h ELSE t
    BY <1>1 DEF lookupKey
  <2> HIDE DEF t, h
  <2>5. Good(h, processing, swap, v, child)
    BY <2>1, <2>3, SameValuesGood
  <2>6. QED
    BY <2>1, <2>4, <2>5
<1>2. CASE ~Swapped(s.db[k])
  <2>1. lookupKey(s, k) = Undone(s, k)
    BY <1>2 DEF lookupKey
  <2>2. QED
    BY <2>1, UndoneGood
<1>3. QED
  BY <1>1, <1>2

LookedUp(s, q) == FoldLeft(lookupKey, s, q)

(* The fold of call.                                                         *)
LEMMA LookupRuns ==
  ASSUME NEW s \in Servers, NEW q \in Seq(Keys), IsFiniteSet(processing), swap \in Files
  PROVE  \E run \in [0..Len(q) -> Servers] :
           /\ run[0] = s
           /\ \A i \in 1..Len(q) : run[i] = lookupKey(run[i - 1], q[i])
           /\ LookedUp(s, q) = run[Len(q)]
<1> DEFINE n == Len(q)
           F == [i \in 1..n |-> [v \in Servers |-> lookupKey(v, q[i])]]
           Is(h) == h = [S \in SUBSET (1..n) |->
                           IF S = {} THEN s ELSE lookupKey(h[S \ {Max(S)}], q[Max(S)])]
           iter == CHOOSE h : Is(h)
<1>0. n \in Nat /\ DOMAIN q = 1..n /\ \A i \in 1..n : q[i] \in Keys
  OBVIOUS
<1>1. LookedUp(s, q) = iter[1..n]
  <2>1. DOMAIN q = 1..n
    BY <1>0
  <2>2. QED
    BY <2>1 DEF LookedUp, FoldLeft, MapThenFoldSet
<1> HIDE DEF n
<1>2. F \in [1..n -> [Servers -> Servers]]
  BY <1>0, LookupIs
<1>3. \A S \in (SUBSET (1..n)) \ {{}} : Max(S) \in 1..n
  BY <1>0, MaxOfSet
<1>4. PICK h \in [SUBSET (1..n) -> Servers] : Folds(h, n, s, F)
  <2> HIDE DEF F
  <2>1. QED
    BY <1>0, <1>2, FoldRuns
<1>5. Is(h)
  BY <1>3, <1>4 DEF Folds
<1>6. Is(iter)
  <2> HIDE DEF Is
  <2>1. QED
    BY <1>5
<1>7. FoldsIn(iter, n, Servers, s, F)
  <2> HIDE DEF iter
  <2>1. QED
    BY <1>3, <1>6 DEF FoldsIn
<1>8. PICK run \in [0..n -> Servers] : RunsTo(run, n, s, F, iter[1..n])
  <2> HIDE DEF F, iter
  <2>1. QED
    BY <1>0, <1>2, <1>7, FoldIs
<1>9. \A i \in 1..n : run[i] = lookupKey(run[i - 1], q[i])
  <2>1. \A i \in 1..n : run[i - 1] \in Servers
    BY <1>0
  <2>2. QED
    BY <1>8, <2>1 DEF RunsTo
<1>10. run[0] = s /\ LookedUp(s, q) = run[n]
  BY <1>1, <1>8 DEF RunsTo
<1>11. QED
  BY <1>9, <1>10 DEF n

LEMMA LookedUpGood ==
  ASSUME NEW s, NEW v, NEW child, Good(s, processing, swap, v, child), NEW q \in Seq(Keys),
         IsFiniteSet(processing), \A i \in 1..Len(q) : At(processing, q[i]) = {}
  PROVE  LET t == LookedUp(s, q)
         IN  /\ Good(t, processing, swap, v, child)
             /\ \A i \in 1..Len(q) : t.db[q[i]].storage \in {"none", "memory"}
<1> DEFINE n == Len(q)
           Up(t, i) == \A m \in 1..i : t.db[q[m]].storage \in {"none", "memory"}
<1>0. n \in Nat /\ \A i \in 1..n : q[i] \in Keys
  OBVIOUS
<1>1. s \in Servers /\ swap \in Files
  BY DEF Good, Typed
<1>2. PICK run \in [0..n -> Servers] :
        /\ run[0] = s
        /\ \A i \in 1..n : run[i] = lookupKey(run[i - 1], q[i])
        /\ LookedUp(s, q) = run[n]
  BY <1>1, LookupRuns
<1> DEFINE G == {i \in 0..n : Good(run[i], processing, swap, v, child) /\ Up(run[i], i)}
<1>3. 0 \in G
  BY <1>0, <1>2
<1>4. ASSUME NEW i \in 1..n, i - 1 \in G
      PROVE  i \in G
  <2> DEFINE a == run[i - 1]
             b == run[i]
  <2>1. a \in Servers /\ b = lookupKey(a, q[i]) /\ q[i] \in Keys /\ At(processing, q[i]) = {}
    <3>1. i - 1 \in 0..n /\ q[i] \in Keys
      BY <1>0
    <3>2. At(processing, q[i]) = {}
      OBVIOUS
    <3>3. a \in Servers
      BY <1>2, <3>1
    <3>4. b = lookupKey(a, q[i])
      BY <1>2
    <3>5. QED
      BY <3>1, <3>2, <3>3, <3>4
  <2>2. Good(a, processing, swap, v, child) /\ Up(a, i - 1)
    BY <1>4
  <2> HIDE DEF a, b
  <2>3. Good(b, processing, swap, v, child)
    BY <2>1, <2>2, LookupGood
  <2>4. AloneIn(a, b, q[i]) /\ b.db[q[i]].storage \in {"none", "memory"}
    BY <1>1, <2>1, LookupIs
  <2>5. Up(b, i)
    <3> SUFFICES ASSUME NEW m \in 1..i
                 PROVE  b.db[q[m]].storage \in {"none", "memory"}
      OBVIOUS
    <3>1. CASE q[m] = q[i]
      BY <2>4, <3>1
    <3>2. CASE q[m] # q[i]
      <4>1. m \in 1..i - 1 /\ q[m] \in Keys
        BY <1>0, <3>2
      <4>2. b.db[q[m]] = a.db[q[m]]
        BY <2>4, <3>2, <4>1 DEF AloneIn
      <4>3. QED
        BY <2>2, <4>1, <4>2
    <3>3. QED
      BY <3>1, <3>2
  <2> HIDE DEF Up
  <2>6. QED
    BY <2>3, <2>5 DEF b
<1>5. \A i \in 1..n : i - 1 \in G => i \in G
  BY <1>4
<1>6. n \in G
  <2> HIDE DEF G
  <2>1. QED
    BY <1>0, <1>3, <1>5, IndexInduction
<1>7. QED
  BY <1>0, <1>2, <1>6

LEMMA LookedUpIs ==
  ASSUME NEW s \in Servers, NEW q \in Seq(Keys), IsFiniteSet(processing), swap \in Files
  PROVE  LookedUp(s, q) \in Servers
<1>1. Len(q) \in Nat /\ Len(q) \in 0..Len(q)
  OBVIOUS
<1>2. QED
  BY <1>1, LookupRuns

-----------------------------------------------------------------------------
(* Commands *)

CommandLike(command) ==
  /\ command.keys \in Seq(Keys) /\ command.write \in Vals \cup {"none"}
  /\ command.write = "none" \/ command.keys # <<>>

LEMMA CommandsAre ==
  /\ \A command \in Commands : CommandLike(command)
  /\ CommandLike(Nothing)
  /\ \A command : CommandLike(command) => \A i \in 1..Len(command.keys) : command.keys[i] \in Keys
<1>1. \A command \in Commands : CommandLike(command)
  BY VirtualMemoryAssumption DEF CommandLike
<1>2. CommandLike(Nothing)
  BY DEF CommandLike, Nothing
<1>3. \A command : CommandLike(command) => \A i \in 1..Len(command.keys) : command.keys[i] \in Keys
  BY DEF CommandLike
<1>4. QED
  BY <1>1, <1>2, <1>3

Put(s, k, o) == [s EXCEPT !.db[k] = o]

LEMMA PutIs ==
  ASSUME NEW s \in Servers, NEW k \in Keys, NEW o \in Objects
  PROVE  LET t == Put(s, k, o)
         IN  /\ t \in Servers /\ Still(s, t) /\ Becomes(s, t, k, o) /\ t.bitmap = s.bitmap
             /\ t.db[k] = o /\ AloneIn(s, t, k)
<1> DEFINE db == [s.db EXCEPT ![k] = o]
           t == Put(s, k, o)
<1>1. s.db \in [Keys -> Objects]
  BY ServerIs
<1>2. db \in [Keys -> Objects] /\ db[k] = o /\ \A i \in Keys \ {k} : db[i] = s.db[i]
  BY <1>1
<1>3. t = [s EXCEPT !.db = db]
  BY DEF Put
<1>4. db = [s.db EXCEPT ![k] = o]
  OBVIOUS
<1> HIDE DEF db, t
<1>5. /\ t \in Servers /\ Still(s, t) /\ t.db = db /\ t.bitmap = s.bitmap
      /\ t.newjobs = s.newjobs /\ t.processed = s.processed
  BY <1>2, <1>3 DEF Servers, Still
<1>6. QED
  BY <1>2, <1>4, <1>5 DEF Becomes, AloneIn, t

Rewritten(o, x) == [o EXCEPT !.val = x]

LEMMA RewrittenIs ==
  ASSUME NEW o \in Objects, NEW x \in Words
  PROVE  /\ Rewritten(o, x) \in Objects /\ Rewritten(o, x).storage = o.storage
         /\ Rewritten(o, x).val = x
BY DEF Rewritten, Objects

(* What call writes is written to the key as the lookups left it.            *)
LEMMA CallWrites ==
  ASSUME NEW s \in Servers, NEW command, CommandLike(command),
         IsFiniteSet(processing), swap \in Files
  PROVE  LET t == LookedUp(s, command.keys)
             k == Head(command.keys)
             x == command.write
             r == call(s, command)
         IN  /\ t \in Servers
             /\ x = "none" => r = t
             /\ x # "none" =>
                  /\ k \in Keys /\ x \in Vals /\ k = command.keys[1] /\ 1 \in 1..Len(command.keys)
                  /\ \E o \in Objects :
                       /\ r = Put(t, k, o) /\ o.val = x
                       /\ o.storage = IF t.db[k] = None THEN "memory" ELSE t.db[k].storage
<1> DEFINE t == LookedUp(s, command.keys)
           k == Head(command.keys)
           x == command.write
           r == call(s, command)
<1>1. command.keys \in Seq(Keys) /\ x \in Vals \cup {"none"} /\ (x = "none" \/ command.keys # <<>>)
  BY DEF CommandLike
<1>2. t \in Servers
  BY <1>1, LookedUpIs
<1>3. r = IF x = "none" THEN t
          ELSE IF t.db[k] = None THEN [t EXCEPT !.db[k] = InMemory(NewId(t, k), x)]
          ELSE [t EXCEPT !.db[k].val = x]
  BY DEF call, LookedUp
<1>4. CASE x = "none"
  BY <1>2, <1>3, <1>4
<1>5. CASE x # "none"
  <2>1. k \in Keys /\ k = command.keys[1] /\ 1 \in 1..Len(command.keys) /\ x \in Vals
    BY <1>1, <1>5
  <2> HIDE DEF t, k, x, r
  <2>2. NewId(t, k) \in Nat /\ x \in Words
    BY <1>2, <2>1, NewIdIsNat DEF Words
  <2>3. t.db[k] \in Objects
    BY <1>2, <2>1, ServerIs
  <2>4. CASE t.db[k] = None
    <3>1. r = Put(t, k, InMemory(NewId(t, k), x))
      BY <1>3, <1>5, <2>4 DEF Put
    <3>2. InMemory(NewId(t, k), x) \in Objects /\ InMemory(NewId(t, k), x).storage = "memory"
          /\ InMemory(NewId(t, k), x).val = x
      BY <2>2, InMemoryIs
    <3>3. \E o \in Objects : r = Put(t, k, o) /\ o.val = x /\ o.storage = "memory"
      BY <3>1, <3>2
    <3>4. QED
      BY <1>2, <1>5, <2>1, <2>4, <3>3 DEF t, k, x, r
  <2>5. CASE t.db[k] # None
    <3>1. r = Put(t, k, Rewritten(t.db[k], x))
      BY <1>3, <1>5, <2>5 DEF Put, Rewritten
    <3>2. Rewritten(t.db[k], x) \in Objects /\ Rewritten(t.db[k], x).storage = t.db[k].storage
          /\ Rewritten(t.db[k], x).val = x
      BY <2>2, <2>3, RewrittenIs
    <3>3. \E o \in Objects : r = Put(t, k, o) /\ o.val = x /\ o.storage = t.db[k].storage
      BY <3>1, <3>2
    <3>4. QED
      BY <1>2, <1>5, <2>1, <2>5, <3>3 DEF t, k, x, r
  <2>6. QED
    BY <2>4, <2>5
<1>6. QED
  BY <1>4, <1>5

LEMMA CallIs ==
  ASSUME NEW s \in Servers, NEW command, CommandLike(command),
         IsFiniteSet(processing), swap \in Files
  PROVE  LET t == LookedUp(s, command.keys)
             r == call(s, command)
         IN  /\ r \in Servers /\ Still(t, r)
             /\ \A i \in Keys : t.db[i].storage = "loading" => r.db[i].storage = "loading"
<1> DEFINE t == LookedUp(s, command.keys)
           k == Head(command.keys)
           x == command.write
           r == call(s, command)
<1>1. /\ t \in Servers
      /\ x = "none" => r = t
      /\ x # "none" =>
           /\ k \in Keys
           /\ \E o \in Objects :
                /\ r = Put(t, k, o)
                /\ o.storage = IF t.db[k] = None THEN "memory" ELSE t.db[k].storage
  BY CallWrites
<1> HIDE DEF t, k, x, r
<1>2. CASE x = "none"
  BY <1>1, <1>2 DEF Still, t, r
<1>3. CASE x # "none"
  <2>1. PICK o \in Objects : /\ r = Put(t, k, o) /\ k \in Keys
                             /\ o.storage = IF t.db[k] = None THEN "memory" ELSE t.db[k].storage
    BY <1>1, <1>3
  <2>2. r \in Servers /\ Still(t, r) /\ r.db[k] = o /\ AloneIn(t, r, k)
    BY <1>1, <2>1, PutIs
  <2>3. \A i \in Keys : t.db[i].storage = "loading" => r.db[i].storage = "loading"
    BY <2>1, <2>2, NoneIs DEF AloneIn
  <2>4. QED
    BY <2>2, <2>3 DEF t, r
<1>4. QED
  BY <1>2, <1>3

LEMMA DataAfterIs ==
  ASSUME NEW v \in Contents, NEW command, CommandLike(command)
  PROVE  DataAfter(v, command) \in Contents
<1>1. CASE command.write = "none"
  BY <1>1 DEF DataAfter
<1>2. CASE command.write # "none"
  <2>1. Head(command.keys) \in Keys /\ command.write \in Words
    BY <1>2 DEF CommandLike, Words
  <2>2. QED
    BY <1>2, <2>1 DEF DataAfter, Contents
<1>3. QED
  BY <1>1, <1>2

LEMMA CallGood ==
  ASSUME NEW s, NEW v, NEW child, Good(s, processing, swap, v, child), IsFiniteSet(processing),
         NEW command, CommandLike(command),
         \A i \in 1..Len(command.keys) : At(processing, command.keys[i]) = {}
  PROVE  Good(call(s, command), processing, swap, DataAfter(v, command), child)
<1> DEFINE q == command.keys
           t == LookedUp(s, q)
           k == Head(q)
           x == command.write
           r == call(s, command)
<1>0. s \in Servers /\ swap \in Files /\ q \in Seq(Keys)
  BY DEF Good, Typed, CommandLike
<1>1. /\ Good(t, processing, swap, v, child)
      /\ \A i \in 1..Len(q) : t.db[q[i]].storage \in {"none", "memory"}
  BY <1>0, LookedUpGood
<1>2. /\ t \in Servers
      /\ x = "none" => r = t
      /\ x # "none" =>
           /\ k \in Keys /\ x \in Vals /\ k = q[1] /\ 1 \in 1..Len(q)
           /\ \E o \in Objects :
                /\ r = Put(t, k, o) /\ o.val = x
                /\ o.storage = IF t.db[k] = None THEN "memory" ELSE t.db[k].storage
  BY <1>0, CallWrites
<1>3. DataAfter(v, command) = IF x = "none" THEN v ELSE [v EXCEPT ![k] = x]
  BY DEF DataAfter
<1> HIDE DEF q, t, k, x, r
<1>4. CASE x = "none"
  BY <1>1, <1>2, <1>3, <1>4 DEF r
<1>5. CASE x # "none"
  <2>1. PICK o \in Objects :
          /\ r = Put(t, k, o) /\ o.val = x
          /\ o.storage = IF t.db[k] = None THEN "memory" ELSE t.db[k].storage
    BY <1>2, <1>5
  <2>2. k \in Keys /\ x \in Vals /\ t.db[k].storage \in {"none", "memory"}
    BY <1>1, <1>2, <1>5
  <2>3. t.db[k].storage = "none" => t.db[k] = None
    BY <1>1, <2>2, RestIs
  <2>4. o.storage = "memory" /\ Resting(t.db[k]) /\ Held(t.db[k]) = {}
    BY <2>1, <2>2, <2>3 DEF Resting, Held, Swapped
  <2>5. r \in Servers /\ Becomes(t, r, k, o) /\ r.bitmap = t.bitmap
    BY <1>2, <2>1, <2>2, PutIs
  <2>6. r.bitmap = t.bitmap \ Held(t.db[k])
    BY <2>4, <2>5
  <2>7. Good(r, processing, swap, [v EXCEPT ![k] = x], child)
    BY <1>1, <2>1, <2>2, <2>4, <2>5, <2>6, InMemoryGood
  <2>8. QED
    BY <1>3, <1>5, <2>7 DEF r
<1>6. QED
  BY <1>4, <1>5

-----------------------------------------------------------------------------
(* A job begins: to load a value, or to swap it out.                         *)

LEMMA QueueIs ==
  ASSUME NEW s \in Servers, NEW job \in AnyJob
  PROVE  LET t == queueIOJob(s, job)
         IN  /\ t \in Servers /\ Still(s, t) /\ t.db = s.db /\ t.bitmap = s.bitmap
             /\ t.newjobs = Append(s.newjobs, job) /\ t.processed = s.processed
<1> DEFINE new == Append(s.newjobs, job)
           active == IF s.active < MaxThreads THEN s.active + 1 ELSE s.active
           t == queueIOJob(s, job)
<1>1. new \in Seq(AnyJob) /\ active \in Int
  BY ServerIs
<1>2. t = [s EXCEPT !.newjobs = new, !.active = active]
  BY DEF queueIOJob
<1>3. new = Append(s.newjobs, job)
  OBVIOUS
<1> HIDE DEF new, active, t
<1>4. /\ t \in Servers /\ Still(s, t) /\ t.db = s.db /\ t.bitmap = s.bitmap
      /\ t.newjobs = new /\ t.processed = s.processed
  BY <1>1, <1>2 DEF Servers, Still
<1>5. QED
  BY <1>3, <1>4 DEF t

Turned(o, storage) == [o EXCEPT !.storage = storage]
Begun(s, k, type, storage) == queueIOJob(Put(s, k, Turned(s.db[k], storage)), Job(type, k, s.db[k]))
Beginning(type, storage) ==
  \/ type = "load" /\ storage = "loading"
  \/ type = "prepare" /\ storage = "swapping"

LEMMA TurnedIs ==
  ASSUME NEW o \in Objects, NEW storage \in {"none", "memory", "swapping", "loading", "swapped"}
  PROVE  /\ Turned(o, storage) \in Objects /\ Turned(o, storage).storage = storage
         /\ Turned(o, storage).id = o.id /\ Turned(o, storage).val = o.val
         /\ Turned(o, storage).pages = o.pages
BY DEF Turned, Objects

LEMMA BegunIs ==
  ASSUME NEW s \in Servers, NEW k \in Keys, NEW type, NEW storage, Beginning(type, storage)
  PROVE  LET t == Begun(s, k, type, storage)
         IN  /\ t \in Servers /\ Still(s, t) /\ AloneIn(s, t, k) /\ t.bitmap = s.bitmap
             /\ t.db[k] = Turned(s.db[k], storage) /\ t.db[k].storage = storage
             /\ t.newjobs = Append(s.newjobs, Job(type, k, s.db[k])) /\ t.processed = s.processed
             /\ Job(type, k, s.db[k]) \in AnyJob
<1> DEFINE o == s.db[k]
           p == Put(s, k, Turned(o, storage))
           j == Job(type, k, o)
           t == Begun(s, k, type, storage)
<1>1. o \in Objects
  BY ServerIs
<1>2. /\ storage \in {"none", "memory", "swapping", "loading", "swapped"}
      /\ type \in {"load", "prepare"}
  BY DEF Beginning
<1>3. Turned(o, storage) \in Objects /\ Turned(o, storage).storage = storage
  BY <1>1, <1>2, TurnedIs
<1>4. j \in AnyJob
  BY <1>1, <1>2, JobIs
<1>5. t = queueIOJob(p, j)
  BY DEF Begun
<1> HIDE DEF o
<1>6. /\ p \in Servers /\ Still(s, p) /\ Becomes(s, p, k, Turned(o, storage)) /\ p.bitmap = s.bitmap
      /\ p.db[k] = Turned(o, storage) /\ AloneIn(s, p, k)
  BY <1>3, PutIs
<1> HIDE DEF p, j, t
<1>7. /\ t \in Servers /\ Still(p, t) /\ t.db = p.db /\ t.bitmap = p.bitmap
      /\ t.newjobs = Append(p.newjobs, j) /\ t.processed = p.processed
  BY <1>4, <1>5, <1>6, QueueIs
<1>8. Still(s, t) /\ AloneIn(s, t, k)
  BY <1>6, <1>7 DEF Still, AloneIn
<1>9. QED
  BY <1>3, <1>4, <1>6, <1>7, <1>8 DEF Becomes, o, j, t

LEMMA BegunGood ==
  ASSUME NEW s, NEW P, NEW file, NEW v, NEW child, Good(s, P, file, v, child), NEW k \in Keys,
         NEW type, NEW storage, Beginning(type, storage),
         s.db[k].storage = IF type = "load" THEN "swapped" ELSE "memory"
  PROVE  Good(Begun(s, k, type, storage), P, file, v, child)
<1> DEFINE o == s.db[k]
           j == Job(type, k, o)
           t == Begun(s, k, type, storage)
<1>1. Typed(s, P, file, v) /\ s \in Servers /\ Queues(s)
  BY DEF Good, Typed
<1>2. o \in Objects /\ Resting(o) /\ Swapped(o) = (type = "load")
  BY <1>1, ServerIs DEF Resting, Swapped, Beginning
<1>3. /\ t \in Servers /\ AloneIn(s, t, k) /\ t.bitmap = s.bitmap
      /\ t.db[k] = Turned(o, storage)
      /\ t.newjobs = Append(s.newjobs, j) /\ t.processed = s.processed
  BY <1>1, BegunIs
<1>4. /\ type \in {"load", "prepare"}
      /\ storage \in {"none", "memory", "swapping", "loading", "swapped"}
  BY DEF Beginning
<1>5. /\ j \in AnyJob /\ j.type = type /\ j.key = k /\ j.id = o.id /\ ~j.canceled
      /\ type = "load" => j.val = "none" /\ j.pages = o.pages
      /\ type = "prepare" => j.val = o.val /\ j.pages = {}
  BY <1>2, <1>4, JobIs
<1>6. /\ Turned(o, storage).storage = storage /\ Turned(o, storage).id = o.id
      /\ Turned(o, storage).val = o.val /\ Turned(o, storage).pages = o.pages
  BY <1>2, <1>4, TurnedIs
<1>7. /\ Of(s.newjobs, k) = {} /\ At(P, k) = {} /\ Of(s.processed, k) = {} /\ Owned(s, P, k) = Held(o)
      /\ Swapped(o) => v[k] = ReadIn(file, o.pages) /\ v[k] \in Vals
      /\ o.storage = "memory" => o.val = v[k] /\ v[k] \in Vals
  BY <1>2, RestIs
<1>8. o.storage = IF type = "load" THEN "swapped" ELSE "memory"
  OBVIOUS
<1> HIDE DEF o, j, t
<1>9. /\ s.newjobs \in Seq(AnyJob) /\ Distinct(s.newjobs) /\ AllLive(s.newjobs) /\ Distinct(s.processed)
  BY <1>1, ServerIs DEF Queues
<1>10. /\ Distinct(t.newjobs) /\ AllLive(t.newjobs) /\ Of(t.newjobs, k) = {j}
       /\ \A i : i # k => Of(t.newjobs, i) = Of(s.newjobs, i)
  <2> DEFINE new == Append(s.newjobs, j)
  <2>1. /\ Distinct(new) /\ AllLive(new)
        /\ Of(new, j.key) = IF j.canceled THEN {} ELSE {j}
        /\ \A i : i # j.key => Of(new, i) = Of(s.newjobs, i)
    BY <1>5, <1>7, <1>9, AppendedJob
  <2> HIDE DEF new
  <2>2. new = t.newjobs
    BY <1>3 DEF new
  <2>3. QED
    BY <1>5, <2>1, <2>2
<1>11. Queues(t) /\ Typed(t, P, file, v)
  BY <1>1, <1>3, <1>9, <1>10 DEF Queues, Typed
<1>12. Elsewhere(s, P, v, t, P, v, k)
  BY <1>3, <1>10 DEF Elsewhere, AloneIn
<1>13. Fits(j, Turned(o, storage))
  BY <1>5, <1>6 DEF Fits, Beginning
<1>14. Ahead(j, {j}, {}, {}, child)
  BY <1>4, <1>5 DEF Ahead
<1>15. KeyGood(t, P, file, v, child, k)
  <2>1. KeyOk(Turned(o, storage), v[k], {j}, {}, {}, file, child)
    BY <1>4, <1>5, <1>6, <1>7, <1>8, <1>13, <1>14 DEF KeyOk, Swapped, Beginning
  <2>2. QED
    BY <1>3, <1>7, <1>10, <2>1 DEF KeyGood
<1>16. Owned(t, P, k) = Held(o)
  <2>1. Owned(t, P, k) = OwnedBy(Turned(o, storage), {j})
    BY <1>3, <1>7, <1>10 DEF Owned
  <2>2. UNION {x.pages : x \in {j}} = j.pages
    OBVIOUS
  <2>3. OwnedBy(Turned(o, storage), {j}) = IF type = "load" THEN o.pages ELSE {}
    BY <1>4, <1>5, <1>6, <2>2 DEF OwnedBy, Swapped, Beginning
  <2>4. QED
    BY <1>2, <2>1, <2>3 DEF Held
<1>17. Trades(s.bitmap, Owned(s, P, k), Owned(t, P, k), t.bitmap)
  <2>1. Owned(s, P, k) \subseteq s.bitmap
    BY DEF Good, Partition, Ownership
  <2>2. QED
    BY <1>3, <1>7, <1>16, <2>1 DEF Trades
<1>18. Good(t, P, file, v, child)
  BY <1>11, <1>12, <1>15, <1>17, KeyStep
<1>19. QED
  BY <1>18 DEF t

-----------------------------------------------------------------------------
(* A client that waits for the keys of its command                           *)

Listed(s, c, k) ==
  [s EXCEPT !.waits[c] = Append(@, k), !.waiters[k] = Append(@, c)]

LEMMA ListedIs ==
  ASSUME NEW s \in Servers, NEW c \in Clients, NEW k \in Keys
  PROVE  LET t == Listed(s, c, k)
         IN  /\ t \in Servers /\ SameValues(s, t) /\ t.ready = s.ready
             /\ t.waits = [s.waits EXCEPT ![c] = Append(s.waits[c], k)]
             /\ t.waiters = [s.waiters EXCEPT ![k] = Append(s.waiters[k], c)]
<1> DEFINE t == Listed(s, c, k)
           waits == [s.waits EXCEPT ![c] = Append(s.waits[c], k)]
           waiters == [s.waiters EXCEPT ![k] = Append(s.waiters[k], c)]
<1>1. s.waits \in [Clients -> Seq(Keys)] /\ s.waiters \in [Keys -> Seq(Clients)]
  BY ServerIs
<1>2. Append(s.waits[c], k) \in Seq(Keys) /\ Append(s.waiters[k], c) \in Seq(Clients)
  BY <1>1
<1>3. waits \in [Clients -> Seq(Keys)] /\ waiters \in [Keys -> Seq(Clients)]
  BY <1>1, <1>2
<1>4. t = [s EXCEPT !.waits = waits, !.waiters = waiters]
  BY DEF Listed
<1> HIDE DEF t, waits, waiters
<1>5. t \in Servers /\ SameValues(s, t) /\ t.ready = s.ready /\ t.waits = waits /\ t.waiters = waiters
  BY <1>3, <1>4 DEF Servers, SameValues
<1>6. QED
  BY <1>5 DEF t, waits, waiters

LEMMA ListedWaits ==
  ASSUME NEW s \in Servers, NEW c \in Clients, NEW k \in Keys
  PROVE  Listed(s, c, k).waits[c] # <<>>
<1> DEFINE w == Append(s.waits[c], k)
           l == Listed(s, c, k)
<1>1. s.waits \in [Clients -> Seq(Keys)]
  BY ServerIs
<1>2. s.waits[c] \in Seq(Keys)
  BY <1>1
<1>3. w # <<>>
  <2>1. Len(w) = Len(s.waits[c]) + 1 /\ Len(s.waits[c]) \in Nat
    BY <1>2
  <2>2. Len(<<>>) = 0
    OBVIOUS
  <2>3. QED
    BY <2>1, <2>2
<1>4. l = [s EXCEPT !.waits = [s.waits EXCEPT ![c] = w], !.waiters = [s.waiters EXCEPT ![k] = Append(s.waiters[k], c)]]
  BY DEF Listed
<1> HIDE DEF w, l
<1>5. l.waits = [s.waits EXCEPT ![c] = w]
  BY <1>4 DEF Servers
<1>6. l.waits[c] # <<>>
  BY <1>1, <1>3, <1>5
<1>7. QED
  BY <1>6 DEF l

(* What waitForSwappedKey does, in its three cases                           *)
LEMMA WaitIs ==
  ASSUME NEW s \in Servers, NEW c \in Clients, NEW k \in Keys
  PROVE  LET t == waitForSwappedKey(s, c, k)
             l == Listed(s, c, k)
         IN  /\ t \in Servers /\ AloneIn(s, t, k)
             /\ ~Swapped(s.db[k]) => t = Undone(s, k) /\ Still(s, t)
             /\ s.db[k].storage = "loading" => t = l
             /\ s.db[k].storage = "swapped" => t = Begun(l, k, "load", "loading")
             /\ Swapped(s.db[k]) => Still(l, t) /\ t.db[k].storage = "loading"
<1> DEFINE t == waitForSwappedKey(s, c, k)
           l == Listed(s, c, k)
<1>1. l \in Servers /\ SameValues(s, l)
  BY ListedIs
<1>2. CASE ~Swapped(s.db[k])
  <2>1. t = Undone(s, k)
    BY <1>2 DEF waitForSwappedKey
  <2>2. UndoneTo(s, Undone(s, k), k)
    BY UndoneIs
  <2>3. s.db[k].storage # "loading" /\ s.db[k].storage # "swapped"
    BY <1>2 DEF Swapped
  <2>4. QED
    BY <1>2, <2>1, <2>2, <2>3 DEF UndoneTo
<1>3. CASE s.db[k].storage = "loading"
  <2>1. Swapped(s.db[k])
    BY <1>3 DEF Swapped
  <2>2. t = l
    BY <1>3, <2>1 DEF waitForSwappedKey, Listed
  <2>3. s.db[k].storage # "swapped"
    BY <1>3
  <2> HIDE DEF t, l
  <2>4. t.db = s.db
    BY <1>1, <2>2 DEF SameValues
  <2>5. AloneIn(s, t, k) /\ Still(l, t) /\ t.db[k].storage = "loading"
    BY <1>3, <2>2, <2>4 DEF Still, AloneIn
  <2>6. QED
    BY <1>1, <2>1, <2>2, <2>3, <2>5 DEF t, l
<1>4. CASE s.db[k].storage = "swapped"
  <2>1. Swapped(s.db[k]) /\ s.db[k].storage # "loading"
    BY <1>4 DEF Swapped
  <2>2. t = queueIOJob([l EXCEPT !.db[k].storage = "loading"], Job("load", k, s.db[k]))
    BY <2>1 DEF waitForSwappedKey, Listed
  <2> HIDE DEF t, l
  <2>3. l.db = s.db
    BY <1>1 DEF SameValues
  <2>4. [l EXCEPT !.db[k].storage = "loading"] = Put(l, k, Turned(l.db[k], "loading"))
    BY DEF Put, Turned
  <2>5. t = Begun(l, k, "load", "loading")
    BY <2>2, <2>3, <2>4 DEF Begun
  <2>6. Beginning("load", "loading")
    BY DEF Beginning
  <2>7. t \in Servers /\ Still(l, t) /\ AloneIn(l, t, k) /\ t.db[k].storage = "loading"
    BY <1>1, <2>5, <2>6, BegunIs
  <2>8. AloneIn(s, t, k)
    BY <2>3, <2>7 DEF AloneIn
  <2>9. QED
    BY <2>1, <2>5, <2>7, <2>8 DEF t, l
<1>5. QED
  BY <1>2, <1>3, <1>4 DEF Swapped

LEMMA WaitGood ==
  ASSUME NEW s, NEW P, NEW file, NEW v, NEW child, Good(s, P, file, v, child),
         NEW c \in Clients, NEW k \in Keys, s.db[k].storage = "swapping" => At(P, k) = {}
  PROVE  Good(waitForSwappedKey(s, c, k), P, file, v, child)
<1> DEFINE t == waitForSwappedKey(s, c, k)
           l == Listed(s, c, k)
<1>1. s \in Servers
  BY DEF Good, Typed
<1>2. l \in Servers /\ SameValues(s, l)
  BY <1>1, ListedIs
<1>3. /\ ~Swapped(s.db[k]) => t = Undone(s, k)
      /\ s.db[k].storage = "loading" => t = l
      /\ s.db[k].storage = "swapped" => t = Begun(l, k, "load", "loading")
  BY <1>1, WaitIs
<1> HIDE DEF t, l
<1>4. Good(l, P, file, v, child)
  BY <1>2, SameValuesGood
<1>5. CASE ~Swapped(s.db[k])
  <2>1. At(P, k) = {}
    <3>1. CASE Resting(s.db[k])
      BY <3>1, RestIs
    <3>2. CASE ~Resting(s.db[k])
      BY <1>5, <3>2 DEF Resting, Swapped
    <3>3. QED
      BY <3>1, <3>2
  <2>2. Good(Undone(s, k), P, file, v, child)
    BY <2>1, UndoneGood
  <2>3. QED
    BY <1>3, <1>5, <2>2 DEF t
<1>6. CASE s.db[k].storage = "loading"
  BY <1>3, <1>4, <1>6 DEF t
<1>7. CASE s.db[k].storage = "swapped"
  <2>1. Beginning("load", "loading") /\ l.db[k].storage = "swapped"
    BY <1>2, <1>7 DEF Beginning, SameValues
  <2>2. Good(Begun(l, k, "load", "loading"), P, file, v, child)
    BY <1>4, <2>1, BegunGood
  <2>3. QED
    BY <1>3, <1>7, <2>2 DEF t
<1>8. QED
  BY <1>5, <1>6, <1>7 DEF Swapped

AllWait(s, c, q) == FoldLeft(LAMBDA t, k : waitForSwappedKey(t, c, k), s, q)

LEMMA WaitRuns ==
  ASSUME NEW s \in Servers, NEW c \in Clients, NEW q \in Seq(Keys)
  PROVE  \E run \in [0..Len(q) -> Servers] :
           /\ run[0] = s
           /\ \A i \in 1..Len(q) : run[i] = waitForSwappedKey(run[i - 1], c, q[i])
           /\ AllWait(s, c, q) = run[Len(q)]
<1> DEFINE n == Len(q)
           F == [i \in 1..n |-> [v \in Servers |-> waitForSwappedKey(v, c, q[i])]]
           Is(h) == h = [S \in SUBSET (1..n) |->
                           IF S = {} THEN s ELSE waitForSwappedKey(h[S \ {Max(S)}], c, q[Max(S)])]
           iter == CHOOSE h : Is(h)
<1>0. n \in Nat /\ DOMAIN q = 1..n /\ \A i \in 1..n : q[i] \in Keys
  OBVIOUS
<1>1. AllWait(s, c, q) = iter[1..n]
  <2>1. DOMAIN q = 1..n
    BY <1>0
  <2>2. QED
    BY <2>1 DEF AllWait, FoldLeft, MapThenFoldSet
<1> HIDE DEF n
<1>2. F \in [1..n -> [Servers -> Servers]]
  BY <1>0, WaitIs
<1>3. \A S \in (SUBSET (1..n)) \ {{}} : Max(S) \in 1..n
  BY <1>0, MaxOfSet
<1>4. PICK h \in [SUBSET (1..n) -> Servers] : Folds(h, n, s, F)
  <2> HIDE DEF F
  <2>1. QED
    BY <1>0, <1>2, FoldRuns
<1>5. Is(h)
  BY <1>3, <1>4 DEF Folds
<1>6. Is(iter)
  <2> HIDE DEF Is
  <2>1. QED
    BY <1>5
<1>7. FoldsIn(iter, n, Servers, s, F)
  <2> HIDE DEF iter
  <2>1. QED
    BY <1>3, <1>6 DEF FoldsIn
<1>8. PICK run \in [0..n -> Servers] : RunsTo(run, n, s, F, iter[1..n])
  <2> HIDE DEF F, iter
  <2>1. QED
    BY <1>0, <1>2, <1>7, FoldIs
<1>9. \A i \in 1..n : run[i] = waitForSwappedKey(run[i - 1], c, q[i])
  <2>1. \A i \in 1..n : run[i - 1] \in Servers
    BY <1>0
  <2>2. QED
    BY <1>8, <2>1 DEF RunsTo
<1>10. run[0] = s /\ AllWait(s, c, q) = run[n]
  BY <1>1, <1>8 DEF RunsTo
<1>11. QED
  BY <1>9, <1>10 DEF n

SwappingOnly(s, t) == \A k \in Keys : t.db[k].storage = "swapping" => s.db[k].storage = "swapping"

(* A client that has nothing to wait for has all the keys of its command at  *)
(* hand: no thread is at a job for one.                                      *)
LEMMA AllWaitGood ==
  ASSUME NEW s, NEW P, NEW file, NEW v, NEW child, Good(s, P, file, v, child),
         NEW c \in Clients, NEW q \in Seq(Keys),
         \A i \in 1..Len(q) : s.db[q[i]].storage = "swapping" => At(P, q[i]) = {}
  PROVE  LET t == AllWait(s, c, q)
         IN  /\ Good(t, P, file, v, child)
             /\ t.waits[c] = <<>> => \A i \in 1..Len(q) : At(P, q[i]) = {}
<1> DEFINE n == Len(q)
           Idle(t, i) == t.waits[c] = <<>> => \A m \in 1..i : At(P, q[m]) = {}
<1>0. n \in Nat /\ \A i \in 1..n : q[i] \in Keys
  OBVIOUS
<1>1. s \in Servers
  BY DEF Good, Typed
<1>2. PICK run \in [0..n -> Servers] :
        /\ run[0] = s
        /\ \A i \in 1..n : run[i] = waitForSwappedKey(run[i - 1], c, q[i])
        /\ AllWait(s, c, q) = run[n]
  BY <1>1, WaitRuns
<1> DEFINE G == {i \in 0..n : /\ Good(run[i], P, file, v, child)
                              /\ SwappingOnly(s, run[i]) /\ Idle(run[i], i)}
<1>3. 0 \in G
  BY <1>0, <1>2 DEF SwappingOnly
<1>4. ASSUME NEW i \in 1..n, i - 1 \in G
      PROVE  i \in G
  <2> DEFINE a == run[i - 1]
             b == run[i]
             k == q[i]
  <2>1. a \in Servers /\ k \in Keys /\ b = waitForSwappedKey(a, c, k)
    <3>1. i - 1 \in 0..n /\ q[i] \in Keys
      BY <1>0
    <3>2. a \in Servers
      BY <1>2, <3>1
    <3>3. b = waitForSwappedKey(a, c, k)
      BY <1>2
    <3>4. QED
      BY <3>1, <3>2, <3>3
  <2>2. Good(a, P, file, v, child) /\ SwappingOnly(s, a) /\ Idle(a, i - 1)
    BY <1>4
  <2>3. s.db[k].storage = "swapping" => At(P, k) = {}
    OBVIOUS
  <2> HIDE DEF a, b
  <2>4. a.db[k].storage = "swapping" => At(P, k) = {}
    BY <2>1, <2>2, <2>3 DEF SwappingOnly
  <2>5. Good(b, P, file, v, child)
    <3> HIDE DEF k
    <3>1. QED
      BY <2>1, <2>2, <2>4, WaitGood
  <2>6. /\ AloneIn(a, b, k)
        /\ ~Swapped(a.db[k]) => b = Undone(a, k) /\ Still(a, b)
        /\ Swapped(a.db[k]) => Still(Listed(a, c, k), b) /\ b.db[k].storage = "loading"
    <3> HIDE DEF k
    <3>1. QED
      BY <2>1, WaitIs
  <2>7. SwappingOnly(s, b)
    <3>1. ~Swapped(a.db[k]) => b.db[k].storage # "swapping"
      <4> HIDE DEF k
      <4>1. UndoneTo(a, Undone(a, k), k)
        BY <2>1, UndoneIs
      <4>2. QED
        BY <2>6, <4>1 DEF UndoneTo, Resting
    <3>2. Swapped(a.db[k]) => b.db[k].storage # "swapping"
      BY <2>6
    <3>3. \A j \in Keys : b.db[j].storage = "swapping" => a.db[j].storage = "swapping"
      BY <2>6, <3>1, <3>2 DEF AloneIn
    <3>4. QED
      BY <2>2, <3>3 DEF SwappingOnly
  <2>8. ASSUME b.waits[c] = <<>>
        PROVE  At(P, k) = {} /\ a.waits[c] = <<>>
    <3>1. Listed(a, c, k).waits[c] # <<>>
      <4> HIDE DEF k
      <4>1. QED
        BY <2>1, ListedWaits
    <3>5. ~Swapped(a.db[k])
      BY <2>6, <2>8, <3>1 DEF Still
    <3>6. a.waits[c] = <<>>
      BY <2>6, <2>8, <3>5 DEF Still
    <3>7. At(P, k) = {}
      <4>1. CASE Resting(a.db[k])
        <5> HIDE DEF k
        <5>1. QED
          BY <2>1, <2>2, <4>1, RestIs
      <4>2. CASE ~Resting(a.db[k])
        BY <2>4, <3>5, <4>2 DEF Resting, Swapped
      <4>3. QED
        BY <4>1, <4>2
    <3>8. QED
      BY <3>6, <3>7
  <2>9. Idle(b, i)
    <3> SUFFICES ASSUME b.waits[c] = <<>>, NEW m \in 1..i
                 PROVE  At(P, q[m]) = {}
      OBVIOUS
    <3>1. CASE m = i
      BY <2>8, <3>1
    <3>2. CASE m # i
      <4>1. m \in 1..i - 1
        BY <3>2
      <4>2. QED
        BY <2>2, <2>8, <4>1
    <3>3. QED
      BY <3>1, <3>2
  <2> HIDE DEF Idle
  <2>10. QED
    BY <2>5, <2>7, <2>9 DEF b
<1>5. \A i \in 1..n : i - 1 \in G => i \in G
  BY <1>4
<1>6. n \in G
  <2> HIDE DEF G
  <2>1. QED
    BY <1>0, <1>3, <1>5, IndexInduction
<1>7. QED
  BY <1>0, <1>2, <1>6

LEMMA AllWaitIs ==
  ASSUME NEW s \in Servers, NEW c \in Clients, NEW q \in Seq(Keys)
  PROVE  AllWait(s, c, q) \in Servers
<1>1. Len(q) \in Nat /\ Len(q) \in 0..Len(q)
  OBVIOUS
<1>2. QED
  BY <1>1, WaitRuns

-----------------------------------------------------------------------------
(* The other folds: clients that are resumed, with what they write,          *)
AllRun(s, cm, q) == FoldLeft(LAMBDA t, c : call(t, cm[c]), s, q)
AllWritten(v, q) == FoldLeft(DataAfter, v, q)
(* keys that are released by FLUSHDB,                                        *)
AllReleased(s, q) == FoldLeft(Released, s, q)
(* and those that a client waits for no longer.                              *)
AllForgotten(s, c, q) == FoldLeft(LAMBDA t, k : dontWaitForSwappedKey(t, c, k), s, q)

LEMMA CallRuns ==
  ASSUME NEW s \in Servers, NEW q \in Seq(Clients), NEW cm, \A c \in Clients : CommandLike(cm[c]),
         IsFiniteSet(processing), swap \in Files
  PROVE  \E run \in [0..Len(q) -> Servers] :
           /\ run[0] = s
           /\ \A i \in 1..Len(q) : run[i] = call(run[i - 1], cm[q[i]])
           /\ AllRun(s, cm, q) = run[Len(q)]
<1> DEFINE n == Len(q)
           F == [i \in 1..n |-> [x \in Servers |-> call(x, cm[q[i]])]]
           Is(h) == h = [S \in SUBSET (1..n) |->
                           IF S = {} THEN s ELSE call(h[S \ {Max(S)}], cm[q[Max(S)]])]
           iter == CHOOSE h : Is(h)
<1>0. n \in Nat /\ DOMAIN q = 1..n /\ \A i \in 1..n : q[i] \in Clients /\ CommandLike(cm[q[i]])
  OBVIOUS
<1>1. AllRun(s, cm, q) = iter[1..n]
  <2>1. DOMAIN q = 1..n
    BY <1>0
  <2>2. QED
    BY <2>1 DEF AllRun, FoldLeft, MapThenFoldSet
<1> HIDE DEF n
<1>2. F \in [1..n -> [Servers -> Servers]]
  BY <1>0, CallIs
<1>3. \A S \in (SUBSET (1..n)) \ {{}} : Max(S) \in 1..n
  BY <1>0, MaxOfSet
<1>4. PICK h \in [SUBSET (1..n) -> Servers] : Folds(h, n, s, F)
  <2> HIDE DEF F
  <2>1. QED
    BY <1>0, <1>2, FoldRuns
<1>5. Is(h)
  BY <1>3, <1>4 DEF Folds
<1>6. Is(iter)
  <2> HIDE DEF Is
  <2>1. QED
    BY <1>5
<1>7. FoldsIn(iter, n, Servers, s, F)
  <2> HIDE DEF iter
  <2>1. QED
    BY <1>3, <1>6 DEF FoldsIn
<1>8. PICK run \in [0..n -> Servers] : RunsTo(run, n, s, F, iter[1..n])
  <2> HIDE DEF F, iter
  <2>1. QED
    BY <1>0, <1>2, <1>7, FoldIs
<1>9. \A i \in 1..n : run[i] = call(run[i - 1], cm[q[i]])
  <2>1. \A i \in 1..n : run[i - 1] \in Servers
    BY <1>0
  <2>2. QED
    BY <1>8, <2>1 DEF RunsTo
<1>10. run[0] = s /\ AllRun(s, cm, q) = run[n]
  BY <1>1, <1>8 DEF RunsTo
<1>11. QED
  BY <1>9, <1>10 DEF n

WritesOf(q, n) == DOMAIN q = 1..n /\ \A i \in 1..n : CommandLike(q[i])
Writing(run, v, q, n) ==
  /\ run[0] = v
  /\ \A i \in 1..n : run[i] = DataAfter(run[i - 1], q[i])
  /\ AllWritten(v, q) = run[n]

LEMMA WriteRuns ==
  ASSUME NEW v \in Contents, NEW n \in Nat, NEW q, WritesOf(q, n)
  PROVE  \E run \in [0..n -> Contents] : Writing(run, v, q, n)
<1> DEFINE F == [i \in 1..n |-> [x \in Contents |-> DataAfter(x, q[i])]]
           Is(h) == h = [S \in SUBSET (1..n) |->
                           IF S = {} THEN v ELSE DataAfter(h[S \ {Max(S)}], q[Max(S)])]
           iter == CHOOSE h : Is(h)
<1>0. n \in Nat /\ DOMAIN q = 1..n /\ \A i \in 1..n : CommandLike(q[i])
  BY DEF WritesOf
<1>1. AllWritten(v, q) = iter[1..n]
  <2>1. DOMAIN q = 1..n
    BY <1>0
  <2>2. QED
    BY <2>1 DEF AllWritten, FoldLeft, MapThenFoldSet
<1>2. F \in [1..n -> [Contents -> Contents]]
  BY <1>0, DataAfterIs
<1>3. \A S \in (SUBSET (1..n)) \ {{}} : Max(S) \in 1..n
  BY <1>0, MaxOfSet
<1>4. PICK h \in [SUBSET (1..n) -> Contents] : Folds(h, n, v, F)
  <2> HIDE DEF F
  <2>1. QED
    BY <1>0, <1>2, FoldRuns
<1>5. Is(h)
  BY <1>3, <1>4 DEF Folds
<1>6. Is(iter)
  <2> HIDE DEF Is
  <2>1. QED
    BY <1>5
<1>7. FoldsIn(iter, n, Contents, v, F)
  <2> HIDE DEF iter
  <2>1. QED
    BY <1>3, <1>6 DEF FoldsIn
<1>8. PICK run \in [0..n -> Contents] : RunsTo(run, n, v, F, iter[1..n])
  <2> HIDE DEF F, iter
  <2>1. QED
    BY <1>0, <1>2, <1>7, FoldIs
<1>9. \A i \in 1..n : run[i] = DataAfter(run[i - 1], q[i])
  <2>1. \A i \in 1..n : run[i - 1] \in Contents
    BY <1>0
  <2>2. QED
    BY <1>8, <2>1 DEF RunsTo
<1>10. run[0] = v /\ AllWritten(v, q) = run[n]
  BY <1>1, <1>8 DEF RunsTo
<1>11. QED
  BY <1>9, <1>10 DEF Writing

LEMMA ReleaseRuns ==
  ASSUME NEW s \in Servers, NEW q \in Seq(Keys)
  PROVE  \E run \in [0..Len(q) -> Servers] :
           /\ run[0] = s
           /\ \A i \in 1..Len(q) : run[i] = Released(run[i - 1], q[i])
           /\ AllReleased(s, q) = run[Len(q)]
<1> DEFINE n == Len(q)
           F == [i \in 1..n |-> [x \in Servers |-> Released(x, q[i])]]
           Is(h) == h = [S \in SUBSET (1..n) |->
                           IF S = {} THEN s ELSE Released(h[S \ {Max(S)}], q[Max(S)])]
           iter == CHOOSE h : Is(h)
<1>0. n \in Nat /\ DOMAIN q = 1..n /\ \A i \in 1..n : q[i] \in Keys
  OBVIOUS
<1>1. AllReleased(s, q) = iter[1..n]
  <2>1. DOMAIN q = 1..n
    BY <1>0
  <2>2. QED
    BY <2>1 DEF AllReleased, FoldLeft, MapThenFoldSet
<1> HIDE DEF n
<1>2. F \in [1..n -> [Servers -> Servers]]
  BY <1>0, ReleasedIs
<1>3. \A S \in (SUBSET (1..n)) \ {{}} : Max(S) \in 1..n
  BY <1>0, MaxOfSet
<1>4. PICK h \in [SUBSET (1..n) -> Servers] : Folds(h, n, s, F)
  <2> HIDE DEF F
  <2>1. QED
    BY <1>0, <1>2, FoldRuns
<1>5. Is(h)
  BY <1>3, <1>4 DEF Folds
<1>6. Is(iter)
  <2> HIDE DEF Is
  <2>1. QED
    BY <1>5
<1>7. FoldsIn(iter, n, Servers, s, F)
  <2> HIDE DEF iter
  <2>1. QED
    BY <1>3, <1>6 DEF FoldsIn
<1>8. PICK run \in [0..n -> Servers] : RunsTo(run, n, s, F, iter[1..n])
  <2> HIDE DEF F, iter
  <2>1. QED
    BY <1>0, <1>2, <1>7, FoldIs
<1>9. \A i \in 1..n : run[i] = Released(run[i - 1], q[i])
  <2>1. \A i \in 1..n : run[i - 1] \in Servers
    BY <1>0
  <2>2. QED
    BY <1>8, <2>1 DEF RunsTo
<1>10. run[0] = s /\ AllReleased(s, q) = run[n]
  BY <1>1, <1>8 DEF RunsTo
<1>11. QED
  BY <1>9, <1>10 DEF n

LEMMA ForgetRuns ==
  ASSUME NEW s \in Servers, NEW c \in Clients, NEW q \in Seq(Keys)
  PROVE  \E run \in [0..Len(q) -> Servers] :
           /\ run[0] = s
           /\ \A i \in 1..Len(q) : run[i] = dontWaitForSwappedKey(run[i - 1], c, q[i])
           /\ AllForgotten(s, c, q) = run[Len(q)]
<1> DEFINE n == Len(q)
           F == [i \in 1..n |-> [x \in Servers |-> dontWaitForSwappedKey(x, c, q[i])]]
           Is(h) == h = [S \in SUBSET (1..n) |->
                           IF S = {} THEN s ELSE dontWaitForSwappedKey(h[S \ {Max(S)}], c, q[Max(S)])]
           iter == CHOOSE h : Is(h)
<1>0. n \in Nat /\ DOMAIN q = 1..n /\ \A i \in 1..n : q[i] \in Keys
  OBVIOUS
<1>1. AllForgotten(s, c, q) = iter[1..n]
  <2>1. DOMAIN q = 1..n
    BY <1>0
  <2>2. QED
    BY <2>1 DEF AllForgotten, FoldLeft, MapThenFoldSet
<1> HIDE DEF n
<1>2. F \in [1..n -> [Servers -> Servers]]
  BY <1>0, DontWaitIs DEF Unlisted
<1>3. \A S \in (SUBSET (1..n)) \ {{}} : Max(S) \in 1..n
  BY <1>0, MaxOfSet
<1>4. PICK h \in [SUBSET (1..n) -> Servers] : Folds(h, n, s, F)
  <2> HIDE DEF F
  <2>1. QED
    BY <1>0, <1>2, FoldRuns
<1>5. Is(h)
  BY <1>3, <1>4 DEF Folds
<1>6. Is(iter)
  <2> HIDE DEF Is
  <2>1. QED
    BY <1>5
<1>7. FoldsIn(iter, n, Servers, s, F)
  <2> HIDE DEF iter
  <2>1. QED
    BY <1>3, <1>6 DEF FoldsIn
<1>8. PICK run \in [0..n -> Servers] : RunsTo(run, n, s, F, iter[1..n])
  <2> HIDE DEF F, iter
  <2>1. QED
    BY <1>0, <1>2, <1>7, FoldIs
<1>9. \A i \in 1..n : run[i] = dontWaitForSwappedKey(run[i - 1], c, q[i])
  <2>1. \A i \in 1..n : run[i - 1] \in Servers
    BY <1>0
  <2>2. QED
    BY <1>8, <2>1 DEF RunsTo
<1>10. run[0] = s /\ AllForgotten(s, c, q) = run[n]
  BY <1>1, <1>8 DEF RunsTo
<1>11. QED
  BY <1>9, <1>10 DEF n

LEMMA AllRunGood ==
  ASSUME NEW s, NEW v, NEW child, Good(s, processing, swap, v, child), IsFiniteSet(processing),
         NEW q \in Seq(Clients), NEW cm, \A c \in Clients : CommandLike(cm[c]),
         \A i \in 1..Len(q) : \A m \in 1..Len(cm[q[i]].keys) : At(processing, cm[q[i]].keys[m]) = {},
         NEW commands, commands = [i \in DOMAIN q |-> cm[q[i]]]
  PROVE  Good(AllRun(s, cm, q), processing, swap, AllWritten(v, commands), child)
<1> DEFINE n == Len(q)
<1>0. n \in Nat /\ DOMAIN q = 1..n /\ \A i \in 1..n : q[i] \in Clients
  OBVIOUS
<1>1. s \in Servers /\ v \in Contents /\ swap \in Files
  BY DEF Good, Typed
<1>2. DOMAIN commands = 1..n /\ \A i \in 1..n : commands[i] = cm[q[i]] /\ CommandLike(cm[q[i]])
  BY <1>0
<1> HIDE DEF n
<1>3. PICK a \in [0..n -> Servers] :
        /\ a[0] = s
        /\ \A i \in 1..n : a[i] = call(a[i - 1], cm[q[i]])
        /\ AllRun(s, cm, q) = a[n]
  BY <1>1, CallRuns DEF n
<1>4. PICK d \in [0..n -> Contents] :
        Writing(d, v, commands, n)
  <2>1. WritesOf(commands, n)
    BY <1>0, <1>2 DEF WritesOf
  <2>2. QED
    BY <1>0, <1>1, <2>1, WriteRuns
<1> DEFINE G == {i \in 0..n : Good(a[i], processing, swap, d[i], child)}
<1>5. 0 \in G
  BY <1>0, <1>3, <1>4 DEF Writing
<1>6. ASSUME NEW i \in 1..n, i - 1 \in G
      PROVE  i \in G
  <2> DEFINE x == a[i - 1]
             y == a[i]
             w == d[i - 1]
             z == d[i]
             command == cm[q[i]]
  <2>1. y = call(x, command)
    BY <1>3
  <2>2. z = DataAfter(w, command)
    BY <1>2, <1>4 DEF Writing
  <2>3. Good(x, processing, swap, w, child)
    BY <1>6
  <2>4. CommandLike(command)
    BY <1>2
  <2>5. \A m \in 1..Len(command.keys) : At(processing, command.keys[m]) = {}
    BY DEF n
  <2> HIDE DEF x, y, w, z, command
  <2>6. Good(y, processing, swap, z, child)
    BY <2>1, <2>2, <2>3, <2>4, <2>5, CallGood
  <2>7. QED
    BY <2>6 DEF y, z
<1>7. \A i \in 1..n : i - 1 \in G => i \in G
  BY <1>6
<1>8. n \in G
  <2> HIDE DEF G
  <2>1. QED
    BY <1>0, <1>5, <1>7, IndexInduction
<1>9. QED
  BY <1>3, <1>4, <1>8 DEF Writing

Blanked(v, q, i) == [k \in Keys |-> IF \E m \in 1..i : q[m] = k THEN "none" ELSE v[k]]

LEMMA AllReleasedGood ==
  ASSUME NEW s, NEW P, NEW file, NEW v, NEW child, Good(s, P, file, v, child),
         \A k \in Keys : At(P, k) = {}, NEW q \in Seq(Keys)
  PROVE  Good(AllReleased(s, q), P, file, Blanked(v, q, Len(q)), child)
<1> DEFINE n == Len(q)
<1>0. n \in Nat /\ \A i \in 1..n : q[i] \in Keys
  OBVIOUS
<1>1. s \in Servers /\ v \in Contents
  BY DEF Good, Typed
<1>2. PICK a \in [0..n -> Servers] :
        /\ a[0] = s
        /\ \A i \in 1..n : a[i] = Released(a[i - 1], q[i])
        /\ AllReleased(s, q) = a[n]
  BY <1>1, ReleaseRuns
<1> DEFINE G == {i \in 0..n : Good(a[i], P, file, Blanked(v, q, i), child)}
<1>3. 0 \in G
  <2>1. Blanked(v, q, 0) = v
    BY <1>1 DEF Blanked, Contents
  <2>2. 0 \in 0..n
    BY <1>0
  <2>3. QED
    BY <1>2, <2>1, <2>2
<1>4. ASSUME NEW i \in 1..n, i - 1 \in G
      PROVE  i \in G
  <2> DEFINE x == a[i - 1]
             y == a[i]
             w == Blanked(v, q, i - 1)
             k == q[i]
  <2>1. y = Released(x, k) /\ k \in Keys /\ At(P, k) = {}
    BY <1>0, <1>2
  <2>2. Good(x, P, file, w, child)
    BY <1>4
  <2>3. Blanked(v, q, i) = [w EXCEPT ![k] = "none"]
    <3>1. \A j \in Keys : (\E m \in 1..i : q[m] = j) <=> (j = k \/ \E m \in 1..i - 1 : q[m] = j)
      BY <1>0
    <3> HIDE DEF k
    <3>2. QED
      BY <3>1 DEF Blanked
  <2> HIDE DEF x, y, w, k
  <2>4. Good(y, P, file, [w EXCEPT ![k] = "none"], child)
    BY <2>1, <2>2, ReleasedGood
  <2>5. Good(y, P, file, Blanked(v, q, i), child)
    BY <2>3, <2>4
  <2>6. QED
    BY <2>5 DEF y
<1>5. \A i \in 1..n : i - 1 \in G => i \in G
  BY <1>4
<1>6. n \in G
  <2> HIDE DEF G
  <2>1. QED
    BY <1>0, <1>3, <1>5, IndexInduction
<1>7. QED
  BY <1>0, <1>2, <1>6

(* A list of a finite set misses nothing.                                    *)
LEMMA SetToSeqIs ==
  ASSUME NEW S \in SUBSET Keys
  PROVE  /\ SetToSeq(S) \in Seq(Keys)
         /\ \A k \in S : \E i \in 1..Len(SetToSeq(S)) : SetToSeq(S)[i] = k
<1> DEFINE n == Cardinality(S)
           f == SetToSeq(S)
<1>1. IsFiniteSet(S)
  BY VirtualMemoryAssumption, FS_Subset
<1>2. n \in Nat /\ ExistsBijection(1..n, S)
  BY <1>1, FS_CardinalityType
<1>3. \E g \in [1..n -> S] : IsInjective(g)
  <2>1. PICK g : g \in Bijection(1..n, S)
    BY <1>2 DEF ExistsBijection
  <2>2. g \in [1..n -> S] /\ IsInjective(g)
    BY <2>1 DEF Bijection, Injection, IsInjective
  <2>3. QED
    BY <2>2
<1>4. f \in [1..n -> S] /\ IsInjective(f)
  BY <1>3 DEF SetToSeq
<1> HIDE DEF n, f
<1>5. f \in Surjection(1..n, S)
  <2>1. f \in Injection(1..n, S)
    BY <1>4 DEF Injection, IsInjective
  <2>2. Cardinality(1..n) = n
    BY <1>2, FS_Interval
  <2>3. QED
    BY <1>1, <2>1, <2>2, FS_Injection DEF n
<1>6. f \in Seq(Keys) /\ Len(f) = n
  <2>1. f \in [1..n -> Keys]
    BY <1>4
  <2>2. QED
    BY <1>2, <2>1
<1>7. \A k \in S : \E i \in 1..n : f[i] = k
  BY <1>5 DEF Surjection
<1>8. QED
  BY <1>6, <1>7 DEF f

LEMMA AllForgottenIs ==
  ASSUME NEW s \in Servers, NEW c \in Clients, NEW q \in Seq(Keys)
  PROVE  LET t == AllForgotten(s, c, q)
         IN  t \in Servers /\ SameValues(s, t) /\ t.ready = s.ready
<1> DEFINE n == Len(q)
           Same(t) == SameValues(s, t) /\ t.ready = s.ready
<1>0. n \in Nat /\ \A i \in 1..n : q[i] \in Keys
  OBVIOUS
<1>1. PICK run \in [0..n -> Servers] :
        /\ run[0] = s
        /\ \A i \in 1..n : run[i] = dontWaitForSwappedKey(run[i - 1], c, q[i])
        /\ AllForgotten(s, c, q) = run[n]
  BY ForgetRuns
<1> DEFINE G == {i \in 0..n : Same(run[i])}
<1>2. 0 \in G
  BY <1>0, <1>1 DEF SameValues
<1>3. ASSUME NEW i \in 1..n, i - 1 \in G
      PROVE  i \in G
  <2> DEFINE a == run[i - 1]
             b == run[i]
             k == q[i]
  <2>1. a \in Servers /\ k \in Keys /\ b = dontWaitForSwappedKey(a, c, k)
    <3>1. i - 1 \in 0..n /\ q[i] \in Keys
      BY <1>0
    <3>2. a \in Servers
      BY <1>1, <3>1
    <3>3. b = dontWaitForSwappedKey(a, c, k)
      BY <1>1
    <3>4. QED
      BY <3>1, <3>2, <3>3
  <2>2. Same(a)
    BY <1>3
  <2> HIDE DEF a, b, k
  <2>3. SameValues(a, b) /\ b.ready = a.ready
    <3> DEFINE t == dontWaitForSwappedKey(a, c, k)
    <3>1. Unlisted(a, t, c, k) /\ t.ready = a.ready
      BY <2>1, DontWaitIs
    <3> HIDE DEF t
    <3>2. b = t
      BY <2>1 DEF t
    <3>3. QED
      BY <3>1, <3>2 DEF Unlisted
  <2>4. Same(b)
    BY <2>2, <2>3 DEF SameValues
  <2> HIDE DEF Same
  <2>5. QED
    BY <2>4 DEF b
<1>4. \A i \in 1..n : i - 1 \in G => i \in G
  BY <1>3
<1>5. n \in G
  <2> HIDE DEF G
  <2>1. QED
    BY <1>0, <1>2, <1>4, IndexInduction
<1>6. QED
  BY <1>0, <1>1, <1>5

-----------------------------------------------------------------------------
(* Jobs on their way: taken by a thread, done, and seen to by the server     *)

(* A job that is at the head of the queue of new ones is the one of its key, *)
LEMMA NewJobIs ==
  ASSUME NEW s, NEW P, NEW file, NEW v, NEW child, Good(s, P, file, v, child), s.newjobs # <<>>
  PROVE  LET j == Head(s.newjobs)
         IN  /\ j \in AnyJob /\ j.key \in Keys /\ Fits(j, s.db[j.key])
             /\ Ahead(j, {j}, {}, {}, child)
             /\ Of(s.newjobs, j.key) = {j} /\ At(P, j.key) = {} /\ Of(s.processed, j.key) = {}
<1> DEFINE q == s.newjobs
           j == Head(q)
           k == j.key
<1>1. q \in Seq(AnyJob) /\ AllLive(q) /\ q # <<>>
  BY ServerIs DEF Good, Typed, Queues
<1>2. j \in AnyJob /\ j \in ToSet(q) /\ ~j.canceled
  <2> HIDE DEF q
  <2>1. 1 \in DOMAIN q
    BY <1>1
  <2>2. QED
    BY <1>1, <2>1, TailIsShortened DEF AllLive
<1>3. k \in Keys /\ j \in Of(q, k)
  BY <1>2 DEF Of, AnyJob
<1> HIDE DEF j, k, q
<1>4. Of(q, k) # {}
  BY <1>3
<1>5. ~Resting(s.db[k])
  BY <1>3, <1>4, RestIs DEF q
<1>6. PICK i \in AnyJob :
        /\ Fits(i, s.db[k])
        /\ \/ Ahead(i, Of(q, k), At(P, k), Of(s.processed, k), child)
           \/ Over(i, v[k], Of(q, k), At(P, k), Of(s.processed, k), file)
  BY <1>3, <1>5, RestIs DEF q
<1>7. Ahead(i, Of(q, k), At(P, k), Of(s.processed, k), child) /\ Of(q, k) = {i}
      /\ At(P, k) = {} /\ Of(s.processed, k) = {}
  BY <1>4, <1>6 DEF Ahead, Over
<1>8. i = j
  BY <1>3, <1>7
<1>9. QED
  BY <1>2, <1>3, <1>6, <1>7, <1>8 DEF j, k, q

(* so is one that a thread is at,                                            *)
LEMMA BusyJobIs ==
  ASSUME NEW s, NEW P, NEW file, NEW v, NEW child, Good(s, P, file, v, child), NEW j \in P
  PROVE  /\ j \in AnyJob /\ j.key \in Keys /\ Fits(j, s.db[j.key])
         /\ Ahead(j, {}, {j}, {}, child)
         /\ Of(s.newjobs, j.key) = {} /\ At(P, j.key) = {j} /\ Of(s.processed, j.key) = {}
<1> DEFINE k == j.key
<1>1. j \in AnyJob /\ k \in Keys /\ j \in At(P, k)
  BY DEF Good, Typed, AnyJob, At
<1> HIDE DEF k
<1>2. ~Resting(s.db[k])
  BY <1>1, RestIs
<1>3. PICK i \in AnyJob :
        /\ Fits(i, s.db[k])
        /\ \/ Ahead(i, Of(s.newjobs, k), At(P, k), Of(s.processed, k), child)
           \/ Over(i, v[k], Of(s.newjobs, k), At(P, k), Of(s.processed, k), file)
  BY <1>1, <1>2, RestIs
<1>4. Ahead(i, Of(s.newjobs, k), At(P, k), Of(s.processed, k), child) /\ Of(s.newjobs, k) = {}
      /\ At(P, k) = {i} /\ Of(s.processed, k) = {}
  BY <1>1, <1>3 DEF Ahead, Over
<1>5. i = j
  BY <1>1, <1>4
<1>6. QED
  BY <1>1, <1>3, <1>4, <1>5 DEF k

(* and one that is done.                                                     *)
LEMMA DoneJobIs ==
  ASSUME NEW s, NEW P, NEW file, NEW v, NEW child, Good(s, P, file, v, child),
         s.processed # <<>>, ~Head(s.processed).canceled
  PROVE  LET j == Head(s.processed)
         IN  /\ j \in AnyJob /\ j.key \in Keys /\ Fits(j, s.db[j.key])
             /\ Over(j, v[j.key], {}, {}, {j}, file)
             /\ Of(s.newjobs, j.key) = {} /\ At(P, j.key) = {} /\ Of(s.processed, j.key) = {j}
<1> DEFINE q == s.processed
           j == Head(q)
           k == j.key
<1>1. q \in Seq(AnyJob) /\ q # <<>>
  BY ServerIs DEF Good, Typed
<1>2. j \in AnyJob /\ j \in ToSet(q) /\ ~j.canceled
  <2> HIDE DEF q
  <2>1. j = q[1] /\ q[1] \in AnyJob /\ q[1] \in ToSet(q)
    BY <1>1, TailIsShortened
  <2>2. QED
    BY <2>1 DEF q
<1>3. k \in Keys /\ j \in Of(q, k)
  BY <1>2 DEF Of, AnyJob
<1> HIDE DEF j, k, q
<1>4. Of(q, k) # {}
  BY <1>3
<1>5. ~Resting(s.db[k])
  BY <1>3, <1>4, RestIs DEF q
<1>6. PICK i \in AnyJob :
        /\ Fits(i, s.db[k])
        /\ \/ Ahead(i, Of(s.newjobs, k), At(P, k), Of(q, k), child)
           \/ Over(i, v[k], Of(s.newjobs, k), At(P, k), Of(q, k), file)
  BY <1>3, <1>5, RestIs DEF q
<1>7. Over(i, v[k], Of(s.newjobs, k), At(P, k), Of(q, k), file) /\ Of(q, k) = {i}
      /\ At(P, k) = {} /\ Of(s.newjobs, k) = {}
  BY <1>4, <1>6 DEF Ahead, Over
<1>8. i = j
  BY <1>3, <1>7
<1>9. QED
  BY <1>2, <1>3, <1>6, <1>7, <1>8 DEF j, k, q

(* The pages of a key are those of its job, if it has one.                   *)
LEMMA JobOwns ==
  ASSUME NEW o, NEW j, Fits(j, o)
  PROVE  OwnedBy(o, {j}) = j.pages
<1>1. UNION {x.pages : x \in {j}} = j.pages
  OBVIOUS
<1>2. QED
  BY <1>1 DEF OwnedBy, Fits, Swapped

LEMMA DequeuedIs ==
  ASSUME NEW s \in Servers, s.processed # <<>>, Distinct(s.processed), NEW t,
         t = [s EXCEPT !.processed = Tail(@)]
  PROVE  LET j == Head(s.processed)
         IN  /\ t \in Servers /\ Still(s, t) /\ t.db = s.db /\ t.bitmap = s.bitmap
             /\ t.newjobs = s.newjobs /\ t.processed = Tail(s.processed)
             /\ Distinct(t.processed)
             /\ ~j.canceled => Of(t.processed, j.key) = {}
             /\ \A k : k # j.key \/ j.canceled => Of(t.processed, k) = Of(s.processed, k)
<1> DEFINE q == s.processed
           r == Tail(q)
           j == Head(q)
<1>1. q \in Seq(AnyJob) /\ q # <<>> /\ Distinct(q)
  BY ServerIs
<1>2. t = [s EXCEPT !.processed = r]
  OBVIOUS
<1>3. Shortened(q, r, 1) /\ j = q[1]
  <2> HIDE DEF q
  <2>1. QED
    BY <1>1, TailIsShortened
<1> HIDE DEF q, r, j
<1>4. r \in Seq(AnyJob)
  BY <1>3 DEF Shortened
<1> DEFINE p == 1
<1> HIDE DEF p
<1>8. Shortened(q, r, p)
  BY <1>3 DEF p
<1>9. /\ Distinct(r) /\ ToSet(r) \subseteq ToSet(q)
      /\ ~q[p].canceled => Of(r, q[p].key) = {}
      /\ \A k : k # q[p].key \/ q[p].canceled => Of(r, k) = Of(q, k)
      /\ AllLive(q) => AllLive(r)
  BY <1>1, <1>8, ShortenedJobs
<1>5. /\ Distinct(r)
      /\ ~q[1].canceled => Of(r, q[1].key) = {}
      /\ \A k : k # q[1].key \/ q[1].canceled => Of(r, k) = Of(q, k)
  BY <1>9 DEF p
<1>6. /\ t \in Servers /\ Still(s, t) /\ t.db = s.db /\ t.bitmap = s.bitmap
      /\ t.newjobs = s.newjobs /\ t.processed = r
  BY <1>2, <1>4 DEF Servers, Still
<1>7. QED
  BY <1>3, <1>5, <1>6 DEF q, r, j

LEMMA CanceledGood ==
  ASSUME NEW s, NEW P, NEW file, NEW v, NEW child, Good(s, P, file, v, child),
         s.processed # <<>>, Head(s.processed).canceled
  PROVE  Good([s EXCEPT !.processed = Tail(@)], P, file, v, child)
<1> DEFINE t == [s EXCEPT !.processed = Tail(@)]
<1>1. Typed(s, P, file, v) /\ Queues(s) /\ s \in Servers /\ Distinct(s.processed)
  BY DEF Good, Typed, Queues
<1>2. /\ t \in Servers /\ t.db = s.db /\ t.bitmap = s.bitmap /\ t.newjobs = s.newjobs
      /\ Distinct(t.processed) /\ \A k : Of(t.processed, k) = Of(s.processed, k)
  BY <1>1, DequeuedIs
<1> HIDE DEF t
<1>3. Typed(t, P, file, v) /\ Queues(t)
  BY <1>1, <1>2 DEF Typed, Queues
<1>4. \A k \in Keys : KeyGood(t, P, file, v, child, k) /\ Owned(t, P, k) = Owned(s, P, k)
  BY <1>2 DEF Good, KeyGood, Owned
<1>5. Ownership(t, P) = Ownership(s, P)
  BY <1>4 DEF Ownership
<1>6. Good(t, P, file, v, child)
  BY <1>2, <1>3, <1>4, <1>5 DEF Good
<1>7. QED
  BY <1>6 DEF t

(* A job that is done gives its key an object at rest.                       *)
LEMMA FinishedGood ==
  ASSUME NEW s, NEW P, NEW file, NEW v, NEW child, Good(s, P, file, v, child),
         s.processed # <<>>, ~Head(s.processed).canceled,
         NEW k, k = Head(s.processed).key,
         NEW t \in Servers, NEW o,
         t.db = [s.db EXCEPT ![k] = o], t.newjobs = s.newjobs, t.processed = Tail(s.processed),
         Holds(o, v[k], file),
         Trades(s.bitmap, Head(s.processed).pages, Held(o), t.bitmap)
  PROVE  Good(t, P, file, v, child)
<1> DEFINE j == Head(s.processed)
           r == [s EXCEPT !.processed = Tail(@)]
<1>1. Typed(s, P, file, v) /\ Queues(s) /\ s \in Servers /\ Distinct(s.processed)
  BY DEF Good, Typed, Queues
<1>2. /\ j \in AnyJob /\ j.key \in Keys /\ Fits(j, s.db[j.key])
      /\ Of(s.newjobs, j.key) = {} /\ At(P, j.key) = {} /\ Of(s.processed, j.key) = {j}
  BY DoneJobIs
<1>3. /\ r \in Servers /\ Still(s, r) /\ r.db = s.db /\ r.bitmap = s.bitmap
      /\ r.newjobs = s.newjobs /\ r.processed = Tail(s.processed)
      /\ Distinct(r.processed)
      /\ ~j.canceled => Of(r.processed, j.key) = {}
      /\ \A i : i # j.key \/ j.canceled => Of(r.processed, i) = Of(s.processed, i)
  BY <1>1, DequeuedIs
<1>4. k = j.key /\ ~j.canceled /\ t.processed = r.processed
  BY <1>3
<1> HIDE DEF j, r
<1>5. s.db \in [Keys -> Objects]
  BY <1>1, ServerIs
<1>6. t.db[k] = o /\ \A i \in Keys \ {k} : t.db[i] = s.db[i]
  BY <1>2, <1>4, <1>5
<1>7. Typed(t, P, file, v) /\ Queues(t)
  BY <1>1, <1>3, <1>4 DEF Typed, Queues
<1>8. Elsewhere(s, P, v, t, P, v, k)
  BY <1>3, <1>4, <1>6 DEF Elsewhere
<1>9. KeyGood(t, P, file, v, child, k)
  <2>1. KeyOk(o, v[k], {}, {}, {}, file, child)
    BY HoldsIs
  <2>2. QED
    BY <1>2, <1>3, <1>4, <1>6, <2>1 DEF KeyGood
<1>10. Owned(t, P, k) = Held(o)
  <2>1. Owned(t, P, k) = OwnedBy(o, {})
    BY <1>2, <1>3, <1>4, <1>6 DEF Owned
  <2>2. QED
    BY <2>1 DEF OwnedBy, Held
<1>11. Owned(s, P, k) = j.pages
  <2>1. Owned(s, P, k) = OwnedBy(s.db[k], {j})
    BY <1>2, <1>4 DEF Owned
  <2>2. QED
    BY <1>2, <1>4, <2>1, JobOwns
<1>12. Trades(s.bitmap, Owned(s, P, k), Owned(t, P, k), t.bitmap)
  BY <1>10, <1>11 DEF j
<1>13. k \in Keys
  BY <1>2, <1>4
<1>14. QED
  BY <1>7, <1>8, <1>9, <1>12, <1>13, KeyStep
-----------------------------------------------------------------------------
(* The steps.  The invariant: the values are good, whether a child saves or  *)
(* not, and what the child saves can still be read, if only serverCron swaps.*)
Child == saving = "child"
Saves ==
  /\ saving \in {"no", "waits", "child"}
  /\ saving # "child" => snapshot = {}
  /\ ~SwapWhileSaving =>
       \A x \in snapshot : x.pages \in PageSets /\ ReadIn(swap, x.pages) = x.val
Values == Good(srv, processing, swap, data, Child)
Kept ==
  /\ Values
  /\ IsFiniteSet(processing)
  /\ cmd \in [Clients -> Commands \cup {Nothing}]
  /\ Saves

(* What Good says of its arguments *)
LEMMA KeptIs ==
  ASSUME Kept
  PROVE  /\ Good(srv, processing, swap, data, Child) /\ Typed(srv, processing, swap, data)
         /\ srv \in Servers /\ swap \in Files /\ data \in Contents /\ IsFiniteSet(processing)
         /\ \A c \in Clients : CommandLike(cmd[c])
<1>1. Good(srv, processing, swap, data, Child) /\ Typed(srv, processing, swap, data)
  BY DEF Kept, Values, Good
<1>2. \A c \in Clients : cmd[c] \in Commands \cup {Nothing}
  BY DEF Kept
<1>3. QED
  BY <1>1, <1>2, CommandsAre DEF Kept, Typed

(* A step of the main thread that leaves the file, and the child, alone      *)
LEMMA MainStep ==
  ASSUME Kept, UNCHANGED <<processing, swap, saving, snapshot>>,
         cmd' \in [Clients -> Commands \cup {Nothing}],
         Good(srv', processing, swap, data', Child)
  PROVE  Kept'
<1>1. Child' = Child /\ Saves'
  BY DEF Kept, Saves, Child
<1>2. Values'
  BY <1>1 DEF Values
<1>3. QED
  BY <1>1, <1>2 DEF Kept

(* No thread is at the job of a key that is settled.                         *)
LEMMA SettledIs ==
  ASSUME Kept, NEW k \in Keys, Settled(k)
  PROVE  At(processing, k) = {}
<1>1. CASE Resting(srv.db[k])
  BY <1>1, KeptIs, RestIs
<1>2. CASE ~Resting(srv.db[k])
  BY <1>2 DEF Resting, Settled, At
<1>3. QED
  BY <1>1, <1>2

(* The steps of a client *)
LEMMA CommandKept ==
  ASSUME Kept, NEW c \in Clients, NEW command \in Commands, processCommand(c, command)
  PROVE  Kept'
<1> DEFINE q == command.keys
           s == AllWait(srv, c, q)
<1>1. /\ srv' = IF s.waits[c] # <<>> THEN s ELSE call(s, command)
      /\ data' = IF s.waits[c] # <<>> THEN data ELSE DataAfter(data, command)
      /\ cmd' = IF s.waits[c] # <<>> THEN [cmd EXCEPT ![c] = command] ELSE cmd
      /\ UNCHANGED <<processing, swap, saving, snapshot>>
      /\ \A k \in ToSet(q) : srv.db[k].storage = "swapping" => Settled(k)
  BY DEF processCommand, AllWait
<1>2. CommandLike(command) /\ q \in Seq(Keys)
  BY CommandsAre DEF CommandLike
<1>3. \A i \in 1..Len(q) : q[i] \in Keys /\ q[i] \in ToSet(q)
  <2> HIDE DEF q
  <2>1. QED
    BY <1>2 DEF ToSet
<1> HIDE DEF q, s
<1>4. \A i \in 1..Len(q) : srv.db[q[i]].storage = "swapping" => At(processing, q[i]) = {}
  BY <1>1, <1>3, SettledIs
<1>5. Good(s, processing, swap, data, Child)
      /\ (s.waits[c] = <<>> => \A i \in 1..Len(q) : At(processing, q[i]) = {})
  BY <1>2, <1>4, KeptIs, AllWaitGood DEF s
<1>6. cmd' \in [Clients -> Commands \cup {Nothing}]
  BY <1>1 DEF Kept
<1>7. CASE s.waits[c] # <<>>
  BY <1>1, <1>5, <1>6, <1>7, MainStep
<1>8. CASE s.waits[c] = <<>>
  <2>1. Good(call(s, command), processing, swap, DataAfter(data, command), Child)
    BY <1>2, <1>5, <1>8, KeptIs, CallGood DEF q
  <2>2. QED
    BY <1>1, <1>6, <1>8, <2>1, MainStep
<1>9. QED
  BY <1>7, <1>8

LEMMA SubSeqIs ==
  ASSUME NEW S, NEW q \in Seq(S), NEW n \in Nat
  PROVE  SubSeq(q, n + 1, Len(q)) \in Seq(S)
<1>1. \A i \in n + 1..Len(q) : q[i] \in S
  OBVIOUS
<1>2. QED
  BY <1>1, SubSeqProperties

LEMMA ResumeKept ==
  ASSUME Kept, Resume
  PROVE  Kept'
<1> DEFINE q == srv.ready
           s == AllRun(srv, cmd, q)
           commands == [i \in DOMAIN q |-> cmd[q[i]]]
           rest == SubSeq(s.ready, Len(q) + 1, Len(s.ready))
<1>1. /\ srv' = [s EXCEPT !.ready = rest]
      /\ data' = AllWritten(data, commands)
      /\ cmd' = [c \in Clients |-> IF c \in ToSet(q) THEN Nothing ELSE cmd[c]]
      /\ UNCHANGED <<processing, swap, saving, snapshot>>
      /\ SettledKeys(UNION {ToSet(command.keys) : command \in ToSet(commands)})
  BY DEF Resume, AllRun, AllWritten
<1>2. q \in Seq(Clients)
  BY KeptIs, ServerIs
<1>3. \A i \in 1..Len(q) : q[i] \in Clients /\ i \in DOMAIN q
  <2> HIDE DEF q
  <2>1. QED
    BY <1>2
<1>4. \A i \in 1..Len(q) : \A m \in 1..Len(cmd[q[i]].keys) : At(processing, cmd[q[i]].keys[m]) = {}
  <2> HIDE DEF q
  <2> SUFFICES ASSUME NEW i \in 1..Len(q), NEW m \in 1..Len(cmd[q[i]].keys)
               PROVE  At(processing, cmd[q[i]].keys[m]) = {}
    OBVIOUS
  <2> DEFINE command == cmd[q[i]]
             k == command.keys[m]
  <2>1. CommandLike(command)
    BY <1>3, KeptIs
  <2>2. command.keys \in Seq(Keys)
    BY <2>1 DEF CommandLike
  <2>3. command \in ToSet(commands)
    BY <1>3 DEF ToSet
  <2> HIDE DEF command, commands
  <2>4. k \in ToSet(command.keys) /\ k \in Keys
    BY <2>2 DEF ToSet, command
  <2>5. Settled(k)
    BY <1>1, <2>3, <2>4 DEF SettledKeys
  <2>6. QED
    BY <2>4, <2>5, SettledIs DEF command
<1>5. cmd' \in [Clients -> Commands \cup {Nothing}]
  BY <1>1 DEF Kept
<1> HIDE DEF q, commands, s
<1>6. Good(s, processing, swap, AllWritten(data, commands), Child)
  BY <1>2, <1>4, KeptIs, AllRunGood DEF s, commands
<1>7. s \in Servers
  BY <1>6 DEF Good, Typed
<1>8. rest \in Seq(Clients)
  <2>1. s.ready \in Seq(Clients) /\ Len(q) \in Nat
    BY <1>2, <1>7, ServerIs
  <2>2. QED
    BY <2>1, SubSeqIs
<1> HIDE DEF rest
<1>9. srv' \in Servers /\ SameValues(s, srv')
  BY <1>1, <1>7, <1>8 DEF Servers, SameValues
<1>10. Good(srv', processing, swap, data', Child)
  BY <1>1, <1>6, <1>9, SameValuesGood
<1>11. QED
  BY <1>1, <1>5, <1>10, MainStep

LEMMA SetKept ==
  ASSUME Kept, NEW k \in Keys, NEW v \in Vals, setKey(k, v)
  PROVE  Kept'
<1> DEFINE s == lookupKey(srv, k)
           o == InMemory(NewId(s, k), v)
           t == Put(s, k, o)
<1>1. /\ srv' = t /\ data' = [data EXCEPT ![k] = v] /\ Settled(k)
      /\ UNCHANGED <<processing, swap, cmd, saving, snapshot>>
  BY DEF setKey, Put
<1>2. At(processing, k) = {}
  BY <1>1, SettledIs
<1>3. Good(s, processing, swap, data, Child)
  BY <1>2, KeptIs, LookupGood
<1>4. s \in Servers /\ s.db[k].storage \in {"none", "memory"}
  BY KeptIs, LookupIs
<1> HIDE DEF s
<1>5. NewId(s, k) \in Nat /\ v \in Words
  BY <1>4, KeptIs, NewIdIsNat DEF Words
<1>6. o \in Objects /\ o.storage = "memory" /\ o.val = v
  BY <1>5, InMemoryIs
<1> HIDE DEF o
<1>7. t \in Servers /\ Becomes(s, t, k, o) /\ t.bitmap = s.bitmap
  BY <1>4, <1>6, PutIs
<1> HIDE DEF t
<1>8. Resting(s.db[k]) /\ t.bitmap = s.bitmap \ Held(s.db[k])
  BY <1>4, <1>7 DEF Resting, Held, Swapped
<1>9. Good(t, processing, swap, [data EXCEPT ![k] = v], Child)
  BY <1>3, <1>6, <1>7, <1>8, InMemoryGood
<1>10. QED
  BY <1>1, <1>9, MainStep DEF Kept

LEMMA DelKept ==
  ASSUME Kept, NEW k \in Keys, delCommand(k)
  PROVE  Kept'
<1> DEFINE s == handleClientsBlockedOnSwappedKey(srv, k)
<1>1. /\ srv' = Released(s, k) /\ data' = [data EXCEPT ![k] = "none"] /\ Settled(k)
      /\ UNCHANGED <<processing, swap, cmd, saving, snapshot>>
  BY DEF delCommand, dbDelete
<1>2. At(processing, k) = {}
  BY <1>1, SettledIs
<1>3. s \in Servers /\ SameValues(srv, s)
  BY KeptIs, HandleIs
<1> HIDE DEF s
<1>4. Good(s, processing, swap, data, Child)
  BY <1>3, KeptIs, SameValuesGood
<1>5. Good(srv', processing, swap, data', Child)
  BY <1>1, <1>2, <1>4, ReleasedGood
<1>6. QED
  BY <1>1, <1>5, MainStep DEF Kept

LEMMA FlushKept ==
  ASSUME Kept, flushdbCommand
  PROVE  Kept'
<1> DEFINE S == {k \in Keys : srv.db[k] # None}
           q == SetToSeq(S)
           v == Blanked(data, q, Len(q))
<1>1. /\ srv' = AllReleased(srv, q) /\ data' = [k \in Keys |-> "none"] /\ SettledKeys(Keys)
      /\ UNCHANGED <<processing, swap, cmd, saving, snapshot>>
  BY DEF flushdbCommand, AllReleased
<1>2. \A k \in Keys : At(processing, k) = {}
  BY <1>1, SettledIs DEF SettledKeys
<1>3. q \in Seq(Keys) /\ \A k \in S : \E i \in 1..Len(q) : q[i] = k
  <2>1. S \in SUBSET Keys
    OBVIOUS
  <2> HIDE DEF S
  <2>2. QED
    BY <2>1, SetToSeqIs
<1> HIDE DEF q
<1>4. Good(AllReleased(srv, q), processing, swap, v, Child)
  BY <1>2, <1>3, KeptIs, AllReleasedGood
<1>5. \A k \in Keys \ S : data[k] = "none"
  BY KeptIs, NoneIs, RestIs
<1> HIDE DEF S
<1>6. v = data'
  BY <1>1, <1>3, <1>5 DEF Blanked
<1>7. Good(srv', processing, swap, data', Child)
  BY <1>1, <1>4, <1>6
<1>8. QED
  BY <1>1, <1>7, MainStep DEF Kept

LEMMA FreeKept ==
  ASSUME Kept, NEW c \in Clients, freeClient(c)
  PROVE  Kept'
<1> DEFINE s == AllForgotten(srv, c, srv.waits[c])
           rest == RemoveFirst(s.ready, c)
<1>1. /\ srv' = [s EXCEPT !.ready = rest] /\ cmd' = [cmd EXCEPT ![c] = Nothing]
      /\ UNCHANGED <<processing, swap, saving, snapshot, data>>
  BY DEF freeClient, AllForgotten
<1>2. srv.waits[c] \in Seq(Keys)
  BY KeptIs, ServerIs
<1>3. s \in Servers /\ SameValues(srv, s)
  BY <1>2, KeptIs, AllForgottenIs
<1> HIDE DEF s
<1>4. rest \in Seq(Clients)
  BY <1>3, ServerIs, RemovedFirst
<1> HIDE DEF rest
<1>5. srv' \in Servers /\ SameValues(s, srv')
  BY <1>1, <1>3, <1>4 DEF Servers, SameValues
<1>6. SameValues(srv, srv')
  BY <1>3, <1>5 DEF SameValues
<1>7. Good(srv', processing, swap, data', Child)
  BY <1>1, <1>5, <1>6, KeptIs, SameValuesGood
<1>8. cmd' \in [Clients -> Commands \cup {Nothing}]
  BY <1>1 DEF Kept
<1>9. QED
  BY <1>1, <1>7, <1>8, MainStep

(* A value is swapped out: a thread is asked to prepare it,                  *)
LEMMA ThreadedIs ==
  ASSUME NEW s \in Servers, NEW k \in Keys
  PROVE  vmSwapObjectThreaded(s, k) = Begun(s, k, "prepare", "swapping")
<1> DEFINE o == Turned(s.db[k], "swapping")
           t == [s EXCEPT !.db[k].storage = "swapping"]
<1>1. t = Put(s, k, o)
  BY DEF Servers, Objects, Put, Turned
<1> HIDE DEF t
<1>2. queueIOJob(t, Job("prepare", k, s.db[k])) = queueIOJob(Put(s, k, o), Job("prepare", k, s.db[k]))
  BY <1>1
<1>3. QED
  BY <1>2 DEF vmSwapObjectThreaded, Begun, t

LEMMA ThreadedGood ==
  ASSUME NEW s, NEW child, Good(s, processing, swap, data, child), NEW k \in Swappable(s)
  PROVE  Good(vmSwapObjectThreaded(s, k), processing, swap, data, child)
<1>1. k \in Keys /\ s.db[k].storage = "memory"
  BY DEF Swappable
<1>2. s \in Servers
  BY DEF Good, Typed
<1> DEFINE type == "prepare"
           storage == "swapping"
<1>3. Beginning(type, storage) /\ s.db[k].storage = IF type = "load" THEN "swapped" ELSE "memory"
  BY <1>1 DEF Beginning
<1>4. vmSwapObjectThreaded(s, k) = Begun(s, k, type, storage)
  BY <1>1, <1>2, ThreadedIs
<1> HIDE DEF type, storage
<1>5. QED
  BY <1>1, <1>3, <1>4, BegunGood

(* or it is written to the file at once.                                     *)
LEMMA BlockingKept ==
  ASSUME Kept, NEW k \in Keys, vmSwapObjectBlocking(k)
  PROVE  Kept'
<1> DEFINE x == srv.db[k].val
<1>1. /\ saving # "child" \/ SwapWhileSaving
      /\ srv.db[k].storage = "memory"
      /\ UNCHANGED <<processing, cmd, saving, snapshot, data>>
  BY DEF vmSwapObjectBlocking, vmCanSwapOut, Swappable
<1>2. PICK run \in FreeRuns(srv, PagesOf(x)) :
        /\ swap' = WrittenIn(swap, x, run)
        /\ srv' = [srv EXCEPT !.db[k] = createVmPointer(NewId(srv, k), run), !.bitmap = @ \cup run]
  BY DEF vmSwapObjectBlocking, Written, WrittenIn
<1>3. x = data[k] /\ x \in Vals /\ x \in Words
  BY <1>1, KeptIs, RestIs DEF Words
<1> HIDE DEF x
<1>4. run \in PageSets /\ run # {} /\ run \cap srv.bitmap = {}
  BY <1>3, FreeRunIs
<1>5. srv.bitmap \in PageSets /\ srv.db \in [Keys -> Objects]
  BY KeptIs, ServerIs
<1>6. /\ swap' \in Files /\ ReadIn(swap', run) = x
      /\ \A p \in (0..Pages - 1) \ run : swap'[p] = swap[p]
  BY <1>2, <1>3, <1>4, KeptIs, ReadWritten
<1>7. NewId(srv, k) \in Nat
  BY KeptIs, NewIdIsNat
<1> DEFINE o == createVmPointer(NewId(srv, k), run)
           db == [srv.db EXCEPT ![k] = o]
           pages == srv.bitmap \cup run
<1>8. o \in Objects /\ o.storage = "swapped" /\ o.pages = run
  BY <1>4, <1>7, VmPointerIs
<1>9. srv' = [srv EXCEPT !.db = db, !.bitmap = pages]
  BY <1>2, KeptIs DEF Servers
<1> HIDE DEF o
<1>10. db \in [Keys -> Objects] /\ pages \in PageSets
  BY <1>4, <1>5, <1>8 DEF PageSets
<1>11. /\ srv' \in Servers /\ srv'.db = db /\ srv'.bitmap = pages
       /\ srv'.newjobs = srv.newjobs /\ srv'.processed = srv.processed
  <2> HIDE DEF db, pages
  <2>1. QED
    BY <1>9, <1>10, KeptIs DEF Servers
<1>12. Becomes(srv, srv', k, o) /\ Holds(o, x, swap')
  BY <1>3, <1>6, <1>8, <1>11 DEF Becomes, Holds
<1>13. Trades(srv.bitmap, Held(srv.db[k]), Held(o), srv'.bitmap)
  BY <1>1, <1>4, <1>8, <1>11 DEF Trades, Held, Swapped
<1>14. \A p \in srv.bitmap \ Held(srv.db[k]) : swap'[p] = swap[p]
  BY <1>4, <1>5, <1>6 DEF PageSets
<1>15. Resting(srv.db[k])
  BY <1>1 DEF Resting
<1> HIDE DEF db, pages
<1>16. Good(srv', processing, swap', [data EXCEPT ![k] = x], Child)
  BY <1>3, <1>6, <1>11, <1>12, <1>13, <1>14, <1>15, KeptIs, ReplacedGood
<1>17. [data EXCEPT ![k] = x] = data'
  BY <1>1, <1>3, KeptIs DEF Contents
<1>18. Child' = Child /\ Saves'
  BY <1>1 DEF Child, Saves, Kept
<1>19. Values'
  BY <1>1, <1>16, <1>17, <1>18 DEF Values
<1>20. QED
  BY <1>1, <1>18, <1>19 DEF Kept

(* An object that is being swapped has a job that is not cancelled.          *)
LEMMA NothingAbandoned ==
  ASSUME Kept, srv.processed # <<>>
  PROVE  ~Abandoned(Head(srv.processed))
<1> DEFINE job == Head(srv.processed)
           k == job.key
<1> SUFFICES ASSUME srv.db[k].storage = "swapping"
             PROVE  \E j \in Jobs(srv) : j.key = k /\ ~j.canceled
  BY DEF Abandoned
<1>1. job \in AnyJob
  BY KeptIs, ServerIs
<1>2. k \in Keys /\ ~Resting(srv.db[k])
  BY <1>1 DEF AnyJob, Resting
<1> HIDE DEF job, k
<1>3. PICK j \in AnyJob :
        /\ Fits(j, srv.db[k])
        /\ \/ Ahead(j, Of(srv.newjobs, k), At(processing, k), Of(srv.processed, k), Child)
           \/ Over(j, data[k], Of(srv.newjobs, k), At(processing, k), Of(srv.processed, k), swap)
  BY <1>2, KeptIs, RestIs
<1>4. ~j.canceled /\ j \in Of(srv.newjobs, k) \cup At(processing, k) \cup Of(srv.processed, k)
  BY <1>3 DEF Fits, Ahead, Over
<1>5. QED
  BY <1>4 DEF Jobs, Of, At

(* A finished job that was cancelled *)
LEMMA CanceledKept ==
  ASSUME Kept, srv.processed # <<>>, CanceledJob(Head(srv.processed))
  PROVE  Good(srv', processing, swap, data, Child)
<1>1. Head(srv.processed).canceled /\ srv' = [srv EXCEPT !.processed = Tail(@)]
  BY NothingAbandoned DEF CanceledJob, Rest
<1>2. QED
  BY <1>1, KeptIs, CanceledGood

(* The server with the finished job taken off its list, and another object.  *)
Done(s, bitmap, k, o) ==
  [s EXCEPT !.processed = Tail(@), !.bitmap = bitmap, !.db[k] = o]

LEMMA RestWith ==
  ASSUME NEW s \in Servers, s.processed # <<>>, NEW k \in Keys, NEW o \in Objects,
         NEW bitmap \in PageSets, NEW t, t = Done(s, bitmap, k, o)
  PROVE  /\ t \in Servers /\ t.db = [s.db EXCEPT ![k] = o] /\ t.newjobs = s.newjobs
         /\ t.processed = Tail(s.processed) /\ t.bitmap = bitmap /\ Still(s, t)
<1> DEFINE db == [s.db EXCEPT ![k] = o]
           r == Tail(s.processed)
<1>1. t = [s EXCEPT !.processed = r, !.bitmap = bitmap, !.db = db]
  BY DEF Servers, Done
<1>2. s.db \in [Keys -> Objects] /\ s.processed \in Seq(AnyJob)
  BY ServerIs
<1>3. db \in [Keys -> Objects] /\ r \in Seq(AnyJob)
  BY <1>2
<1> HIDE DEF db, r
<1>4. /\ t \in Servers /\ t.db = db /\ t.newjobs = s.newjobs
      /\ t.processed = r /\ t.bitmap = bitmap /\ Still(s, t)
  BY <1>1, <1>3 DEF Servers, Still
<1>5. QED
  BY <1>4 DEF db, r

(* A load that is done: the clients that wait for the key are told.          *)
LEMMA LoadedIs ==
  ASSUME Kept, srv.processed # <<>>, LoadedJob(Head(srv.processed))
  PROVE  LET k == Head(srv.processed).key
         IN  /\ k \in Keys
             /\ \E t \in Servers :
                  /\ srv' = handleClientsBlockedOnSwappedKey(t, k)
                  /\ Still(srv, t) /\ AloneIn(srv, t, k) /\ Good(t, processing, swap, data, Child)
<1> DEFINE j == Head(srv.processed)
           k == j.key
           o == InMemory(NewId(srv, k), j.val)
           bitmap == srv.bitmap \ j.pages
           t == Done(srv, bitmap, k, o)
<1>1. ~j.canceled /\ j.type = "load" /\ srv' = handleClientsBlockedOnSwappedKey(t, k)
  <2>1. t = [Rest EXCEPT !.bitmap = @ \ j.pages, !.db[k] = o]
    BY KeptIs DEF Rest, Servers, Done
  <2>2. QED
    BY <2>1 DEF LoadedJob
<1>2. /\ j \in AnyJob /\ k \in Keys /\ Fits(j, srv.db[k])
      /\ Over(j, data[k], {}, {}, {j}, swap)
  BY <1>1, KeptIs, DoneJobIs
<1> HIDE DEF j
<1>3. srv.db[k].storage = "loading" /\ j.val = data[k]
  BY <1>1, <1>2 DEF Fits, Over
<1>4. data[k] \in Vals /\ j.val \in Words
  BY <1>2, <1>3, KeptIs, RestIs DEF Swapped
<1>5. NewId(srv, k) \in Nat /\ srv.bitmap \in PageSets
  BY KeptIs, NewIdIsNat, ServerIs
<1>6. o \in Objects /\ o.storage = "memory" /\ o.val = j.val
  BY <1>4, <1>5, InMemoryIs
<1>7. bitmap \in PageSets
  BY <1>5 DEF PageSets
<1> HIDE DEF k, o, bitmap
<1>8. /\ t \in Servers /\ t.db = [srv.db EXCEPT ![k] = o] /\ t.newjobs = srv.newjobs
      /\ t.processed = Tail(srv.processed) /\ t.bitmap = bitmap /\ Still(srv, t)
  BY <1>2, <1>6, <1>7, KeptIs, RestWith
<1> HIDE DEF t
<1>9. Holds(o, data[k], swap)
  BY <1>3, <1>4, <1>6 DEF Holds
<1>10. Trades(srv.bitmap, j.pages, Held(o), t.bitmap)
  BY <1>6, <1>8 DEF Trades, Held, Swapped, bitmap
<1>11. Good(t, processing, swap, data, Child)
  BY <1>1, <1>8, <1>9, <1>10, KeptIs, FinishedGood DEF j, k
<1>12. AloneIn(srv, t, k)
  <2>1. srv.db \in [Keys -> Objects]
    BY KeptIs, ServerIs
  <2>2. QED
    BY <1>2, <1>8, <2>1 DEF AloneIn
<1>13. QED
  BY <1>1, <1>2, <1>8, <1>11, <1>12 DEF j, k

LEMMA LoadedKept ==
  ASSUME Kept, srv.processed # <<>>, LoadedJob(Head(srv.processed))
  PROVE  Good(srv', processing, swap, data, Child)
<1> DEFINE k == Head(srv.processed).key
<1>1. k \in Keys
      /\ \E t \in Servers : /\ srv' = handleClientsBlockedOnSwappedKey(t, k)
                            /\ Still(srv, t) /\ AloneIn(srv, t, k)
                            /\ Good(t, processing, swap, data, Child)
  BY LoadedIs
<1> HIDE DEF k
<1>2. PICK t \in Servers : /\ srv' = handleClientsBlockedOnSwappedKey(t, k)
                           /\ Good(t, processing, swap, data, Child)
  BY <1>1
<1>3. srv' \in Servers /\ SameValues(t, srv')
  BY <1>1, <1>2, HandleIs
<1>4. QED
  BY <1>2, <1>3, SameValuesGood

(* A value that has been prepared: it stays in memory,                       *)
LEMMA UnpreparedGood ==
  ASSUME Kept, srv.processed # <<>>, ~Head(srv.processed).canceled,
         Head(srv.processed).type = "prepare",
         srv' = [Rest EXCEPT !.db[Head(srv.processed).key].storage = "memory"]
  PROVE  Good(srv', processing, swap, data, Child)
<1> DEFINE j == Head(srv.processed)
           k == j.key
           o == Turned(srv.db[k], "memory")
           bitmap == srv.bitmap
           t == Done(srv, bitmap, k, o)
<1>2. /\ j \in AnyJob /\ k \in Keys /\ Fits(j, srv.db[k])
  BY KeptIs, DoneJobIs
<1>1. srv' = t
  BY KeptIs DEF Rest, Servers, Turned, Done
<1>11. j.type = "prepare"
  OBVIOUS
<1> HIDE DEF j
<1>3. srv.db[k].storage = "swapping" /\ j.pages = {}
  BY <1>2, <1>11 DEF Fits
<1>4. srv.db[k] \in Objects /\ srv.db[k].val = data[k] /\ data[k] \in Vals
  BY <1>2, <1>3, KeptIs, RestIs
<1>6. o \in Objects /\ o.storage = "memory" /\ o.val = data[k]
  BY <1>4, TurnedIs
<1>7. bitmap \in PageSets
  BY KeptIs, ServerIs
<1> HIDE DEF k, o, bitmap
<1>8. /\ t \in Servers /\ t.db = [srv.db EXCEPT ![k] = o] /\ t.newjobs = srv.newjobs
      /\ t.processed = Tail(srv.processed) /\ t.bitmap = bitmap
  BY <1>2, <1>6, <1>7, KeptIs, RestWith
<1> HIDE DEF t
<1>9. Holds(o, data[k], swap)
  BY <1>4, <1>6 DEF Holds
<1>10. Trades(srv.bitmap, j.pages, Held(o), t.bitmap)
  BY <1>3, <1>6, <1>8 DEF Trades, Held, Swapped, bitmap
<1>12. Good(t, processing, swap, data, Child)
  BY <1>8, <1>9, <1>10, KeptIs, FinishedGood DEF j, k
<1>13. QED
  BY <1>1, <1>12

(* A value that has been swapped: its key has a vmpointer now.               *)
LEMMA SwappedGood ==
  ASSUME Kept, srv.processed # <<>>, ~Head(srv.processed).canceled,
         Head(srv.processed).type = "swap", NEW t,
         t = [Rest EXCEPT !.db[Head(srv.processed).key] =
                createVmPointer(NewId(Rest, Head(srv.processed).key), Head(srv.processed).pages)]
  PROVE  Good(t, processing, swap, data, Child)
<1> DEFINE j == Head(srv.processed)
           k == j.key
           o == createVmPointer(NewId(Rest, k), j.pages)
           bitmap == srv.bitmap
           r == Done(srv, bitmap, k, o)
<1>1. /\ j \in AnyJob /\ k \in Keys /\ Fits(j, srv.db[k])
      /\ Over(j, data[k], {}, {}, {j}, swap)
      /\ Of(srv.newjobs, k) = {} /\ At(processing, k) = {} /\ Of(srv.processed, k) = {j}
  BY KeptIs, DoneJobIs
<1>2. t = r
  BY KeptIs DEF Rest, Servers, Done
<1>3. j.type = "swap"
  OBVIOUS
<1>4. Rest \in Servers
  BY KeptIs, DequeuedIs DEF Rest, Kept, Values, Good, Queues
<1> HIDE DEF j
<1>5. /\ srv.db[k].storage = "swapping" /\ j.pages \in PageSets
      /\ ReadIn(swap, j.pages) = srv.db[k].val
  BY <1>1, <1>3 DEF Fits, Over, AnyJob
<1>6. srv.db[k].val = data[k] /\ data[k] \in Vals
  BY <1>1, <1>5, KeptIs, RestIs
<1>7. NewId(Rest, k) \in Nat
  BY <1>4, KeptIs, NewIdIsNat
<1>8. o \in Objects /\ o.storage = "swapped" /\ o.pages = j.pages
  BY <1>5, <1>7, VmPointerIs
<1>9. bitmap \in PageSets
  BY KeptIs, ServerIs
<1>10. j.pages \subseteq srv.bitmap
  <2>1. Owned(srv, processing, k) = OwnedBy(srv.db[k], {j})
    BY <1>1 DEF Owned
  <2>2. Owned(srv, processing, k) = j.pages
    BY <1>1, <2>1, JobOwns
  <2>3. Partition(srv.bitmap, Ownership(srv, processing))
    BY KeptIs DEF Good
  <2>4. Ownership(srv, processing)[k] = j.pages
    BY <1>1, <2>2 DEF Ownership
  <2>5. QED
    BY <1>1, <2>3, <2>4 DEF Partition
<1> HIDE DEF k, o, bitmap
<1>11. /\ r \in Servers /\ r.db = [srv.db EXCEPT ![k] = o] /\ r.newjobs = srv.newjobs
       /\ r.processed = Tail(srv.processed) /\ r.bitmap = bitmap
  BY <1>1, <1>8, <1>9, KeptIs, RestWith
<1> HIDE DEF r
<1>12. Holds(o, data[k], swap)
  BY <1>5, <1>6, <1>8 DEF Holds
<1>13. Trades(srv.bitmap, j.pages, Held(o), r.bitmap)
  BY <1>8, <1>10, <1>11 DEF Trades, Held, Swapped, bitmap
<1>14. Good(r, processing, swap, data, Child)
  BY <1>11, <1>12, <1>13, KeptIs, FinishedGood DEF j, k
<1>15. QED
  BY <1>2, <1>14

(* or it gets pages, and a thread is asked to write it there.                *)
LEMMA PreparedGood ==
  ASSUME Kept, srv.processed # <<>>, ~Head(srv.processed).canceled,
         Head(srv.processed).type = "prepare", ~Child,
         NEW run \in FreeRuns(srv, PagesOf(Head(srv.processed).val)),
         srv' = queueIOJob([Rest EXCEPT !.bitmap = @ \cup run],
                           [Head(srv.processed) EXCEPT !.type = "swap", !.pages = run])
  PROVE  Good(srv', processing, swap, data, Child)
<1> DEFINE j == Head(srv.processed)
           k == j.key
           o == srv.db[k]
           job == [j EXCEPT !.type = "swap", !.pages = run]
           r == [srv EXCEPT !.processed = Tail(@)]
           bitmap == srv.bitmap \cup run
           t == [r EXCEPT !.bitmap = bitmap]
<1>1. /\ j \in AnyJob /\ k \in Keys /\ Fits(j, o)
      /\ Of(srv.newjobs, k) = {} /\ At(processing, k) = {} /\ Of(srv.processed, k) = {j}
  BY KeptIs, DoneJobIs
<1>2. Queues(srv) /\ Typed(srv, processing, swap, data) /\ Distinct(srv.processed)
      /\ srv \in Servers
  BY KeptIs DEF Good, Queues
<1>3. /\ r \in Servers /\ r.db = srv.db /\ r.bitmap = srv.bitmap
      /\ r.newjobs = srv.newjobs
      /\ Distinct(r.processed)
      /\ ~j.canceled => Of(r.processed, k) = {}
      /\ \A i : i # k \/ j.canceled => Of(r.processed, i) = Of(srv.processed, i)
  BY <1>2, DequeuedIs
<1>4. ~j.canceled /\ j.type = "prepare" /\ run \in FreeRuns(srv, PagesOf(j.val))
  OBVIOUS
<1>5. srv' = queueIOJob(t, job)
  BY <1>2 DEF Rest, Servers
<1> HIDE DEF r, j
<1>6. o.storage = "swapping" /\ j.val = o.val /\ j.pages = {} /\ j.id = o.id
  BY <1>1, <1>4 DEF Fits
<1>7. o.val \in Vals
  BY <1>1, <1>6, KeptIs, RestIs
<1>8. run \in PageSets /\ run # {} /\ run \cap srv.bitmap = {}
  BY <1>4, <1>6, <1>7, FreeRunIs
<1>9. bitmap \in PageSets
  BY <1>2, <1>8, ServerIs DEF PageSets
<1>10. /\ job \in AnyJob /\ job.type = "swap" /\ job.key = k /\ job.id = j.id
       /\ job.val = j.val /\ job.pages = run /\ ~job.canceled
  BY <1>1, <1>4, <1>8 DEF AnyJob
<1> HIDE DEF bitmap
<1>11. /\ t \in Servers /\ t.db = srv.db /\ t.bitmap = bitmap /\ t.newjobs = srv.newjobs
       /\ t.processed = r.processed
  BY <1>3, <1>9 DEF Servers
<1> HIDE DEF t, job
<1>12. /\ srv' \in Servers /\ srv'.db = srv.db /\ srv'.bitmap = bitmap
       /\ srv'.newjobs = Append(srv.newjobs, job) /\ srv'.processed = r.processed
  <2> DEFINE u == queueIOJob(t, job)
  <2>1. /\ u \in Servers /\ Still(t, u) /\ u.db = t.db /\ u.bitmap = t.bitmap
        /\ u.newjobs = Append(t.newjobs, job) /\ u.processed = t.processed
    BY <1>10, <1>11, QueueIs
  <2>2. srv' = u
    BY <1>5
  <2> HIDE DEF u
  <2>3. QED
    BY <1>11, <2>1, <2>2
<1> DEFINE q == srv.newjobs
<1>13. /\ q \in Seq(AnyJob) /\ Distinct(q) /\ AllLive(q) /\ Of(q, k) = {}
  BY <1>1, <1>2, ServerIs DEF Queues
<1> HIDE DEF q
<1>14. Of(q, job.key) = {}
  BY <1>10, <1>13
<1>15. /\ Append(q, job) \in Seq(AnyJob) /\ Distinct(Append(q, job))
       /\ Of(Append(q, job), job.key) = IF job.canceled THEN {} ELSE {job}
       /\ \A i : i # job.key => Of(Append(q, job), i) = Of(q, i)
       /\ AllLive(q) /\ ~job.canceled => AllLive(Append(q, job))
  BY <1>10, <1>13, <1>14, AppendedJob
<1>16. /\ Distinct(srv'.newjobs) /\ AllLive(srv'.newjobs)
       /\ Of(srv'.newjobs, k) = {job}
       /\ \A i \in Keys \ {k} : Of(srv'.newjobs, i) = Of(srv.newjobs, i)
  BY <1>10, <1>12, <1>13, <1>15 DEF q
<1>17. /\ Of(srv'.processed, k) = {} /\ Distinct(srv'.processed)
       /\ \A i \in Keys \ {k} : Of(srv'.processed, i) = Of(srv.processed, i)
  BY <1>3, <1>4, <1>12
<1>18. Typed(srv', processing, swap, data) /\ Queues(srv')
  BY <1>2, <1>12, <1>16, <1>17 DEF Typed, Queues
<1>19. Elsewhere(srv, processing, data, srv', processing, data, k)
  BY <1>12, <1>16, <1>17 DEF Elsewhere
<1>20. Ahead(job, {job}, {}, {}, Child) /\ Fits(job, o)
  BY <1>6, <1>8, <1>10 DEF Ahead, Fits
<1>21. KeyGood(srv', processing, swap, data, Child, k)
  <2>1. KeyGood(srv, processing, swap, data, Child, k)
    BY <1>1, KeptIs DEF Good
  <2>2. KeyOk(o, data[k], {job}, {}, {}, swap, Child)
    BY <1>10, <1>20, <2>1 DEF KeyOk, KeyGood
  <2>3. QED
    BY <1>1, <1>12, <1>16, <1>17, <2>2 DEF KeyGood
<1>22. Owned(srv, processing, k) = {}
  <2>1. Owned(srv, processing, k) = OwnedBy(o, {j})
    BY <1>1 DEF Owned
  <2>2. QED
    BY <1>1, <1>6, <2>1, JobOwns
<1>23. Owned(srv', processing, k) = run
  <2>1. Owned(srv', processing, k) = OwnedBy(o, {job})
    BY <1>1, <1>12, <1>16, <1>17 DEF Owned
  <2>2. QED
    BY <1>10, <1>20, <2>1, JobOwns
<1>24. Trades(srv.bitmap, Owned(srv, processing, k), Owned(srv', processing, k), srv'.bitmap)
  BY <1>8, <1>12, <1>22, <1>23 DEF Trades, bitmap
<1>25. k \in Keys
  BY <1>1
<1> HIDE DEF k
<1>26. QED
  BY <1>18, <1>19, <1>21, <1>24, <1>25, KeptIs, KeyStep

LEMMA CompletedKept ==
  ASSUME Kept, vmThreadedIOCompletedJob
  PROVE  Kept'
<1> DEFINE job == Head(srv.processed)
<1>1. /\ srv.processed # <<>>
      /\ CanceledJob(job) \/ LoadedJob(job) \/ PreparedJob(job) \/ SwappedJob(job)
      /\ UNCHANGED <<processing, swap, cmd, saving, snapshot, data>>
  BY DEF vmThreadedIOCompletedJob
<1>2. Good(srv', processing, swap, data, Child)
  <2>1. CASE CanceledJob(job)
    BY <1>1, <2>1, CanceledKept
  <2>2. CASE LoadedJob(job)
    BY <1>1, <2>2, LoadedKept
  <2>3. CASE PreparedJob(job)
    <3>1. CASE srv' = [Rest EXCEPT !.db[job.key].storage = "memory"]
      BY <1>1, <2>3, <3>1, UnpreparedGood DEF PreparedJob
    <3>2. CASE /\ vmCanSwapOut
               /\ \E run \in FreeRuns(srv, PagesOf(job.val)) :
                    srv' = queueIOJob([Rest EXCEPT !.bitmap = @ \cup run],
                                      [job EXCEPT !.type = "swap", !.pages = run])
      <4>1. ~Child
        BY <3>2 DEF vmCanSwapOut, Child
      <4>2. QED
        BY <1>1, <2>3, <3>2, <4>1, PreparedGood DEF PreparedJob
    <3>3. QED
      BY <2>3, <3>1, <3>2 DEF PreparedJob
  <2>4. CASE SwappedJob(job)
    <3> DEFINE s == [Rest EXCEPT !.db[job.key] = createVmPointer(NewId(Rest, job.key), job.pages)]
    <3>1. /\ ~job.canceled /\ job.type = "swap"
          /\ srv' = s \/ \E k \in Swappable(s) : srv' = vmSwapObjectThreaded(s, k)
      BY <2>4 DEF SwappedJob
    <3>2. Good(s, processing, swap, data, Child)
      BY <1>1, <3>1, SwappedGood
    <3> HIDE DEF s
    <3>3. QED
      BY <3>1, <3>2, ThreadedGood
  <2>5. QED
    BY <1>1, <2>1, <2>2, <2>3, <2>4
<1>3. QED
  BY <1>1, <1>2, MainStep DEF Kept

LEMMA ThreadedKept ==
  ASSUME Kept, NEW k \in Keys, vmSwapOneObjectThreaded(k)
  PROVE  Kept'
<1>1. /\ k \in Swappable(srv) /\ srv' = vmSwapObjectThreaded(srv, k)
      /\ UNCHANGED <<processing, swap, cmd, saving, snapshot, data>>
  BY DEF vmSwapOneObjectThreaded
<1>2. Good(srv', processing, swap, data, Child)
  BY <1>1, KeptIs, ThreadedGood
<1>3. QED
  BY <1>1, <1>2, MainStep DEF Kept

-----------------------------------------------------------------------------
(* The threads.  A key may keep the pages it has,                            *)
LEMMA TradesSame ==
  ASSUME NEW s, NEW P, NEW file, NEW v, NEW child, Good(s, P, file, v, child), NEW k \in Keys
  PROVE  Trades(s.bitmap, Owned(s, P, k), Owned(s, P, k), s.bitmap)
<1>1. Partition(s.bitmap, Ownership(s, P))
  BY DEF Good
<1>2. Ownership(s, P)[k] = Owned(s, P, k)
  BY DEF Ownership
<1>3. Owned(s, P, k) \subseteq s.bitmap
  BY <1>1, <1>2 DEF Partition
<1>4. QED
  BY <1>3 DEF Trades

LEMMA TakeKept ==
  ASSUME Kept, TakeJob
  PROVE  Kept'
<1> DEFINE q == srv.newjobs
           j == Head(q)
           k == j.key
           o == srv.db[k]
           r == Tail(q)
           P == processing \cup {j}
<1>1. /\ q # <<>> /\ srv' = [srv EXCEPT !.newjobs = r] /\ processing' = P
      /\ UNCHANGED <<swap, cmd, saving, snapshot, data>>
  BY DEF TakeJob
<1>2. /\ j \in AnyJob /\ k \in Keys /\ Fits(j, o)
      /\ Ahead(j, {j}, {}, {}, Child)
      /\ Of(q, k) = {j} /\ At(processing, k) = {} /\ Of(srv.processed, k) = {}
  BY <1>1, KeptIs, NewJobIs
<1>3. /\ Queues(srv) /\ Typed(srv, processing, swap, data) /\ srv \in Servers
      /\ q \in Seq(AnyJob) /\ Distinct(q) /\ AllLive(q)
  BY KeptIs, ServerIs DEF Good, Queues
<1>4. Shortened(q, r, 1) /\ j = q[1]
  <2> HIDE DEF q
  <2>1. QED
    BY <1>1, <1>3, TailIsShortened
<1> HIDE DEF q, r, j
<1> DEFINE p == 1
<1> HIDE DEF p
<1>5. Shortened(q, r, p)
  BY <1>4 DEF p
<1>6. /\ Distinct(r) /\ ToSet(r) \subseteq ToSet(q)
      /\ ~q[p].canceled => Of(r, q[p].key) = {}
      /\ \A i : i # q[p].key \/ q[p].canceled => Of(r, i) = Of(q, i)
      /\ AllLive(q) => AllLive(r)
  BY <1>3, <1>5, ShortenedJobs
<1>7. /\ Distinct(r) /\ AllLive(r) /\ Of(r, k) = {} /\ r \in Seq(AnyJob)
      /\ \A i \in Keys \ {k} : Of(r, i) = Of(q, i)
  BY <1>2, <1>3, <1>4, <1>6 DEF p, Fits, Shortened
<1>8. At(P, k) = {j} /\ \A i \in Keys \ {k} : At(P, i) = At(processing, i)
  BY <1>2 DEF At
<1>9. P \in SUBSET AnyJob
  BY <1>2, <1>3 DEF Typed
<1> HIDE DEF P
<1>10. /\ srv' \in Servers /\ srv'.db = srv.db /\ srv'.bitmap = srv.bitmap
       /\ srv'.newjobs = r /\ srv'.processed = srv.processed
  BY <1>1, <1>3, <1>7 DEF Servers
<1>11. Typed(srv', P, swap, data) /\ Queues(srv')
  BY <1>3, <1>7, <1>9, <1>10 DEF Typed, Queues
<1>12. Elsewhere(srv, processing, data, srv', P, data, k)
  BY <1>7, <1>8, <1>10 DEF Elsewhere, q
<1>13. Ahead(j, {}, {j}, {}, Child)
  BY <1>2 DEF Ahead
<1>14. KeyGood(srv', P, swap, data, Child, k)
  <2>1. KeyGood(srv, processing, swap, data, Child, k)
    BY <1>2, KeptIs DEF Good
  <2>2. KeyOk(o, data[k], {}, {j}, {}, swap, Child)
    BY <1>2, <1>13, <2>1 DEF KeyOk, KeyGood
  <2>3. QED
    BY <1>2, <1>7, <1>8, <1>10, <2>2 DEF KeyGood
<1>15. Owned(srv', P, k) = Owned(srv, processing, k)
  BY <1>2, <1>7, <1>8, <1>10 DEF Owned, q
<1>16. k \in Keys /\ \A x \in srv.bitmap \ Owned(srv, processing, k) : swap[x] = swap[x]
  BY <1>2
<1> HIDE DEF k
<1>17. Trades(srv.bitmap, Owned(srv, processing, k), Owned(srv', P, k), srv'.bitmap)
  BY <1>10, <1>15, <1>16, KeptIs, TradesSame
<1>18. Good(srv', P, swap, data, Child)
  BY <1>11, <1>12, <1>14, <1>16, <1>17, KeptIs, KeyStep
<1>19. Child' = Child /\ Saves'
  BY <1>1 DEF Child, Saves, Kept
<1>20. Values'
  BY <1>1, <1>18, <1>19 DEF Values
<1>21. IsFiniteSet(processing')
  BY <1>1, FS_AddElement DEF Kept, P
<1>22. QED
  BY <1>1, <1>19, <1>20, <1>21 DEF Kept

LEMMA ExitKept ==
  ASSUME Kept, ExitThread
  PROVE  Kept'
<1>1. /\ srv' = [srv EXCEPT !.active = @ - 1]
      /\ UNCHANGED <<processing, swap, cmd, saving, snapshot, data>>
  BY DEF ExitThread
<1>2. /\ srv' \in Servers /\ srv'.db = srv.db /\ srv'.bitmap = srv.bitmap
      /\ srv'.newjobs = srv.newjobs /\ srv'.processed = srv.processed
  <2> DEFINE n == srv.active - 1
  <2>1. n \in Int /\ srv' = [srv EXCEPT !.active = n] /\ srv \in Servers
    BY <1>1, KeptIs, ServerIs
  <2> HIDE DEF n
  <2>2. QED
    BY <2>1 DEF Servers
<1>3. Typed(srv', processing, swap, data) /\ Queues(srv')
  BY <1>2, KeptIs DEF Typed, Queues, Good
<1>4. \A k \in Keys : /\ KeyGood(srv', processing, swap, data, Child, k)
                      /\ Owned(srv', processing, k) = Owned(srv, processing, k)
  BY <1>2, KeptIs DEF Good, KeyGood, Owned
<1>5. Ownership(srv', processing) = Ownership(srv, processing)
  BY <1>4 DEF Ownership
<1>6. Good(srv', processing, swap, data, Child)
  BY <1>2, <1>3, <1>4, <1>5, KeptIs DEF Good
<1>7. QED
  BY <1>1, <1>6, MainStep DEF Kept

(* A job is worked at: a value is written, or read.                          *)
LEMMA ProcessKept ==
  ASSUME ~SeekFails, Kept, NEW job \in processing, ProcessJob(job)
  PROVE  Kept'
<1> DEFINE k == job.key
           o == srv.db[k]
           done == IF job.type = "load" THEN [job EXCEPT !.val = ReadFrom(job.pages)] ELSE job
           g == IF job.type = "swap" THEN WrittenIn(swap, job.val, job.pages) ELSE swap
           P == processing \ {job}
           q == srv.processed
           r == Append(q, done)
<1>0. job \in AnyJob /\ ~job.canceled /\ [job EXCEPT !.canceled = FALSE] = job
  <2>1. job \in AnyJob /\ ~job.canceled
    BY KeptIs, BusyJobIs DEF Fits
  <2>2. QED
    BY <2>1 DEF AnyJob
<1>1. /\ srv' = [srv EXCEPT !.processed = r] /\ processing' = P /\ swap' = g
      /\ UNCHANGED <<cmd, saving, snapshot, data>>
  BY <1>0 DEF ProcessJob, Written, WrittenIn
<1>2. /\ job \in AnyJob /\ k \in Keys /\ Fits(job, o)
      /\ Ahead(job, {}, {job}, {}, Child)
      /\ Of(srv.newjobs, k) = {} /\ At(processing, k) = {job} /\ Of(q, k) = {}
  BY KeptIs, BusyJobIs
<1>3. /\ Queues(srv) /\ Typed(srv, processing, swap, data) /\ srv \in Servers
      /\ q \in Seq(AnyJob) /\ Distinct(q) /\ swap \in Files
  BY KeptIs, ServerIs DEF Good, Queues
<1>4. job.val \in Words /\ job.pages \in PageSets
  BY <1>2 DEF AnyJob
<1>5. ReadFrom(job.pages) = ReadIn(swap, job.pages) /\ ReadIn(swap, job.pages) \in Words
  BY <1>3, <1>4, ReadsSwap, ReadIsWord
<1>6. /\ done \in AnyJob /\ done.key = k /\ done.id = job.id /\ done.type = job.type
      /\ done.pages = job.pages /\ ~done.canceled
      /\ job.type = "load" => done.val = ReadIn(swap, job.pages)
      /\ job.type # "load" => done.val = job.val
  BY <1>2, <1>5 DEF AnyJob, Fits
<1> HIDE DEF done
<1>7. g \in Files /\ \A x \in (0..Pages - 1) \ job.pages : g[x] = swap[x]
  BY <1>3, <1>4, ReadWritten
<1>8. job.type = "swap" => ReadIn(g, job.pages) = job.val
  <2>1. job.type = "swap" => job.pages # {}
    BY <1>2 DEF Fits
  <2>2. QED
    BY <1>3, <1>4, <2>1, ReadWritten
<1>9. job.type # "swap" => g = swap
  OBVIOUS
<1> HIDE DEF g
<1>10. At(P, k) = {} /\ \A i \in Keys \ {k} : At(P, i) = At(processing, i)
  BY <1>2 DEF At
<1>11. P \in SUBSET AnyJob
  BY <1>3 DEF Typed
<1> HIDE DEF P, q
<1>12. Of(q, done.key) = {}
  BY <1>2, <1>6
<1>13. /\ r \in Seq(AnyJob) /\ Distinct(r)
       /\ Of(r, done.key) = IF done.canceled THEN {} ELSE {done}
       /\ \A i : i # done.key => Of(r, i) = Of(q, i)
       /\ AllLive(q) /\ ~done.canceled => AllLive(r)
  BY <1>3, <1>6, <1>12, AppendedJob
<1> HIDE DEF r
<1>14. Of(r, k) = {done} /\ \A i \in Keys \ {k} : Of(r, i) = Of(q, i)
  BY <1>6, <1>13
<1>15. /\ srv' \in Servers /\ srv'.db = srv.db /\ srv'.bitmap = srv.bitmap
       /\ srv'.newjobs = srv.newjobs /\ srv'.processed = r
  BY <1>1, <1>3, <1>13 DEF Servers
<1>16. Typed(srv', P, g, data) /\ Queues(srv')
  BY <1>3, <1>7, <1>11, <1>13, <1>15 DEF Typed, Queues
<1>17. Elsewhere(srv, processing, data, srv', P, data, k)
  BY <1>10, <1>14, <1>15 DEF Elsewhere, q
<1>18. /\ Swapped(o) => data[k] = ReadIn(swap, o.pages)
       /\ job.type = "load" => Swapped(o) /\ job.pages = o.pages
       /\ job.type # "load" => ~Swapped(o)
  <2>1. Swapped(o) => data[k] = ReadIn(swap, o.pages)
    BY <1>2, KeptIs, RestIs
  <2>2. QED
    BY <1>2, <2>1 DEF Fits, Swapped
<1>19. Fits(done, o)
  BY <1>2, <1>6 DEF Fits
<1>20. Over(done, data[k], {}, {}, {done}, g)
  BY <1>6, <1>8, <1>18 DEF Over
<1>21. Swapped(o) => data[k] = ReadIn(g, o.pages)
  <2>1. job.type \in {"load", "prepare", "swap"}
    BY <1>2 DEF AnyJob
  <2>2. QED
    BY <1>9, <1>18, <2>1
<1>22. KeyGood(srv', P, g, data, Child, k)
  <2>1. KeyGood(srv, processing, swap, data, Child, k)
    BY <1>2, KeptIs DEF Good
  <2>2. KeyOk(o, data[k], {}, {}, {done}, g, Child)
    BY <1>6, <1>19, <1>20, <1>21, <2>1 DEF KeyOk, KeyGood
  <2>3. QED
    BY <1>2, <1>10, <1>14, <1>15, <2>2 DEF KeyGood
<1>23. Owned(srv, processing, k) = job.pages
  <2>1. Owned(srv, processing, k) = OwnedBy(o, {job})
    BY <1>2 DEF Owned, q
  <2>2. QED
    BY <1>2, <2>1, JobOwns
<1>24. Owned(srv', P, k) = job.pages
  <2>1. Owned(srv', P, k) = OwnedBy(o, {done})
    BY <1>2, <1>10, <1>14, <1>15 DEF Owned
  <2>2. QED
    BY <1>6, <1>19, <2>1, JobOwns
<1>25. k \in Keys /\ \A x \in srv.bitmap \ Owned(srv, processing, k) : g[x] = swap[x]
  <2>1. srv.bitmap \in PageSets
    BY <1>3, ServerIs
  <2>2. QED
    BY <1>2, <1>7, <1>23, <2>1 DEF PageSets
<1> HIDE DEF k
<1>26. Trades(srv.bitmap, Owned(srv, processing, k), Owned(srv', P, k), srv'.bitmap)
  BY <1>15, <1>23, <1>24, <1>25, KeptIs, TradesSame
<1>27. Good(srv', P, g, data, Child)
  BY <1>16, <1>17, <1>22, <1>25, <1>26, KeptIs, KeyStep
<1>28. Child' = Child /\ Saves'
  <2>1. CASE job.type = "swap"
    <3>1. ~Child
      BY <1>2, <2>1 DEF Ahead
    <3>2. QED
      BY <1>1, <3>1 DEF Child, Saves, Kept
  <2>2. CASE job.type # "swap"
    BY <1>1, <1>9, <2>2 DEF Child, Saves, Kept
  <2>3. QED
    BY <2>1, <2>2
<1>29. Values'
  BY <1>1, <1>27, <1>28 DEF Values
<1>30. IsFiniteSet(processing')
  BY <1>1, FS_RemoveElement DEF Kept, P
<1>31. QED
  BY <1>1, <1>28, <1>29, <1>30 DEF Kept

-----------------------------------------------------------------------------
(* The child.  There is nothing on its way when it begins.                   *)
LEMMA ForkKept ==
  ASSUME Kept, fork
  PROVE  Kept'
<1>1. /\ saving = "waits" /\ saving' = "child" /\ srv.newjobs = <<>> /\ processing = {}
      /\ snapshot' = {[pages |-> srv.db[k].pages, val |-> data[k]] : k \in {j \in Keys : Swapped(srv.db[j])}}
      /\ UNCHANGED <<srv, processing, swap, cmd, data>>
  BY DEF fork
<1>2. Child' /\ ~Child
  BY <1>1 DEF Child
<1>3. \A k \in Keys : Of(srv.newjobs, k) = {} /\ At(processing, k) = {}
  BY <1>1 DEF Of, At, ToSet
<1>4. ASSUME NEW k \in Keys
      PROVE  KeyGood(srv, processing, swap, data, Child', k)
  <2>1. KeyGood(srv, processing, swap, data, Child, k)
    BY KeptIs DEF Good
  <2>2. QED
    BY <1>3, <2>1 DEF KeyGood, KeyOk, Ahead
<1>5. Good(srv, processing, swap, data, Child')
  BY <1>4, KeptIs DEF Good
<1>6. Values'
  BY <1>1, <1>5 DEF Values
<1>7. \A x \in snapshot' : x.pages \in PageSets /\ ReadIn(swap, x.pages) = x.val
  <2>1. \A k \in Keys : srv.db[k] \in Objects
    BY KeptIs, RestIs
  <2>2. \A k \in Keys : Swapped(srv.db[k]) => data[k] = ReadIn(swap, srv.db[k].pages)
    BY KeptIs, RestIs
  <2>3. QED
    BY <1>1, <2>1, <2>2 DEF Objects
<1>8. Saves'
  BY <1>1, <1>7 DEF Saves
<1>9. QED
  BY <1>1, <1>6, <1>8 DEF Kept

LEMMA SaveKept ==
  ASSUME Kept, rdbSaveBackground \/ backgroundSaveDone
  PROVE  Kept'
<1>1. /\ saving' \in {"no", "waits"} /\ snapshot' \subseteq snapshot
      /\ saving # "child" \/ snapshot' = {}
      /\ UNCHANGED <<srv, processing, swap, cmd, data>>
  BY DEF rdbSaveBackground, backgroundSaveDone
<1>2. ~Child'
  BY <1>1 DEF Child
<1>3. ASSUME NEW k \in Keys
      PROVE  KeyGood(srv, processing, swap, data, Child', k)
  <2>1. KeyGood(srv, processing, swap, data, Child, k)
    BY KeptIs DEF Good
  <2>2. QED
    BY <1>2, <2>1 DEF KeyGood, KeyOk, Ahead
<1>4. Good(srv, processing, swap, data, Child')
  BY <1>3, KeptIs DEF Good
<1>5. Values'
  BY <1>1, <1>4 DEF Values
<1>6. Saves'
  BY <1>1 DEF Saves, Kept
<1>7. QED
  BY <1>1, <1>5, <1>6 DEF Kept

-----------------------------------------------------------------------------
LEMMA KeptInit == Init => Kept
<1> SUFFICES ASSUME Init PROVE Kept
  OBVIOUS
<1>1. /\ srv = [db |-> [k \in Keys |-> None], bitmap |-> {}, newjobs |-> <<>>, processed |-> <<>>,
                active |-> 0, waits |-> [c \in Clients |-> <<>>],
                waiters |-> [k \in Keys |-> <<>>], ready |-> <<>>]
      /\ processing = {} /\ swap = [p \in 0..Pages - 1 |-> "none"]
      /\ cmd = [c \in Clients |-> Nothing] /\ saving = "no" /\ snapshot = {}
      /\ data = [k \in Keys |-> "none"]
  BY DEF Init
<1>2. srv \in Servers
  <2>1. [k \in Keys |-> None] \in [Keys -> Objects] /\ {} \in PageSets
    BY NoneIs DEF PageSets
  <2>2. /\ <<>> \in Seq(AnyJob) /\ <<>> \in Seq(Clients)
        /\ [c \in Clients |-> <<>>] \in [Clients -> Seq(Keys)]
        /\ [k \in Keys |-> <<>>] \in [Keys -> Seq(Clients)]
    OBVIOUS
  <2>3. QED
    BY <1>1, <2>1, <2>2 DEF Servers
<1>3. Typed(srv, processing, swap, data)
  BY <1>1, <1>2 DEF Typed, Files, Contents, Words
<1>4. srv.newjobs = <<>> /\ srv.processed = <<>> /\ srv.bitmap = {}
      /\ \A k \in Keys : srv.db[k] = None
  BY <1>1
<1>5. Queues(srv)
  BY <1>4 DEF Queues, Distinct, AllLive
<1>6. ASSUME NEW k \in Keys
      PROVE  /\ KeyGood(srv, processing, swap, data, Child, k)
             /\ Owned(srv, processing, k) = {}
  <2>1. Of(srv.newjobs, k) = {} /\ At(processing, k) = {} /\ Of(srv.processed, k) = {}
    BY <1>1, <1>4 DEF Of, At, ToSet
  <2>2. srv.db[k] = None /\ data[k] = "none"
    BY <1>1, <1>4
  <2>3. KeyOk(None, "none", {}, {}, {}, swap, Child)
    BY DEF KeyOk, AtRest, None, Swapped
  <2>4. OwnedBy(None, {}) = {}
    BY DEF OwnedBy, None, Swapped
  <2>5. QED
    BY <2>1, <2>2, <2>3, <2>4 DEF KeyGood, Owned
<1>7. Partition(srv.bitmap, Ownership(srv, processing))
  BY <1>4, <1>6 DEF Partition, Ownership
<1>8. Values
  BY <1>3, <1>5, <1>6, <1>7 DEF Values, Good
<1>9. QED
  BY <1>1, <1>8, FS_EmptySet DEF Kept, Saves

LEMMA KeptNext ==
  ASSUME ~SeekFails, Kept, [Next]_vars
  PROVE  Kept'
<1>1. CASE \E c \in Clients : freeClient(c) \/ \E command \in Commands : processCommand(c, command)
  BY <1>1, FreeKept, CommandKept
<1>2. CASE \E k \in Keys : delCommand(k)
  BY <1>2, DelKept
<1>3. CASE \E set \in Sets : setKey(set[1], set[2])
  <2>1. PICK set \in Sets : setKey(set[1], set[2])
    BY <1>3
  <2>2. set[1] \in Keys /\ set[2] \in Vals
    BY VirtualMemoryAssumption
  <2>3. QED
    BY <2>1, <2>2, SetKept
<1>4. CASE flushdbCommand
  BY <1>4, FlushKept
<1>5. CASE Resume
  BY <1>5, ResumeKept
<1>6. CASE \E k \in Keys : vmSwapOneObjectThreaded(k) \/ vmSwapObjectBlocking(k)
  BY <1>6, ThreadedKept, BlockingKept
<1>7. CASE vmThreadedIOCompletedJob
  BY <1>7, CompletedKept
<1>8. CASE IOThread
  BY <1>8, TakeKept, ExitKept, ProcessKept DEF IOThread
<1>9. CASE rdbSaveBackground \/ backgroundSaveDone
  BY <1>9, SaveKept
<1>10. CASE fork
  BY <1>10, ForkKept
<1>11. CASE UNCHANGED vars
  <2>1. Child' = Child /\ UNCHANGED <<srv, processing, swap, cmd, saving, snapshot, data>>
    BY <1>11 DEF vars, Child
  <2>2. Good(srv', processing, swap, data', Child)
    BY <2>1, KeptIs
  <2>3. QED
    BY <2>1, <2>2, MainStep DEF Kept
<1>12. QED
  BY <1>1, <1>2, <1>3, <1>4, <1>5, <1>6, <1>7, <1>8, <1>9, <1>10, <1>11 DEF Next

(* A job that is not cancelled is the only one of its key.                   *)
LEMMA LiveJobIs ==
  ASSUME Kept, NEW j \in Live
  PROVE  /\ j.key \in Keys /\ Fits(j, srv.db[j.key])
         /\ Of(srv.newjobs, j.key) \cup At(processing, j.key) \cup Of(srv.processed, j.key) = {j}
         /\ j.type = "load" => j.val \in {"none", data[j.key]}
<1> DEFINE k == j.key
           n == Of(srv.newjobs, k)
           p == At(processing, k)
           d == Of(srv.processed, k)
<1>1. j \in ToSet(srv.newjobs) \cup processing \cup ToSet(srv.processed) /\ ~j.canceled
  BY DEF Live, Jobs
<1>2. j \in AnyJob
  <2>1. srv.newjobs \in Seq(AnyJob) /\ srv.processed \in Seq(AnyJob) /\ processing \in SUBSET AnyJob
    BY KeptIs, ServerIs DEF Typed
  <2>2. ToSet(srv.newjobs) \subseteq AnyJob /\ ToSet(srv.processed) \subseteq AnyJob
    BY <2>1 DEF ToSet
  <2>3. QED
    BY <1>1, <2>1, <2>2
<1>3. k \in Keys /\ j \in n \cup p \cup d
  BY <1>1, <1>2 DEF AnyJob, Of, At
<1>4. ~Resting(srv.db[k])
  BY <1>3, KeptIs, RestIs
<1>5. PICK i \in AnyJob :
        /\ Fits(i, srv.db[k])
        /\ Ahead(i, n, p, d, Child) \/ Over(i, data[k], n, p, d, swap)
  BY <1>3, <1>4, KeptIs, RestIs
<1> HIDE DEF k, n, p, d
<1>6. n \cup p \cup d = {i} /\ i = j
  BY <1>3, <1>5 DEF Ahead, Over
<1>7. j.type = "load" => j.val \in {"none", data[k]}
  BY <1>5, <1>6 DEF Ahead, Over
<1>8. QED
  BY <1>3, <1>5, <1>6, <1>7 DEF k, n, p, d

LEMMA OwnersAre ==
  ASSUME Kept
  PROVE  /\ \A o \in Owners : o.of \in Keys /\ o = [of |-> o.of, pages |-> Owned(srv, processing, o.of)]
         /\ \A k \in Keys : Owned(srv, processing, k) # {} =>
              \E o \in Owners : o.pages = Owned(srv, processing, k)
<1>1. ASSUME NEW k \in Keys, Swapped(srv.db[k])
      PROVE  Owned(srv, processing, k) = srv.db[k].pages
  BY <1>1 DEF Owned, OwnedBy
<1>2. ASSUME NEW j \in Live
      PROVE  j.key \in Keys /\ Owned(srv, processing, j.key) = j.pages
  <2>1. j.key \in Keys /\ Fits(j, srv.db[j.key])
        /\ Of(srv.newjobs, j.key) \cup At(processing, j.key) \cup Of(srv.processed, j.key) = {j}
    BY LiveJobIs
  <2>2. Owned(srv, processing, j.key) = OwnedBy(srv.db[j.key], {j})
    BY <2>1 DEF Owned
  <2>3. QED
    BY <2>1, <2>2, JobOwns
<1>3. ASSUME NEW o \in Owners
      PROVE  o.of \in Keys /\ o = [of |-> o.of, pages |-> Owned(srv, processing, o.of)]
  <2>1. CASE \E k \in Keys : Swapped(srv.db[k]) /\ o = [of |-> k, pages |-> srv.db[k].pages]
    BY <1>1, <2>1
  <2>2. CASE \E j \in Live : o = [of |-> j.key, pages |-> j.pages]
    BY <1>2, <2>2
  <2>3. QED
    BY <2>1, <2>2 DEF Owners
<1>4. ASSUME NEW k \in Keys, Owned(srv, processing, k) # {}
      PROVE  \E o \in Owners : o.pages = Owned(srv, processing, k)
  <2>1. CASE Swapped(srv.db[k])
    <3>1. [of |-> k, pages |-> srv.db[k].pages] \in Owners
      BY <2>1 DEF Owners
    <3>2. QED
      BY <1>1, <2>1, <3>1
  <2>2. CASE ~Swapped(srv.db[k])
    <3>1. PICK j \in Of(srv.newjobs, k) \cup At(processing, k) \cup Of(srv.processed, k) : j.pages # {}
      BY <1>4, <2>2 DEF Owned, OwnedBy
    <3>2. ~Resting(srv.db[k])
      BY <3>1, KeptIs, RestIs
    <3>3. PICK i \in AnyJob :
            /\ Fits(i, srv.db[k])
            /\ \/ Ahead(i, Of(srv.newjobs, k), At(processing, k), Of(srv.processed, k), Child)
               \/ Over(i, data[k], Of(srv.newjobs, k), At(processing, k), Of(srv.processed, k), swap)
      BY <3>2, KeptIs, RestIs
    <3>4. i = j
      BY <3>1, <3>3 DEF Ahead, Over
    <3>5. j.type = "swap" /\ ~j.canceled
      BY <2>2, <3>1, <3>3, <3>4 DEF Fits, Swapped, AnyJob
    <3>6. j \in Live /\ j.key = k
      BY <3>1, <3>5 DEF Live, Jobs, Of, At
    <3>7. [of |-> j.key, pages |-> j.pages] \in Owners
      BY <3>5, <3>6 DEF Owners
    <3>8. QED
      BY <1>2, <3>6, <3>7
  <2>3. QED
    BY <2>1, <2>2
<1>5. QED
  BY <1>3, <1>4

LEMMA KeptValues == Kept => ValuesSurvive
<1> SUFFICES ASSUME Kept PROVE ValuesSurvive
  OBVIOUS
<1> DEFINE own == Ownership(srv, processing)
<1>1. Partition(srv.bitmap, own)
  BY KeptIs DEF Good
<1>2. \A k \in Keys : own[k] = Owned(srv, processing, k)
  BY DEF Ownership
<1> HIDE DEF own
<1>3. \A o \in Owners : o.of \in Keys /\ o.pages = own[o.of] /\ o = [of |-> o.of, pages |-> own[o.of]]
  <2> SUFFICES ASSUME NEW o \in Owners
               PROVE  o.of \in Keys /\ o.pages = own[o.of] /\ o = [of |-> o.of, pages |-> own[o.of]]
    OBVIOUS
  <2>1. o.of \in Keys /\ o = [of |-> o.of, pages |-> own[o.of]]
    BY <1>2, OwnersAre
  <2>2. QED
    BY <2>1
<1>4. \A k \in Keys : own[k] # {} => \E o \in Owners : o.pages = own[k]
  BY <1>2, OwnersAre
<1>5. srv.bitmap = UNION {o.pages : o \in Owners}
  BY <1>1, <1>3, <1>4 DEF Partition
<1>6. \A o, p \in Owners : o # p => o.pages \cap p.pages = {}
  BY <1>1, <1>3 DEF Partition
<1>7. ASSUME NEW k \in Keys
      PROVE  IF srv.db[k] = None THEN data[k] = "none"
             ELSE data[k] = IF Swapped(srv.db[k]) THEN ReadFrom(srv.db[k].pages) ELSE srv.db[k].val
  <2>1. srv.db[k] = None => data[k] = "none"
    BY KeptIs, RestIs, NoneIs
  <2>2. srv.db[k].storage \in {"none", "memory", "swapping", "loading", "swapped"}
    BY KeptIs, RestIs DEF Objects
  <2>3. CASE srv.db[k].storage = "none"
    BY <2>1, <2>3, KeptIs, RestIs
  <2>4. CASE srv.db[k].storage \in {"memory", "swapping"}
    BY <2>4, KeptIs, RestIs, NoneIs DEF Swapped
  <2>5. CASE Swapped(srv.db[k])
    BY <2>5, KeptIs, RestIs, NoneIs, ReadsSwap DEF Swapped
  <2>6. QED
    BY <2>2, <2>3, <2>4, <2>5 DEF Swapped
<1>8. \A j \in Live : j.type = "load" /\ j.val # "none" => j.val = data[j.key]
  BY LiveJobIs
<1>9. QED
  BY <1>5, <1>6, <1>7, <1>8 DEF ValuesSurvive

LEMMA KeptSaved ==
  ASSUME ~SwapWhileSaving, Kept
  PROVE  SavedValuesSurvive
BY ReadsSwap DEF Kept, Saves, SavedValuesSurvive

(* Unless a write of a thread fails (vm.c:836), and whatever is cancelled,   *)
(* loaded, overwritten or deleted while threads read and write the file      *)
(* (vmCancelThreadedIOJob, vmLoadObject, IOThreadEntryPoint,                 *)
(* vmThreadedIOCompletedJob, in any order, and whether a child saves or      *)
(* not): no page belongs to two, the bitmap marks the pages in use, and      *)
(* every value is where its key is going to read it.                         *)
THEOREM ValuesAreKept == ~SeekFails => (Spec => []ValuesSurvive)
<1> SUFFICES ASSUME ~SeekFails PROVE Spec => []ValuesSurvive
  OBVIOUS
<1>1. Init => Kept
  BY KeptInit
<1>2. Kept /\ [Next]_vars => Kept'
  BY KeptNext
<1>3. Kept => ValuesSurvive
  BY KeptValues
<1>4. QED
  BY <1>1, <1>2, <1>3, PTL DEF Spec

(* If, besides, nothing is swapped without asking vmCanSwapOut (no dump is   *)
(* loaded while a child saves, and DEBUG SWAPOUT is not used), a child finds *)
(* every value that was swapped at its fork on its pages, until it is done.  *)
THEOREM SavedValuesAreKept ==
  ~SeekFails /\ ~SwapWhileSaving => (Spec => []SavedValuesSurvive)
<1> SUFFICES ASSUME ~SeekFails, ~SwapWhileSaving PROVE Spec => []SavedValuesSurvive
  OBVIOUS
<1>1. Init => Kept
  BY KeptInit
<1>2. Kept /\ [Next]_vars => Kept'
  BY KeptNext
<1>3. Kept => SavedValuesSurvive
  BY KeptSaved
<1>4. QED
  BY <1>1, <1>2, <1>3, PTL DEF Spec

-----------------------------------------------------------------------------
(* The invariant of the clients: the two lists of who waits for what agree,  *)
(* a client that has a command to resume is in the list of those that are    *)
(* ready once, or waits, and what is waited for is on its way.               *)
Linked(s) == \A c \in Clients, k \in Keys : Occurs(s.waits[c], k) = Occurs(s.waiters[k], c)
CalledOne(s, x, c) ==
  /\ Occurs(s.ready, c) = IF x # Nothing /\ s.waits[c] = <<>> THEN 1 ELSE 0
  /\ s.waits[c] # <<>> => x # Nothing
Called(s, cm) == \A c \in Clients : CalledOne(s, cm[c], c)
Bring(s) == \A k \in Keys : s.waiters[k] # <<>> => s.db[k].storage = "loading"
Sleeps(s, cm) == s \in Servers /\ Linked(s) /\ Called(s, cm) /\ Bring(s)

(* The list of those that are ready grows at its end.                        *)
Extends(q, r) == Len(q) <= Len(r) /\ \A i \in 1..Len(q) : r[i] = q[i]

LEMMA ExtendsAppend ==
  ASSUME NEW S, NEW q \in Seq(S), NEW x \in S
  PROVE  Extends(q, q) /\ Extends(q, Append(q, x))
BY DEF Extends

LEMMA ExtendsTwice ==
  ASSUME NEW S, NEW q \in Seq(S), NEW r \in Seq(S), NEW u \in Seq(S), Extends(q, r), Extends(r, u)
  PROVE  Extends(q, u)
<1>1. Len(q) \in Nat /\ Len(r) \in Nat /\ Len(u) \in Nat
  OBVIOUS
<1>2. QED
  BY <1>1 DEF Extends

(* Someone is in a list that is not empty only.                              *)
LEMMA WaitersAre ==
  ASSUME NEW s \in Servers, NEW c \in Clients, NEW k \in Keys
  PROVE  /\ s.waits[c] \in Seq(Keys) /\ s.waiters[k] \in Seq(Clients) /\ s.ready \in Seq(Clients)
         /\ Occurs(s.waits[c], k) \in Nat /\ Occurs(s.waiters[k], c) \in Nat
         /\ Occurs(s.ready, c) \in Nat
         /\ s.waits[c] = <<>> => Occurs(s.waits[c], k) = 0
         /\ s.waiters[k] = <<>> => Occurs(s.waiters[k], c) = 0
<1>1. /\ s.waits[c] \in Seq(Keys) /\ s.waiters[k] \in Seq(Clients) /\ s.ready \in Seq(Clients)
  BY ServerIs
<1>2. QED
  BY <1>1, OccursIs, NoneOccurs

(* Nothing changes in the lists, and what is waited for stays on its way.    *)
LEMMA StillSleeps ==
  ASSUME NEW s, NEW cm, Sleeps(s, cm), NEW t \in Servers, Still(s, t),
         \A k \in Keys : s.db[k].storage = "loading" /\ s.waiters[k] # <<>> => t.db[k].storage = "loading"
  PROVE  Sleeps(t, cm)
<1>1. Linked(t) /\ Called(t, cm)
  BY DEF Sleeps, Still, Linked, Called, CalledOne
<1>2. Bring(t)
  BY DEF Sleeps, Still, Bring
<1>3. QED
  BY <1>1, <1>2 DEF Sleeps

LEMMA AloneSleeps ==
  ASSUME NEW s, NEW cm, Sleeps(s, cm), NEW t \in Servers, Still(s, t), NEW k \in Keys,
         AloneIn(s, t, k), s.waiters[k] = <<>> \/ s.db[k].storage # "loading"
  PROVE  Sleeps(t, cm)
<1>1. ASSUME NEW i \in Keys, s.db[i].storage = "loading", s.waiters[i] # <<>>
      PROVE  t.db[i].storage = "loading"
  BY <1>1 DEF AloneIn
<1>2. QED
  BY <1>1, StillSleeps

(* A client is taken off the list of a key, where it is the first, and told  *)
(* when it has nothing more to wait for.                                     *)
LEMMA UnlinkedIs ==
  ASSUME NEW s \in Servers, Linked(s), NEW c \in Clients, NEW k \in Keys,
         Occurs(s.waits[c], k) # 0 \/ Occurs(s.waiters[k], c) # 0,
         NEW t \in Servers,
         t.waits = [s.waits EXCEPT ![c] = RemoveFirst(s.waits[c], k)],
         t.waiters = [s.waiters EXCEPT ![k] = RemoveFirst(s.waiters[k], c)]
  PROVE  Linked(t) /\ s.waits[c] # <<>>
<1> DEFINE q == s.waits[c]
           r == s.waiters[k]
<1>1. q \in Seq(Keys) /\ r \in Seq(Clients) /\ Occurs(q, k) \in Nat /\ Occurs(r, c) \in Nat
  BY WaitersAre
<1>2. Occurs(q, k) = Occurs(r, c) /\ Occurs(q, k) # 0
  BY DEF Linked
<1>3. s.waits \in [Clients -> Seq(Keys)] /\ s.waiters \in [Keys -> Seq(Clients)]
  BY ServerIs
<1>4. /\ t.waits[c] = RemoveFirst(q, k) /\ \A d \in Clients \ {c} : t.waits[d] = s.waits[d]
      /\ t.waiters[k] = RemoveFirst(r, c) /\ \A i \in Keys \ {k} : t.waiters[i] = s.waiters[i]
  BY <1>3
<1> HIDE DEF q, r
<1>5. /\ q # <<>> /\ Occurs(RemoveFirst(q, k), k) = Occurs(q, k) - 1
      /\ \A i : i # k => Occurs(RemoveFirst(q, k), i) = Occurs(q, i)
  BY <1>1, <1>2, RemovedFirst
<1>6. /\ Occurs(RemoveFirst(r, c), c) = Occurs(r, c) - 1
      /\ \A d : d # c => Occurs(RemoveFirst(r, c), d) = Occurs(r, d)
  BY <1>1, <1>2, RemovedFirst
<1>7. ASSUME NEW d \in Clients, NEW i \in Keys
      PROVE  Occurs(t.waits[d], i) = Occurs(t.waiters[i], d)
  <2>1. Occurs(s.waits[d], i) = Occurs(s.waiters[i], d)
    BY DEF Linked
  <2>2. CASE d = c /\ i = k
    BY <1>2, <1>4, <1>5, <1>6, <2>2
  <2>3. CASE d = c /\ i # k
    BY <1>4, <1>5, <2>1, <2>3 DEF q
  <2>4. CASE d # c /\ i = k
    BY <1>4, <1>6, <2>1, <2>4 DEF r
  <2>5. CASE d # c /\ i # k
    BY <1>4, <2>1, <2>5
  <2>6. QED
    BY <2>2, <2>3, <2>4, <2>5
<1>8. QED
  BY <1>5, <1>7 DEF Linked, q

IsFirst(q, x) == q # <<>> /\ q[1] = x

LEMMA WokenLinks ==
  ASSUME NEW s \in Servers, NEW cm, Linked(s), Called(s, cm), NEW c \in Clients, NEW k \in Keys,
         IsFirst(s.waiters[k], c)
  PROVE  LET t == Woken(s, c, k)
         IN  /\ t \in Servers /\ Linked(t) /\ Called(t, cm)
             /\ t.waiters[k] = Tail(s.waiters[k])
             /\ \A i \in Keys \ {k} : t.waiters[i] = s.waiters[i]
             /\ Extends(s.ready, t.ready)
<1> DEFINE t == Woken(s, c, k)
           r == s.waiters[k]
<1>1. /\ t \in Servers /\ SameValues(s, t)
      /\ t.waits = [s.waits EXCEPT ![c] = RemoveFirst(s.waits[c], k)]
      /\ t.waiters = [s.waiters EXCEPT ![k] = RemoveFirst(s.waiters[k], c)]
      /\ t.ready = IF t.waits[c] = <<>> THEN Append(s.ready, c) ELSE s.ready
  BY WokenIs DEF Unlisted
<1> HIDE DEF t
<1>2. /\ s.waits \in [Clients -> Seq(Keys)] /\ s.waiters \in [Keys -> Seq(Clients)]
      /\ r \in Seq(Clients) /\ s.ready \in Seq(Clients)
  BY ServerIs
<1>3. r # <<>> /\ r[1] = c
  BY DEF IsFirst
<1>4. t.waiters[k] = RemoveFirst(r, c) /\ \A i \in Keys \ {k} : t.waiters[i] = s.waiters[i]
  BY <1>1, <1>2
<1> HIDE DEF r
<1>5. Occurs(r, c) # 0
  <2>1. 1 \in DOMAIN r
    BY <1>2, <1>3
  <2>2. c \in ToSet(r)
    BY <1>3, <2>1 DEF ToSet
  <2>3. QED
    BY <1>2, <2>2, OccursIs
<1>6. RemoveFirst(r, c) = Tail(r)
  BY <1>2, <1>3, RemovedFirst
<1>7. Linked(t) /\ s.waits[c] # <<>>
  BY <1>1, <1>5, UnlinkedIs DEF r
<1>8. Extends(s.ready, t.ready)
  <2>1. Extends(s.ready, s.ready) /\ Extends(s.ready, Append(s.ready, c))
    BY <1>2, ExtendsAppend
  <2>2. QED
    BY <1>1, <2>1
<1>9. /\ Occurs(Append(s.ready, c), c) = Occurs(s.ready, c) + 1
      /\ \A d : d # c => Occurs(Append(s.ready, c), d) = Occurs(s.ready, d)
  BY <1>2, OccursInAppended
<1>10. ASSUME NEW d \in Clients
       PROVE  CalledOne(t, cm[d], d)
  <2>1. CalledOne(s, cm[d], d) /\ CalledOne(s, cm[c], c)
    BY DEF Called
  <2>2. CASE d # c
    <3>1. t.waits[d] = s.waits[d]
      BY <1>1, <1>2, <2>2
    <3>2. Occurs(t.ready, d) = Occurs(s.ready, d)
      BY <1>1, <1>9, <2>2
    <3>3. QED
      BY <2>1, <3>1, <3>2 DEF CalledOne
  <2>3. CASE d = c
    <3>1. cm[c] # Nothing /\ Occurs(s.ready, c) = 0
      BY <1>7, <2>1 DEF CalledOne
    <3>2. QED
      BY <1>1, <1>9, <2>3, <3>1 DEF CalledOne
  <2>4. QED
    BY <2>2, <2>3
<1>11. Called(t, cm)
  BY <1>10 DEF Called
<1>12. QED
  BY <1>1, <1>4, <1>6, <1>7, <1>8, <1>11 DEF t, r

(* What is left of a list from which the first is taken again and again      *)
Suffix(q, i) == [m \in 1..Len(q) - i |-> q[m + i]]

LEMMA SuffixIs ==
  ASSUME NEW S, NEW q \in Seq(S)
  PROVE  /\ Suffix(q, 0) = q /\ Suffix(q, Len(q)) = <<>>
         /\ \A i \in 1..Len(q) :
              /\ Suffix(q, i - 1) # <<>> /\ Suffix(q, i - 1)[1] = q[i]
              /\ Tail(Suffix(q, i - 1)) = Suffix(q, i)
<1>1. Len(q) \in Nat /\ \A i \in 1..Len(q) : q[i] \in S
  OBVIOUS
<1>2. Suffix(q, 0) = q
  BY <1>1 DEF Suffix
<1>3. Suffix(q, Len(q)) = <<>>
  BY <1>1 DEF Suffix
<1>4. ASSUME NEW i \in 1..Len(q)
      PROVE  /\ Suffix(q, i - 1) # <<>> /\ Suffix(q, i - 1)[1] = q[i]
             /\ Tail(Suffix(q, i - 1)) = Suffix(q, i)
  <2> DEFINE r == Suffix(q, i - 1)
             n == Len(q) - (i - 1)
  <2>1. n \in Nat \ {0} /\ r = [m \in 1..n |-> q[m + (i - 1)]]
    BY <1>1 DEF Suffix
  <2>2. r \in Seq(S) /\ Len(r) = n /\ r[1] = q[i]
    <3>1. \A m \in 1..n : q[m + (i - 1)] \in S
      BY <1>1
    <3> HIDE DEF n
    <3> HIDE DEF r
    <3>2. r \in Seq(S) /\ Len(r) = n
      <4>1. r \in [1..n -> S] /\ n \in Nat
        BY <2>1, <3>1
      <4>2. QED
        BY <4>1
    <3>3. r[1] = q[1 + (i - 1)]
      BY <2>1
    <3>4. QED
      BY <3>2, <3>3
  <2>3. \A m \in 1..n : r[m] = q[m + (i - 1)]
    BY <2>1
  <2> HIDE DEF r
  <2>4. r # <<>>
    BY <2>1, <2>2
  <2>5. Tail(r) = Suffix(q, i)
    <3>1. Tail(r) = [m \in 1..n - 1 |-> r[m + 1]]
      BY <2>1, <2>2, <2>4
    <3>2. \A m \in 1..n - 1 : r[m + 1] = q[m + i]
      BY <2>1, <2>3
    <3>3. n - 1 = Len(q) - i
      BY <1>1
    <3> HIDE DEF n
    <3>4. QED
      BY <3>1, <3>2, <3>3 DEF Suffix
  <2>6. QED
    BY <2>2, <2>4, <2>5 DEF r
<1>5. QED
  BY <1>2, <1>3, <1>4

(* All the clients that wait for a key are told.                             *)
Told(s, t, cm, k) ==
  /\ Linked(t) /\ Called(t, cm)
  /\ \A i \in Keys \ {k} : t.waiters[i] = s.waiters[i]
  /\ Extends(s.ready, t.ready)

LEMMA HandleTells ==
  ASSUME NEW s \in Servers, NEW cm, Linked(s), Called(s, cm), NEW k \in Keys
  PROVE  LET t == handleClientsBlockedOnSwappedKey(s, k)
         IN  t \in Servers /\ Told(s, t, cm, k) /\ t.waiters[k] = <<>>
<1> DEFINE q == s.waiters[k]
           n == Len(q)
<1>0. n \in Nat /\ q \in Seq(Clients) /\ \A i \in 1..n : q[i] \in Clients
  <2>1. q \in Seq(Clients)
    BY ServerIs
  <2>2. QED
    BY <2>1
<1>1. PICK run \in [0..n -> Servers] :
        /\ run[0] = s
        /\ \A i \in 1..n : run[i] = Woken(run[i - 1], q[i], k)
        /\ handleClientsBlockedOnSwappedKey(s, k) = run[n]
  BY HandleRuns
<1>2. s.ready \in Seq(Clients) /\ Extends(s.ready, s.ready)
  <2>1. s.ready \in Seq(Clients)
    BY ServerIs
  <2>2. QED
    BY <2>1 DEF Extends
<1> DEFINE G == {i \in 0..n : Told(s, run[i], cm, k) /\ run[i].waiters[k] = Suffix(q, i)}
<1>3. 0 \in G
  <2>1. Told(s, s, cm, k)
    BY <1>2 DEF Told
  <2> HIDE DEF q
  <2>2. Suffix(q, 0) = q
    BY <1>0, SuffixIs
  <2>3. QED
    BY <1>0, <1>1, <2>1, <2>2 DEF q
<1> HIDE DEF n, q
<1>4. ASSUME NEW i \in 1..n, i - 1 \in G
      PROVE  i \in G
  <2> DEFINE a == run[i - 1]
             b == run[i]
             c == q[i]
  <2>1. a \in Servers /\ c \in Clients /\ b = Woken(a, c, k)
    <3>1. i - 1 \in 0..n
      BY <1>0
    <3>2. QED
      BY <1>0, <1>1, <3>1
  <2>2. Told(s, a, cm, k) /\ a.waiters[k] = Suffix(q, i - 1)
    BY <1>4
  <2>3. IsFirst(a.waiters[k], c) /\ Tail(a.waiters[k]) = Suffix(q, i)
    BY <1>0, <2>2, SuffixIs DEF n, IsFirst
  <2> HIDE DEF a, b, c
  <2>4. /\ b \in Servers /\ Linked(b) /\ Called(b, cm)
        /\ b.waiters[k] = Tail(a.waiters[k])
        /\ \A j \in Keys \ {k} : b.waiters[j] = a.waiters[j]
        /\ Extends(a.ready, b.ready)
    <3>1. Linked(a) /\ Called(a, cm)
      BY <2>2 DEF Told
    <3> DEFINE t == Woken(a, c, k)
    <3>2. /\ t \in Servers /\ Linked(t) /\ Called(t, cm)
          /\ t.waiters[k] = Tail(a.waiters[k])
          /\ \A j \in Keys \ {k} : t.waiters[j] = a.waiters[j]
          /\ Extends(a.ready, t.ready)
      BY <2>1, <2>3, <3>1, WokenLinks
    <3>3. b = t
      BY <2>1
    <3> HIDE DEF t
    <3>4. QED
      BY <3>2, <3>3
  <2>5. Extends(s.ready, b.ready)
    <3>1. a.ready \in Seq(Clients) /\ b.ready \in Seq(Clients) /\ Extends(s.ready, a.ready)
      BY <2>1, <2>2, <2>4, ServerIs DEF Told
    <3>2. QED
      BY <1>2, <2>4, <3>1, ExtendsTwice
  <2>6. Told(s, b, cm, k) /\ b.waiters[k] = Suffix(q, i)
    BY <2>2, <2>3, <2>4, <2>5 DEF Told
  <2>7. QED
    BY <2>6 DEF b
<1>5. \A i \in 1..n : i - 1 \in G => i \in G
  BY <1>4
<1>6. n \in G
  <2> HIDE DEF G
  <2>1. QED
    BY <1>0, <1>3, <1>5, IndexInduction
<1>7. Suffix(q, n) = <<>>
  BY <1>0, SuffixIs DEF n
<1>8. QED
  BY <1>0, <1>1, <1>6, <1>7

(* Looking up a key tells those that wait for it.                            *)
LEMMA LookupSleeps ==
  ASSUME NEW s, NEW cm, Sleeps(s, cm), NEW k \in Keys, IsFiniteSet(processing), swap \in Files
  PROVE  LET t == lookupKey(s, k)
         IN  t \in Servers /\ Sleeps(t, cm) /\ Extends(s.ready, t.ready)
<1>1. s \in Servers /\ s.ready \in Seq(Clients) /\ Extends(s.ready, s.ready)
  <2>1. s \in Servers /\ s.ready \in Seq(Clients)
    BY ServerIs DEF Sleeps
  <2>2. QED
    BY <2>1 DEF Extends
<1>2. CASE ~Swapped(s.db[k])
  <2> DEFINE t == Undone(s, k)
  <2>1. lookupKey(s, k) = t
    BY <1>2 DEF lookupKey
  <2>2. t \in Servers /\ Still(s, t) /\ AloneIn(s, t, k)
    BY <1>1, UndoneIs DEF UndoneTo
  <2> HIDE DEF t
  <2>3. Sleeps(t, cm)
    BY <1>2, <2>2, AloneSleeps DEF Swapped
  <2>4. QED
    BY <1>1, <2>1, <2>2, <2>3 DEF Still
<1>3. CASE Swapped(s.db[k])
  <2> DEFINE t == vmLoadObject(s, k)
             r == handleClientsBlockedOnSwappedKey(t, k)
  <2>1. t \in Servers /\ Still(s, t) /\ AloneIn(s, t, k)
    BY <1>1, LoadIs
  <2>2. lookupKey(s, k) = IF s.db[k].storage = "loading" THEN r ELSE t
    BY <1>3 DEF lookupKey
  <2> HIDE DEF t
  <2>3. CASE s.db[k].storage # "loading"
    <3>1. Sleeps(t, cm)
      BY <2>1, <2>3, AloneSleeps
    <3>2. QED
      BY <1>1, <2>1, <2>2, <2>3, <3>1 DEF Still
  <2>4. CASE s.db[k].storage = "loading"
    <3>1. Linked(t) /\ Called(t, cm)
      BY <2>1 DEF Sleeps, Still, Linked, Called, CalledOne
    <3>2. r \in Servers /\ Told(t, r, cm, k) /\ r.waiters[k] = <<>>
      BY <2>1, <3>1, HandleTells
    <3>3. SameValues(t, r)
      BY <2>1, HandleIs
    <3> HIDE DEF r
    <3>4. Bring(r)
      <4> SUFFICES ASSUME NEW i \in Keys, r.waiters[i] # <<>>
                   PROVE  r.db[i].storage = "loading"
        BY DEF Bring
      <4>1. i # k /\ s.waiters[i] # <<>>
        BY <2>1, <3>2 DEF Told, Still
      <4>2. r.db[i] = s.db[i]
        BY <2>1, <3>3, <4>1 DEF AloneIn, SameValues
      <4>3. QED
        BY <4>1, <4>2 DEF Sleeps, Bring
    <3>5. Sleeps(r, cm)
      BY <3>2, <3>4 DEF Sleeps, Told
    <3>6. QED
      BY <2>1, <2>2, <2>4, <3>2, <3>5 DEF Told, Still
  <2>5. QED
    BY <2>3, <2>4
<1>4. QED
  BY <1>2, <1>3

(* So do commands that are called, one after the other.                      *)
Resumes(s, t, cm) == Sleeps(t, cm) /\ Extends(s.ready, t.ready)

LEMMA ResumesTwice ==
  ASSUME NEW s \in Servers, NEW t \in Servers, NEW u \in Servers, NEW cm,
         Extends(s.ready, t.ready), Resumes(t, u, cm)
  PROVE  Resumes(s, u, cm)
<1>1. s.ready \in Seq(Clients) /\ t.ready \in Seq(Clients) /\ u.ready \in Seq(Clients)
  BY ServerIs
<1>2. QED
  BY <1>1, ExtendsTwice DEF Resumes

LEMMA ResumesAtOnce ==
  ASSUME NEW s, NEW cm, Sleeps(s, cm)
  PROVE  Resumes(s, s, cm)
<1>1. s.ready \in Seq(Clients)
  BY ServerIs DEF Sleeps
<1>2. QED
  BY <1>1 DEF Resumes, Extends

LEMMA LookedUpSleeps ==
  ASSUME NEW s, NEW cm, Sleeps(s, cm), NEW q \in Seq(Keys), IsFiniteSet(processing), swap \in Files
  PROVE  Resumes(s, LookedUp(s, q), cm)
<1> DEFINE n == Len(q)
<1>0. n \in Nat /\ \A i \in 1..n : q[i] \in Keys
  OBVIOUS
<1>1. s \in Servers
  BY DEF Sleeps
<1>2. PICK run \in [0..n -> Servers] :
        /\ run[0] = s
        /\ \A i \in 1..n : run[i] = lookupKey(run[i - 1], q[i])
        /\ LookedUp(s, q) = run[n]
  BY <1>1, LookupRuns
<1> DEFINE G == {i \in 0..n : Resumes(s, run[i], cm)}
<1>3. 0 \in G
  BY <1>0, <1>2, ResumesAtOnce
<1>4. ASSUME NEW i \in 1..n, i - 1 \in G
      PROVE  i \in G
  <2> DEFINE a == run[i - 1]
             b == run[i]
             k == q[i]
  <2>1. a \in Servers /\ b = lookupKey(a, k) /\ k \in Keys
    <3>1. i - 1 \in 0..n
      BY <1>0
    <3>2. QED
      BY <1>0, <1>2, <3>1
  <2>2. Resumes(s, a, cm)
    BY <1>4
  <2> HIDE DEF a, b, k
  <2>3. b \in Servers /\ Resumes(a, b, cm)
    BY <2>1, <2>2, LookupSleeps DEF Resumes
  <2>4. Resumes(s, b, cm)
    BY <1>1, <2>1, <2>2, <2>3, ResumesTwice DEF Resumes
  <2>5. QED
    BY <2>4 DEF b
<1>5. \A i \in 1..n : i - 1 \in G => i \in G
  BY <1>4
<1>6. n \in G
  <2> HIDE DEF G
  <2>1. QED
    BY <1>0, <1>3, <1>5, IndexInduction
<1>7. QED
  BY <1>2, <1>6

LEMMA CallSleeps ==
  ASSUME NEW s, NEW cm, Sleeps(s, cm), NEW command, CommandLike(command),
         IsFiniteSet(processing), swap \in Files
  PROVE  call(s, command) \in Servers /\ Resumes(s, call(s, command), cm)
<1> DEFINE q == command.keys
           t == LookedUp(s, q)
           r == call(s, command)
<1>1. s \in Servers /\ q \in Seq(Keys)
  BY DEF Sleeps, CommandLike
<1>2. t \in Servers
  BY <1>1, LookedUpIs
<1>3. Resumes(s, t, cm)
  BY <1>1, LookedUpSleeps
<1>4. /\ r \in Servers /\ Still(t, r)
      /\ \A i \in Keys : t.db[i].storage = "loading" => r.db[i].storage = "loading"
  BY <1>1, CallIs
<1> HIDE DEF q, t, r
<1>5. Sleeps(r, cm)
  BY <1>3, <1>4, StillSleeps DEF Resumes
<1>6. Resumes(s, r, cm)
  BY <1>3, <1>4, <1>5 DEF Resumes, Still
<1>7. QED
  BY <1>4, <1>6 DEF r

LEMMA AllRunSleeps ==
  ASSUME NEW s, NEW cm, Sleeps(s, cm), NEW q \in Seq(Clients), \A c \in Clients : CommandLike(cm[c]),
         IsFiniteSet(processing), swap \in Files
  PROVE  AllRun(s, cm, q) \in Servers /\ Resumes(s, AllRun(s, cm, q), cm)
<1> DEFINE n == Len(q)
<1>0. n \in Nat /\ \A i \in 1..n : q[i] \in Clients
  OBVIOUS
<1>1. s \in Servers
  BY DEF Sleeps
<1>2. PICK run \in [0..n -> Servers] :
        /\ run[0] = s
        /\ \A i \in 1..n : run[i] = call(run[i - 1], cm[q[i]])
        /\ AllRun(s, cm, q) = run[n]
  BY <1>1, CallRuns
<1> DEFINE G == {i \in 0..n : Resumes(s, run[i], cm)}
<1>3. 0 \in G
  BY <1>0, <1>2, ResumesAtOnce
<1>4. ASSUME NEW i \in 1..n, i - 1 \in G
      PROVE  i \in G
  <2> DEFINE a == run[i - 1]
             b == run[i]
             command == cm[q[i]]
  <2>1. a \in Servers /\ b = call(a, command) /\ CommandLike(command)
    <3>1. i - 1 \in 0..n
      BY <1>0
    <3>2. QED
      BY <1>0, <1>2, <3>1
  <2>2. Resumes(s, a, cm)
    BY <1>4
  <2> HIDE DEF a, b, command
  <2>3. b \in Servers /\ Resumes(a, b, cm)
    BY <2>1, <2>2, CallSleeps DEF Resumes
  <2>4. Resumes(s, b, cm)
    BY <1>1, <2>1, <2>2, <2>3, ResumesTwice DEF Resumes
  <2>5. QED
    BY <2>4 DEF b
<1>5. \A i \in 1..n : i - 1 \in G => i \in G
  BY <1>4
<1>6. n \in G
  <2> HIDE DEF G
  <2>1. QED
    BY <1>0, <1>3, <1>5, IndexInduction
<1>7. QED
  BY <1>0, <1>2, <1>6

(* A client that waits for one more key, or does not need to                 *)
ListedOnly(s, t, c) ==
  /\ t \in Servers /\ Linked(t) /\ Bring(t)
  /\ t.ready = s.ready /\ \A d \in Clients \ {c} : t.waits[d] = s.waits[d]

LEMMA ListedLinks ==
  ASSUME NEW s \in Servers, Linked(s), NEW c \in Clients, NEW k \in Keys
  PROVE  Linked(Listed(s, c, k))
<1> DEFINE t == Listed(s, c, k)
           q == s.waits[c]
           r == s.waiters[k]
<1>1. s.waits \in [Clients -> Seq(Keys)] /\ s.waiters \in [Keys -> Seq(Clients)]
  BY ServerIs
<1>2. /\ t.waits = [s.waits EXCEPT ![c] = Append(s.waits[c], k)]
      /\ t.waiters = [s.waiters EXCEPT ![k] = Append(s.waiters[k], c)]
  BY ListedIs
<1>3. q \in Seq(Keys) /\ r \in Seq(Clients)
  BY <1>1
<1> HIDE DEF t
<1>4. /\ t.waits[c] = Append(q, k) /\ \A d \in Clients \ {c} : t.waits[d] = s.waits[d]
      /\ t.waiters[k] = Append(r, c) /\ \A i \in Keys \ {k} : t.waiters[i] = s.waiters[i]
  BY <1>1, <1>2
<1> HIDE DEF q, r
<1>5. /\ Occurs(Append(q, k), k) = Occurs(q, k) + 1
      /\ \A i : i # k => Occurs(Append(q, k), i) = Occurs(q, i)
  BY <1>3, OccursInAppended
<1>6. /\ Occurs(Append(r, c), c) = Occurs(r, c) + 1
      /\ \A d : d # c => Occurs(Append(r, c), d) = Occurs(r, d)
  BY <1>3, OccursInAppended
<1>7. ASSUME NEW d \in Clients, NEW i \in Keys
      PROVE  Occurs(t.waits[d], i) = Occurs(t.waiters[i], d)
  <2>1. Occurs(s.waits[d], i) = Occurs(s.waiters[i], d)
    BY DEF Linked
  <2>2. CASE d = c /\ i = k
    BY <1>4, <1>5, <1>6, <2>1, <2>2 DEF q, r
  <2>3. CASE d = c /\ i # k
    BY <1>4, <1>5, <2>1, <2>3 DEF q
  <2>4. CASE d # c /\ i = k
    BY <1>4, <1>6, <2>1, <2>4 DEF r
  <2>5. CASE d # c /\ i # k
    BY <1>4, <2>1, <2>5
  <2>6. QED
    BY <2>2, <2>3, <2>4, <2>5
<1>8. QED
  BY <1>7 DEF Linked, t

LEMMA WaitLists ==
  ASSUME NEW s \in Servers, Linked(s), Bring(s), NEW c \in Clients, NEW k \in Keys
  PROVE  ListedOnly(s, waitForSwappedKey(s, c, k), c)
<1> DEFINE t == waitForSwappedKey(s, c, k)
           l == Listed(s, c, k)
<1>1. /\ t \in Servers /\ AloneIn(s, t, k)
      /\ ~Swapped(s.db[k]) => Still(s, t)
      /\ Swapped(s.db[k]) => Still(l, t) /\ t.db[k].storage = "loading"
  BY WaitIs
<1>2. /\ l \in Servers /\ SameValues(s, l) /\ l.ready = s.ready
      /\ l.waits = [s.waits EXCEPT ![c] = Append(s.waits[c], k)]
      /\ l.waiters = [s.waiters EXCEPT ![k] = Append(s.waiters[k], c)]
  BY ListedIs
<1>3. Linked(l)
  BY ListedLinks
<1>4. s.waits \in [Clients -> Seq(Keys)] /\ s.waiters \in [Keys -> Seq(Clients)]
  BY ServerIs
<1> HIDE DEF t, l
<1>5. CASE ~Swapped(s.db[k])
  <2>1. s.waiters[k] = <<>>
    BY <1>5 DEF Bring, Swapped
  <2>2. Bring(t)
    BY <1>1, <1>5, <2>1 DEF Bring, Still, AloneIn
  <2>3. Linked(t) /\ t.ready = s.ready /\ \A d \in Clients \ {c} : t.waits[d] = s.waits[d]
    BY <1>1, <1>5 DEF Linked, Still
  <2>4. QED
    BY <1>1, <2>2, <2>3 DEF ListedOnly, t
<1>6. CASE Swapped(s.db[k])
  <2>1. Still(l, t) /\ t.db[k].storage = "loading"
    BY <1>1, <1>6
  <2>2. Linked(t)
    BY <1>3, <2>1 DEF Linked, Still
  <2>3. \A i \in Keys \ {k} : t.waiters[i] = s.waiters[i]
    BY <1>2, <1>4, <2>1 DEF Still
  <2>4. Bring(t)
    BY <1>1, <2>1, <2>3 DEF Bring, AloneIn
  <2>5. t.ready = s.ready /\ \A d \in Clients \ {c} : t.waits[d] = s.waits[d]
    BY <1>2, <1>4, <2>1 DEF Still
  <2>6. QED
    BY <1>1, <2>2, <2>4, <2>5 DEF ListedOnly, t
<1>7. QED
  BY <1>5, <1>6

LEMMA AllWaitLists ==
  ASSUME NEW s \in Servers, Linked(s), Bring(s), NEW c \in Clients, NEW q \in Seq(Keys)
  PROVE  ListedOnly(s, AllWait(s, c, q), c)
<1> DEFINE n == Len(q)
<1>0. n \in Nat /\ \A i \in 1..n : q[i] \in Keys
  OBVIOUS
<1>2. PICK run \in [0..n -> Servers] :
        /\ run[0] = s
        /\ \A i \in 1..n : run[i] = waitForSwappedKey(run[i - 1], c, q[i])
        /\ AllWait(s, c, q) = run[n]
  BY WaitRuns
<1> DEFINE G == {i \in 0..n : ListedOnly(s, run[i], c)}
<1>3. 0 \in G
  BY <1>0, <1>2 DEF ListedOnly
<1>4. ASSUME NEW i \in 1..n, i - 1 \in G
      PROVE  i \in G
  <2> DEFINE a == run[i - 1]
             b == run[i]
             k == q[i]
  <2>1. a \in Servers /\ b = waitForSwappedKey(a, c, k) /\ k \in Keys
    <3>1. i - 1 \in 0..n
      BY <1>0
    <3>2. QED
      BY <1>0, <1>2, <3>1
  <2>2. ListedOnly(s, a, c)
    BY <1>4
  <2> HIDE DEF a, b, k
  <2>3. ListedOnly(a, b, c)
    BY <2>1, <2>2, WaitLists DEF ListedOnly
  <2>4. ListedOnly(s, b, c)
    BY <2>2, <2>3 DEF ListedOnly
  <2>5. QED
    BY <2>4 DEF b
<1>5. \A i \in 1..n : i - 1 \in G => i \in G
  BY <1>4
<1>6. n \in G
  <2> HIDE DEF G
  <2>1. QED
    BY <1>0, <1>3, <1>5, IndexInduction
<1>7. QED
  BY <1>2, <1>6

(* FLUSHDB tells nobody.                                                     *)
LEMMA AllReleasedStill ==
  ASSUME NEW s \in Servers, NEW q \in Seq(Keys)
  PROVE  AllReleased(s, q) \in Servers /\ Still(s, AllReleased(s, q))
<1> DEFINE n == Len(q)
<1>0. n \in Nat /\ \A i \in 1..n : q[i] \in Keys
  OBVIOUS
<1>2. PICK run \in [0..n -> Servers] :
        /\ run[0] = s
        /\ \A i \in 1..n : run[i] = Released(run[i - 1], q[i])
        /\ AllReleased(s, q) = run[n]
  BY ReleaseRuns
<1> DEFINE G == {i \in 0..n : Still(s, run[i])}
<1>3. 0 \in G
  BY <1>0, <1>2 DEF Still
<1>4. ASSUME NEW i \in 1..n, i - 1 \in G
      PROVE  i \in G
  <2> DEFINE a == run[i - 1]
             b == run[i]
             k == q[i]
  <2>1. a \in Servers /\ b = Released(a, k) /\ k \in Keys
    <3>1. i - 1 \in 0..n
      BY <1>0
    <3>2. QED
      BY <1>0, <1>2, <3>1
  <2>2. Still(s, a)
    BY <1>4
  <2> HIDE DEF a, b, k
  <2>3. Still(a, b)
    BY <2>1, ReleasedIs
  <2>4. Still(s, b)
    BY <2>2, <2>3 DEF Still
  <2>5. QED
    BY <2>4 DEF b
<1>5. \A i \in 1..n : i - 1 \in G => i \in G
  BY <1>4
<1>6. n \in G
  <2> HIDE DEF G
  <2>1. QED
    BY <1>0, <1>3, <1>5, IndexInduction
<1>7. QED
  BY <1>0, <1>2, <1>6

(* A client that goes is taken off the lists of all that it waited for.      *)
Forgets(s, t, c) ==
  /\ Linked(t) /\ t.ready = s.ready /\ t.db = s.db
  /\ \A d \in Clients \ {c} : t.waits[d] = s.waits[d]
  /\ \A k \in Keys : s.waiters[k] = <<>> => t.waiters[k] = <<>>

LEMMA ForgetIs ==
  ASSUME NEW s \in Servers, Linked(s), NEW c \in Clients, NEW k \in Keys,
         IsFirst(s.waits[c], k)
  PROVE  LET t == dontWaitForSwappedKey(s, c, k)
         IN  t \in Servers /\ Forgets(s, t, c) /\ t.waits[c] = Tail(s.waits[c])
<1> DEFINE t == dontWaitForSwappedKey(s, c, k)
           q == s.waits[c]
           r == s.waiters[k]
<1>1. /\ t \in Servers /\ SameValues(s, t) /\ t.ready = s.ready
      /\ t.waits = [s.waits EXCEPT ![c] = RemoveFirst(s.waits[c], k)]
      /\ t.waiters = [s.waiters EXCEPT ![k] = RemoveFirst(s.waiters[k], c)]
  BY DontWaitIs DEF Unlisted
<1> HIDE DEF t
<1>2. /\ s.waits \in [Clients -> Seq(Keys)] /\ s.waiters \in [Keys -> Seq(Clients)]
      /\ q \in Seq(Keys) /\ r \in Seq(Clients)
  BY ServerIs
<1>3. q # <<>> /\ q[1] = k
  BY DEF IsFirst
<1>4. /\ t.waits[c] = RemoveFirst(q, k) /\ \A d \in Clients \ {c} : t.waits[d] = s.waits[d]
      /\ t.waiters[k] = RemoveFirst(r, c) /\ \A i \in Keys \ {k} : t.waiters[i] = s.waiters[i]
  BY <1>1, <1>2
<1> HIDE DEF q, r
<1>5. Occurs(q, k) # 0
  <2>1. 1 \in DOMAIN q
    BY <1>2, <1>3
  <2>2. k \in ToSet(q)
    BY <1>3, <2>1 DEF ToSet
  <2>3. QED
    BY <1>2, <2>2, OccursIs
<1>6. RemoveFirst(q, k) = Tail(q)
  BY <1>2, <1>3, RemovedFirst
<1>7. Linked(t)
  BY <1>1, <1>5, UnlinkedIs DEF q
<1>8. r # <<>>
  <2>1. Occurs(q, k) = Occurs(r, c)
    BY DEF Linked, q, r
  <2>2. QED
    BY <1>5, <2>1, NoneOccurs
<1>9. \A i \in Keys : s.waiters[i] = <<>> => t.waiters[i] = <<>>
  BY <1>4, <1>8 DEF r
<1>10. QED
  BY <1>1, <1>4, <1>6, <1>7, <1>9 DEF Forgets, SameValues, t, q

LEMMA AllForgottenLinks ==
  ASSUME NEW s \in Servers, Linked(s), NEW c \in Clients
  PROVE  LET t == AllForgotten(s, c, s.waits[c])
         IN  t \in Servers /\ Forgets(s, t, c) /\ t.waits[c] = <<>>
<1> DEFINE q == s.waits[c]
           n == Len(q)
<1>0. n \in Nat /\ q \in Seq(Keys) /\ \A i \in 1..n : q[i] \in Keys
  <2>1. q \in Seq(Keys)
    BY ServerIs
  <2>2. QED
    BY <2>1
<1>1. PICK run \in [0..n -> Servers] :
        /\ run[0] = s
        /\ \A i \in 1..n : run[i] = dontWaitForSwappedKey(run[i - 1], c, q[i])
        /\ AllForgotten(s, c, q) = run[n]
  <2> HIDE DEF q
  <2>1. QED
    BY <1>0, ForgetRuns
<1> DEFINE G == {i \in 0..n : Forgets(s, run[i], c) /\ run[i].waits[c] = Suffix(q, i)}
<1>3. 0 \in G
  <2>1. Forgets(s, s, c)
    BY DEF Forgets
  <2> HIDE DEF q
  <2>2. Suffix(q, 0) = q
    BY <1>0, SuffixIs
  <2>3. QED
    BY <1>0, <1>1, <2>1, <2>2 DEF q
<1> HIDE DEF n, q
<1>4. ASSUME NEW i \in 1..n, i - 1 \in G
      PROVE  i \in G
  <2> DEFINE a == run[i - 1]
             b == run[i]
             k == q[i]
  <2>1. a \in Servers /\ k \in Keys /\ b = dontWaitForSwappedKey(a, c, k)
    <3>1. i - 1 \in 0..n
      BY <1>0
    <3>2. QED
      BY <1>0, <1>1, <3>1
  <2>2. Forgets(s, a, c) /\ a.waits[c] = Suffix(q, i - 1)
    BY <1>4
  <2>3. IsFirst(a.waits[c], k) /\ Tail(a.waits[c]) = Suffix(q, i)
    BY <1>0, <2>2, SuffixIs DEF n, IsFirst
  <2> HIDE DEF a, b, k
  <2>4. b \in Servers /\ Forgets(a, b, c) /\ b.waits[c] = Tail(a.waits[c])
    BY <2>1, <2>2, <2>3, ForgetIs DEF Forgets
  <2>5. Forgets(s, b, c)
    BY <2>2, <2>4 DEF Forgets
  <2>6. Forgets(s, b, c) /\ b.waits[c] = Suffix(q, i)
    BY <2>3, <2>4, <2>5
  <2>7. QED
    BY <2>6 DEF b
<1>5. \A i \in 1..n : i - 1 \in G => i \in G
  BY <1>4
<1>6. n \in G
  <2> HIDE DEF G
  <2>1. QED
    BY <1>0, <1>3, <1>5, IndexInduction
<1>7. Suffix(q, n) = <<>>
  BY <1>0, SuffixIs DEF n
<1>8. QED
  BY <1>0, <1>1, <1>6, <1>7 DEF q

(* The list of those that are ready, without those that were resumed         *)
LEMMA OccursInRest ==
  ASSUME NEW S, NEW q \in Seq(S), NEW r \in Seq(S), Extends(q, r), NEW x
  PROVE  LET rest == SubSeq(r, Len(q) + 1, Len(r))
         IN  rest \in Seq(S) /\ Occurs(r, x) = Occurs(q, x) + Occurs(rest, x)
<1> DEFINE m == Len(q)
           n == Len(r)
           rest == SubSeq(r, m + 1, n)
           f == [i \in Where(rest, x) |-> i + m]
           T == {i \in Where(r, x) : i > m}
<1>1. m \in Nat /\ n \in Nat /\ m <= n /\ \A i \in 1..m : r[i] = q[i]
  BY DEF Extends
<1>2. DOMAIN q = 1..m /\ DOMAIN r = 1..n
  OBVIOUS
<1>3. rest \in Seq(S)
  BY <1>1, SubSeqIs
<1>4. DOMAIN rest = 1..n - m /\ \A i \in 1..n - m : rest[i] = r[i + m]
  <2>1. Len(rest) = n - m
    BY <1>1
  <2>2. QED
    BY <1>1, <1>3, <2>1
<1> HIDE DEF rest, m, n
<1>5. f \in [Where(rest, x) -> T]
  BY <1>1, <1>2, <1>4 DEF Where
<1>6. \A i, j \in Where(rest, x) : i # j => f[i] # f[j]
  BY <1>1, <1>4 DEF Where
<1>7. ASSUME NEW j \in T
      PROVE  \E i \in Where(rest, x) : f[i] = j
  <2> DEFINE i == j - m
  <2>1. i \in 1..n - m /\ i + m = j /\ r[j] = x
    BY <1>1, <1>2 DEF Where
  <2>2. i \in Where(rest, x)
    BY <1>4, <2>1 DEF Where
  <2>3. QED
    BY <2>1, <2>2
<1>8. ExistsBijection(Where(rest, x), T)
  <2> HIDE DEF f
  <2>1. f \in Bijection(Where(rest, x), T)
    BY <1>5, <1>6, <1>7 DEF Bijection, Injection, Surjection, IsInjective
  <2>2. QED
    BY <2>1 DEF ExistsBijection
<1>9. IsFiniteSet(Where(rest, x)) /\ IsFiniteSet(Where(q, x)) /\ IsFiniteSet(Where(r, x))
      /\ Occurs(q, x) \in Nat /\ Occurs(rest, x) \in Nat
  BY <1>3, OccursIs
<1>10. IsFiniteSet(T) /\ Cardinality(T) = Cardinality(Where(rest, x))
  BY <1>8, <1>9, FS_Bijection
<1>11. Where(r, x) = Where(q, x) \cup T /\ Where(q, x) \cap T = {}
  BY <1>1, <1>2 DEF Where
<1> HIDE DEF T
<1>12. Cardinality(Where(r, x)) = Cardinality(Where(q, x)) + Cardinality(T)
  <2> DEFINE A == Where(q, x)
  <2> HIDE DEF A
  <2>1. IsFiniteSet(A) /\ IsFiniteSet(T) /\ A \cap T = {}
    BY <1>9, <1>10, <1>11 DEF A
  <2>2. Cardinality(A \cup T) = Cardinality(A) + Cardinality(T) - Cardinality(A \cap T)
    BY <2>1, FS_Union
  <2>3. Cardinality(A \cap T) = 0 /\ Cardinality(A) \in Nat /\ Cardinality(T) \in Nat
    BY <2>1, FS_EmptySet, FS_CardinalityType
  <2>4. QED
    BY <1>11, <2>2, <2>3 DEF A
<1>13. QED
  BY <1>3, <1>9, <1>10, <1>12 DEF Occurs, rest, m, n

-----------------------------------------------------------------------------
(* The steps, for the clients                                                *)
LEMMA CommandSleeps ==
  ASSUME Kept, Sleeps(srv, cmd), NEW c \in Clients, NEW command \in Commands,
         processCommand(c, command)
  PROVE  Sleeps(srv', cmd')
<1> DEFINE q == command.keys
           s == AllWait(srv, c, q)
           blocked == s.waits[c] # <<>>
<1>1. /\ srv' = IF blocked THEN s ELSE call(s, command)
      /\ cmd' = IF blocked THEN [cmd EXCEPT ![c] = command] ELSE cmd
      /\ cmd[c] = Nothing
  BY DEF processCommand, AllWait
<1>2. CommandLike(command) /\ q \in Seq(Keys) /\ command # Nothing
  <2>1. CommandLike(command) /\ q # <<>>
    BY CommandsAre, VirtualMemoryAssumption
  <2>2. QED
    BY <2>1 DEF CommandLike, Nothing
<1> HIDE DEF q
<1>3. ListedOnly(srv, s, c)
  BY <1>2, AllWaitLists DEF Sleeps
<1> HIDE DEF s
<1>4. s \in Servers /\ Linked(s) /\ Bring(s)
  BY <1>3 DEF ListedOnly
<1>5. Occurs(srv.ready, c) = 0 /\ srv.waits[c] = <<>>
  BY <1>1 DEF Sleeps, Called, CalledOne
<1>6. \A d \in Clients \ {c} : CalledOne(s, cmd[d], d)
  BY <1>3 DEF ListedOnly, Sleeps, Called, CalledOne
<1>7. Occurs(s.ready, c) = 0
  BY <1>3, <1>5 DEF ListedOnly
<1>8. CASE blocked
  <2>1. cmd'[c] = command /\ \A d \in Clients \ {c} : cmd'[d] = cmd[d]
    BY <1>1, <1>8 DEF Kept
  <2>2. CalledOne(s, command, c)
    BY <1>2, <1>7, <1>8 DEF CalledOne
  <2>3. Called(s, cmd')
    BY <1>6, <2>1, <2>2 DEF Called
  <2>4. QED
    BY <1>1, <1>4, <1>8, <2>3 DEF Sleeps
<1>9. CASE ~blocked
  <2>1. CalledOne(s, cmd[c], c)
    BY <1>1, <1>7, <1>9 DEF CalledOne
  <2>2. Sleeps(s, cmd)
    BY <1>4, <1>6, <2>1 DEF Called, Sleeps
  <2>3. Sleeps(call(s, command), cmd)
    BY <1>2, <2>2, KeptIs, CallSleeps DEF Resumes
  <2>4. QED
    BY <1>1, <1>9, <2>3
<1>10. QED
  BY <1>8, <1>9

LEMMA ResumeSleeps ==
  ASSUME Kept, Sleeps(srv, cmd), Resume
  PROVE  Sleeps(srv', cmd')
<1> DEFINE q == srv.ready
           s == AllRun(srv, cmd, q)
           rest == SubSeq(s.ready, Len(q) + 1, Len(s.ready))
<1>1. /\ srv' = [s EXCEPT !.ready = rest]
      /\ cmd' = [c \in Clients |-> IF c \in ToSet(q) THEN Nothing ELSE cmd[c]]
  BY DEF Resume, AllRun
<1>2. q \in Seq(Clients)
  BY KeptIs, ServerIs
<1>3. s \in Servers /\ Resumes(srv, s, cmd)
  BY <1>2, KeptIs, AllRunSleeps
<1> HIDE DEF s
<1>4. s.ready \in Seq(Clients) /\ Extends(q, s.ready) /\ Sleeps(s, cmd)
  BY <1>3, ServerIs DEF Resumes
<1>5. ASSUME NEW c
      PROVE  rest \in Seq(Clients) /\ Occurs(s.ready, c) = Occurs(q, c) + Occurs(rest, c)
  <2> HIDE DEF q
  <2>1. QED
    BY <1>2, <1>4, OccursInRest
<1> HIDE DEF rest
<1>6. srv' \in Servers /\ srv'.waits = s.waits /\ srv'.waiters = s.waiters
      /\ srv'.db = s.db /\ srv'.ready = rest
  BY <1>1, <1>3, <1>5 DEF Servers
<1>7. Linked(srv') /\ Bring(srv')
  BY <1>4, <1>6 DEF Sleeps, Linked, Bring
<1>8. ASSUME NEW c \in Clients
      PROVE  CalledOne(srv', cmd'[c], c)
  <2>1. CalledOne(srv, cmd[c], c) /\ CalledOne(s, cmd[c], c)
    BY <1>4 DEF Sleeps, Called
  <2>2. /\ Occurs(q, c) \in Nat /\ Occurs(rest, c) \in Nat
        /\ Occurs(q, c) = 0 <=> c \notin ToSet(q)
    <3> HIDE DEF q
    <3>1. rest \in Seq(Clients)
      BY <1>5
    <3>2. QED
      BY <1>2, <3>1, OccursIs
  <2>3. Occurs(s.ready, c) = Occurs(q, c) + Occurs(rest, c)
    BY <1>5
  <2>4. CASE c \in ToSet(q)
    <3>1. cmd'[c] = Nothing
      BY <1>1, <2>4
    <3>2. Occurs(q, c) # 0
      BY <2>2, <2>4
    <3>3. Occurs(q, c) = 1
      BY <2>1, <3>2 DEF CalledOne
    <3>4. Occurs(s.ready, c) # 0
      BY <2>2, <2>3, <3>3
    <3>5. Occurs(s.ready, c) = 1 /\ s.waits[c] = <<>>
      BY <2>1, <3>4 DEF CalledOne
    <3>6. Occurs(rest, c) = 0
      BY <2>2, <2>3, <3>3, <3>5
    <3>7. QED
      BY <1>6, <3>1, <3>5, <3>6 DEF CalledOne
  <2>5. CASE c \notin ToSet(q)
    <3>1. cmd'[c] = cmd[c]
      BY <1>1, <2>5
    <3>2. Occurs(rest, c) = Occurs(s.ready, c)
      BY <2>2, <2>3, <2>5
    <3>3. QED
      BY <1>6, <2>1, <3>1, <3>2 DEF CalledOne
  <2>6. QED
    BY <2>4, <2>5
<1>9. QED
  BY <1>6, <1>7, <1>8 DEF Called, Sleeps

LEMMA SetSleeps ==
  ASSUME Kept, Sleeps(srv, cmd), NEW k \in Keys, NEW v \in Vals, setKey(k, v)
  PROVE  Sleeps(srv', cmd')
<1> DEFINE s == lookupKey(srv, k)
           o == InMemory(NewId(s, k), v)
           t == Put(s, k, o)
<1>1. srv' = t /\ cmd' = cmd
  BY DEF setKey, Put
<1>2. s \in Servers /\ Sleeps(s, cmd) /\ s.db[k].storage \in {"none", "memory"}
  BY KeptIs, LookupSleeps, LookupIs
<1> HIDE DEF s
<1>3. NewId(s, k) \in Nat /\ v \in Words
  BY <1>2, KeptIs, NewIdIsNat DEF Words
<1>4. o \in Objects
  BY <1>3, InMemoryIs
<1> HIDE DEF o
<1>5. t \in Servers /\ Still(s, t) /\ AloneIn(s, t, k)
  BY <1>2, <1>4, PutIs
<1> HIDE DEF t
<1>6. Sleeps(t, cmd)
  BY <1>2, <1>5, AloneSleeps
<1>7. QED
  BY <1>1, <1>6

LEMMA DelSleeps ==
  ASSUME Kept, Sleeps(srv, cmd), NEW k \in Keys, delCommand(k)
  PROVE  Sleeps(srv', cmd')
<1> DEFINE s == handleClientsBlockedOnSwappedKey(srv, k)
           t == Released(s, k)
<1>1. srv' = t /\ cmd' = cmd
  BY DEF delCommand, dbDelete
<1>2. s \in Servers /\ Told(srv, s, cmd, k) /\ s.waiters[k] = <<>>
  BY KeptIs, HandleTells DEF Sleeps
<1>3. SameValues(srv, s)
  BY KeptIs, HandleIs
<1> HIDE DEF s
<1>4. Bring(s)
  BY <1>2, <1>3 DEF Bring, Told, SameValues, Sleeps
<1>5. Sleeps(s, cmd)
  BY <1>2, <1>4 DEF Sleeps, Told
<1>6. t \in Servers /\ Still(s, t) /\ AloneIn(s, t, k)
  BY <1>2, ReleasedIs
<1> HIDE DEF t
<1>7. Sleeps(t, cmd)
  BY <1>2, <1>5, <1>6, AloneSleeps
<1>8. QED
  BY <1>1, <1>7

LEMMA FlushSleeps ==
  ASSUME ~FlushWaiting, Kept, Sleeps(srv, cmd), flushdbCommand
  PROVE  Sleeps(srv', cmd')
<1> DEFINE S == {k \in Keys : srv.db[k] # None}
           q == SetToSeq(S)
           t == AllReleased(srv, q)
<1>1. /\ srv' = t /\ cmd' = cmd
      /\ \A k \in Keys : srv.waiters[k] = <<>>
  BY DEF flushdbCommand, AllReleased
<1>2. q \in Seq(Keys)
  <2>1. S \in SUBSET Keys
    OBVIOUS
  <2> HIDE DEF S
  <2>2. QED
    BY <2>1, SetToSeqIs
<1> HIDE DEF q
<1>3. t \in Servers /\ Still(srv, t)
  BY <1>2, KeptIs, AllReleasedStill
<1> HIDE DEF t
<1>4. Sleeps(t, cmd)
  BY <1>1, <1>3, StillSleeps
<1>5. QED
  BY <1>1, <1>4

LEMMA FreeSleeps ==
  ASSUME Kept, Sleeps(srv, cmd), NEW c \in Clients, freeClient(c)
  PROVE  Sleeps(srv', cmd')
<1> DEFINE s == AllForgotten(srv, c, srv.waits[c])
           rest == RemoveFirst(s.ready, c)
<1>1. srv' = [s EXCEPT !.ready = rest] /\ cmd' = [cmd EXCEPT ![c] = Nothing]
  BY DEF freeClient, AllForgotten
<1>2. s \in Servers /\ Forgets(srv, s, c) /\ s.waits[c] = <<>>
  BY KeptIs, AllForgottenLinks DEF Sleeps
<1> HIDE DEF s
<1>3. s.ready \in Seq(Clients) /\ s.ready = srv.ready
  BY <1>2, ServerIs DEF Forgets
<1>4. /\ rest \in Seq(Clients)
      /\ Occurs(s.ready, c) = 0 => rest = s.ready
      /\ Occurs(s.ready, c) # 0 => Occurs(rest, c) = Occurs(s.ready, c) - 1
      /\ \A d : d # c => Occurs(rest, d) = Occurs(s.ready, d)
  BY <1>3, RemovedFirst
<1> HIDE DEF rest
<1>5. srv' \in Servers /\ srv'.waits = s.waits /\ srv'.waiters = s.waiters
      /\ srv'.db = s.db /\ srv'.ready = rest
  BY <1>1, <1>2, <1>4 DEF Servers
<1>6. Linked(srv')
  BY <1>2, <1>5 DEF Forgets, Linked
<1>7. Bring(srv')
  BY <1>2, <1>5 DEF Forgets, Bring, Sleeps
<1>8. cmd'[c] = Nothing /\ \A d \in Clients \ {c} : cmd'[d] = cmd[d]
  BY <1>1 DEF Kept
<1>9. CalledOne(srv, cmd[c], c)
  BY DEF Sleeps, Called
<1>10. Occurs(rest, c) = 0
  BY <1>3, <1>4, <1>9 DEF CalledOne
<1>11. ASSUME NEW d \in Clients
       PROVE  CalledOne(srv', cmd'[d], d)
  <2>1. CASE d = c
    BY <1>2, <1>5, <1>8, <1>10, <2>1 DEF CalledOne
  <2>2. CASE d # c
    <3>1. CalledOne(srv, cmd[d], d)
      BY DEF Sleeps, Called
    <3>2. srv'.waits[d] = srv.waits[d] /\ Occurs(srv'.ready, d) = Occurs(srv.ready, d)
      BY <1>2, <1>3, <1>4, <1>5, <2>2 DEF Forgets
    <3>3. QED
      BY <1>8, <2>2, <3>1, <3>2 DEF CalledOne
  <2>3. QED
    BY <2>1, <2>2
<1>12. QED
  BY <1>5, <1>6, <1>7, <1>11 DEF Called, Sleeps

(* The other steps do not change the lists.                                  *)
LEMMA QuietSleeps ==
  ASSUME Sleeps(srv, cmd), srv' \in Servers, Still(srv, srv'), srv'.db = srv.db, cmd' = cmd
  PROVE  Sleeps(srv', cmd')
<1> DEFINE t == srv'
<1>1. t \in Servers /\ Still(srv, t) /\ t.db = srv.db
  OBVIOUS
<1> HIDE DEF t
<1>2. Sleeps(t, cmd)
  BY <1>1, StillSleeps
<1>3. QED
  BY <1>2 DEF t

LEMMA ThreadedSleeps ==
  ASSUME NEW s, NEW cm, Sleeps(s, cm), NEW k \in Swappable(s)
  PROVE  Sleeps(vmSwapObjectThreaded(s, k), cm)
<1>1. k \in Keys /\ s.db[k].storage = "memory" /\ s \in Servers
  BY DEF Swappable, Sleeps
<1> DEFINE type == "prepare"
           storage == "swapping"
           t == Begun(s, k, type, storage)
<1>2. Beginning(type, storage)
  BY DEF Beginning
<1>3. vmSwapObjectThreaded(s, k) = t
  BY <1>1, ThreadedIs
<1> HIDE DEF type, storage
<1>4. t \in Servers /\ Still(s, t) /\ AloneIn(s, t, k)
  BY <1>1, <1>2, BegunIs
<1> HIDE DEF t
<1>5. Sleeps(t, cm)
  BY <1>1, <1>4, AloneSleeps
<1>6. QED
  BY <1>3, <1>5

LEMMA BlockingSleeps ==
  ASSUME Kept, Sleeps(srv, cmd), srv' \in Servers, NEW k \in Keys, vmSwapObjectBlocking(k)
  PROVE  Sleeps(srv', cmd')
<1>1. srv.db[k].storage = "memory" /\ cmd' = cmd
  BY DEF vmSwapObjectBlocking, Swappable
<1>2. \E o, pages : srv' = [srv EXCEPT !.db[k] = o, !.bitmap = pages]
  BY DEF vmSwapObjectBlocking
<1>3. Still(srv, srv') /\ AloneIn(srv, srv', k)
  BY <1>2, KeptIs DEF Servers, Still, AloneIn
<1>4. Sleeps(srv', cmd)
  BY <1>1, <1>3, AloneSleeps
<1>5. QED
  BY <1>1, <1>4

LEMMA LoadedSleeps ==
  ASSUME Kept, Sleeps(srv, cmd), srv.processed # <<>>, LoadedJob(Head(srv.processed))
  PROVE  Sleeps(srv', cmd)
<1> DEFINE k == Head(srv.processed).key
<1>1. k \in Keys
      /\ \E t \in Servers : /\ srv' = handleClientsBlockedOnSwappedKey(t, k)
                            /\ Still(srv, t) /\ AloneIn(srv, t, k)
                            /\ Good(t, processing, swap, data, Child)
  BY LoadedIs
<1> HIDE DEF k
<1>2. PICK t \in Servers : /\ srv' = handleClientsBlockedOnSwappedKey(t, k)
                           /\ Still(srv, t) /\ AloneIn(srv, t, k)
  BY <1>1
<1>3. Linked(t) /\ Called(t, cmd)
  BY <1>2 DEF Sleeps, Still, Linked, Called, CalledOne
<1>4. srv' \in Servers /\ Told(t, srv', cmd, k) /\ srv'.waiters[k] = <<>>
  BY <1>1, <1>2, <1>3, HandleTells
<1>5. SameValues(t, srv')
  BY <1>1, <1>2, HandleIs
<1>6. Bring(srv')
  <2> SUFFICES ASSUME NEW i \in Keys, srv'.waiters[i] # <<>>
               PROVE  srv'.db[i].storage = "loading"
    BY DEF Bring
  <2>1. i # k /\ srv.waiters[i] # <<>>
    BY <1>2, <1>4 DEF Told, Still
  <2>2. srv'.db[i] = srv.db[i]
    BY <1>2, <1>5, <2>1 DEF AloneIn, SameValues
  <2>3. QED
    BY <2>1, <2>2 DEF Sleeps, Bring
<1>7. QED
  BY <1>4, <1>6 DEF Sleeps, Told

LEMMA CompletedSleeps ==
  ASSUME Kept, Sleeps(srv, cmd), srv' \in Servers, vmThreadedIOCompletedJob
  PROVE  Sleeps(srv', cmd')
<1> DEFINE job == Head(srv.processed)
           k == job.key
<1>1. /\ srv.processed # <<>> /\ cmd' = cmd
      /\ CanceledJob(job) \/ LoadedJob(job) \/ PreparedJob(job) \/ SwappedJob(job)
  BY DEF vmThreadedIOCompletedJob
<1>2. Rest.db = srv.db /\ Still(srv, Rest) /\ Rest \in Servers
  BY <1>1, KeptIs, DequeuedIs DEF Rest, Good, Queues
<1>3. ~job.canceled /\ job.type # "load" => k \in Keys /\ srv.db[k].storage = "swapping"
  <2> SUFFICES ASSUME ~job.canceled, job.type # "load"
               PROVE  k \in Keys /\ srv.db[k].storage = "swapping"
    OBVIOUS
  <2>1. job \in AnyJob /\ k \in Keys /\ Fits(job, srv.db[k])
    BY <1>1, KeptIs, DoneJobIs
  <2> HIDE DEF job
  <2>2. QED
    BY <2>1 DEF Fits
<1>4. CASE CanceledJob(job)
  BY <1>1, <1>2, <1>4, NothingAbandoned, QuietSleeps DEF CanceledJob
<1>5. CASE LoadedJob(job)
  BY <1>1, <1>5, LoadedSleeps
<1>6. CASE PreparedJob(job)
  <2>1. ~job.canceled /\ job.type = "prepare"
    BY <1>6 DEF PreparedJob
  <2>2. CASE srv' = [Rest EXCEPT !.db[k].storage = "memory"]
    <3>1. k \in Keys /\ srv.db[k].storage = "swapping"
      BY <1>3, <2>1
    <3> HIDE DEF k
    <3>2. Still(srv, srv') /\ AloneIn(srv, srv', k)
      BY <1>2, <2>2, <3>1 DEF Servers, Still, AloneIn
    <3>3. Sleeps(srv', cmd)
      BY <3>1, <3>2, AloneSleeps
    <3>4. QED
      BY <1>1, <3>3
  <2>3. CASE \E pages, j : srv' = queueIOJob([Rest EXCEPT !.bitmap = pages], j)
    <3>1. Still(srv, srv') /\ srv'.db = srv.db
      BY <1>2, <2>3 DEF Servers, Still, queueIOJob
    <3>2. QED
      BY <1>1, <3>1, QuietSleeps
  <2>4. QED
    BY <1>6, <2>2, <2>3 DEF PreparedJob
<1>7. CASE SwappedJob(job)
  <2> DEFINE o == createVmPointer(NewId(Rest, k), job.pages)
             s == [Rest EXCEPT !.db[k] = o]
  <2>1. /\ ~job.canceled /\ job.type = "swap"
        /\ srv' = s \/ \E i \in Swappable(s) : srv' = vmSwapObjectThreaded(s, i)
    BY <1>7 DEF SwappedJob
  <2>2. Good(s, processing, swap, data, Child)
    BY <1>1, <2>1, SwappedGood
  <2>3. s \in Servers
    BY <2>2 DEF Good, Typed
  <2>4. k \in Keys /\ srv.db[k].storage = "swapping"
    BY <1>3, <2>1
  <2> HIDE DEF k, o
  <2>5. Still(srv, s) /\ AloneIn(srv, s, k)
    BY <1>2 DEF Servers, Still, AloneIn
  <2> HIDE DEF s
  <2>6. Sleeps(s, cmd)
    BY <2>3, <2>4, <2>5, AloneSleeps
  <2>7. QED
    BY <1>1, <2>1, <2>6, ThreadedSleeps
<1>8. QED
  BY <1>1, <1>4, <1>5, <1>6, <1>7

LEMMA ThreadSleeps ==
  ASSUME Kept, Sleeps(srv, cmd), srv' \in Servers, IOThread
  PROVE  Sleeps(srv', cmd')
<1>1. cmd' = cmd /\ \/ \E q : srv' = [srv EXCEPT !.newjobs = q]
                    \/ \E n : srv' = [srv EXCEPT !.active = n]
                    \/ \E q : srv' = [srv EXCEPT !.processed = q]
  BY DEF IOThread, TakeJob, ExitThread, ProcessJob
<1>2. Still(srv, srv') /\ srv'.db = srv.db
  BY <1>1, KeptIs DEF Servers, Still
<1>3. QED
  BY <1>1, <1>2, QuietSleeps

LEMMA SleepsInit == Init => Sleeps(srv, cmd)
<1> SUFFICES ASSUME Init PROVE Sleeps(srv, cmd)
  OBVIOUS
<1>1. srv \in Servers
  BY KeptInit, KeptIs
<1>2. /\ \A c \in Clients : srv.waits[c] = <<>> /\ cmd[c] = Nothing
      /\ \A k \in Keys : srv.waiters[k] = <<>>
      /\ srv.ready = <<>>
  BY DEF Init
<1>3. QED
  BY <1>1, <1>2, NoneOccurs DEF Sleeps, Linked, Called, CalledOne, Bring

LEMMA SleepsNext ==
  ASSUME ~FlushWaiting, Kept, Kept', Sleeps(srv, cmd), [Next]_vars
  PROVE  Sleeps(srv', cmd')
<1>0. srv' \in Servers
  BY DEF Kept, Values, Good, Typed
<1>1. CASE \E c \in Clients : freeClient(c) \/ \E command \in Commands : processCommand(c, command)
  BY <1>1, FreeSleeps, CommandSleeps
<1>2. CASE \E k \in Keys : delCommand(k)
  BY <1>2, DelSleeps
<1>3. CASE \E set \in Sets : setKey(set[1], set[2])
  <2>1. PICK set \in Sets : setKey(set[1], set[2])
    BY <1>3
  <2>2. set[1] \in Keys /\ set[2] \in Vals
    BY VirtualMemoryAssumption
  <2>3. QED
    BY <2>1, <2>2, SetSleeps
<1>4. CASE flushdbCommand
  BY <1>4, FlushSleeps
<1>5. CASE Resume
  BY <1>5, ResumeSleeps
<1>6. CASE \E k \in Keys : vmSwapOneObjectThreaded(k)
  <2>1. PICK k \in Swappable(srv) : srv' = vmSwapObjectThreaded(srv, k) /\ cmd' = cmd
    BY <1>6 DEF vmSwapOneObjectThreaded
  <2>2. QED
    BY <2>1, ThreadedSleeps
<1>7. CASE \E k \in Keys : vmSwapObjectBlocking(k)
  BY <1>0, <1>7, BlockingSleeps
<1>8. CASE vmThreadedIOCompletedJob
  BY <1>0, <1>8, CompletedSleeps
<1>9. CASE IOThread
  BY <1>0, <1>9, ThreadSleeps
<1>10. CASE rdbSaveBackground \/ fork \/ backgroundSaveDone \/ UNCHANGED vars
  <2>1. srv' = srv /\ cmd' = cmd
    BY <1>10 DEF rdbSaveBackground, fork, backgroundSaveDone, vars
  <2>2. QED
    BY <2>1
<1>11. QED
  BY <1>1, <1>2, <1>3, <1>4, <1>5, <1>6, <1>7, <1>8, <1>9, <1>10 DEF Next

LEMMA SleepsMatch ==
  ASSUME Kept, Sleeps(srv, cmd)
  PROVE  JobsMatchKeys
<1>1. ASSUME NEW j \in Live
      PROVE  /\ srv.db[j.key].id = j.id
             /\ srv.db[j.key].storage = IF j.type = "load" THEN "loading" ELSE "swapping"
  <2>1. Fits(j, srv.db[j.key])
    BY LiveJobIs
  <2>2. QED
    BY <2>1 DEF Fits
<1>2. ASSUME NEW k \in Keys, srv.db[k].storage \in {"swapping", "loading"}
      PROVE  Cardinality({j \in Live : j.key = k}) = 1
  <2>1. ~Resting(srv.db[k])
    BY <1>2 DEF Resting
  <2>2. PICK i \in AnyJob :
          /\ Fits(i, srv.db[k])
          /\ \/ Ahead(i, Of(srv.newjobs, k), At(processing, k), Of(srv.processed, k), Child)
             \/ Over(i, data[k], Of(srv.newjobs, k), At(processing, k), Of(srv.processed, k), swap)
    BY <2>1, KeptIs, RestIs
  <2>3. Of(srv.newjobs, k) \cup At(processing, k) \cup Of(srv.processed, k) = {i}
    BY <2>2 DEF Ahead, Over
  <2>4. i \in Live /\ i.key = k
    BY <2>2, <2>3 DEF Live, Jobs, Of, At, Fits
  <2>5. \A j \in Live : j.key = k => j = i
    BY <2>3 DEF Live, Jobs, Of, At
  <2>6. {j \in Live : j.key = k} = {i}
    BY <2>4, <2>5
  <2>7. QED
    BY <2>6, FS_Singleton
<1>3. ASSUME NEW c \in Clients, NEW k \in ToSet(srv.waits[c])
      PROVE  srv.db[k].storage = "loading" /\ c \in ToSet(srv.waiters[k])
  <2>1. srv.waits[c] \in Seq(Keys)
    BY KeptIs, ServerIs
  <2>2. k \in Keys
    BY <2>1 DEF ToSet
  <2>3. srv.waiters[k] \in Seq(Clients)
    BY <2>2, KeptIs, ServerIs
  <2>4. Occurs(srv.waits[c], k) # 0
    BY <2>1, OccursIs
  <2>5. Occurs(srv.waiters[k], c) # 0
    BY <2>2, <2>4 DEF Sleeps, Linked
  <2>6. c \in ToSet(srv.waiters[k])
    BY <2>3, <2>5, OccursIs
  <2>7. srv.waiters[k] # <<>>
    BY <2>5, NoneOccurs
  <2>8. QED
    BY <2>2, <2>6, <2>7 DEF Sleeps, Bring
<1>4. ASSUME NEW c \in Clients, cmd[c] # Nothing, srv.waits[c] = <<>>
      PROVE  c \in ToSet(srv.ready)
  <2>1. CalledOne(srv, cmd[c], c)
    BY DEF Sleeps, Called
  <2>2. Occurs(srv.ready, c) # 0
    BY <1>4, <2>1 DEF CalledOne
  <2>3. srv.ready \in Seq(Clients)
    BY KeptIs, ServerIs
  <2>4. QED
    BY <2>2, <2>3, OccursIs
<1>5. QED
  BY <1>1, <1>2, <1>3, <1>4 DEF JobsMatchKeys

(* Unless a write of a thread fails (vm.c:836), or FLUSHDB comes while a     *)
(* client waits for a key (dictEmpty tells nobody), the handler of a finished job (vmThreadedIOCompletedJob) finds   *)
(* its key as the job left it, vmCancelThreadedIOJob finds one job, and each *)
(* client that blockClientOnSwappedKeys made wait is going to be told: the   *)
(* key it waits for is loading and lists it, or it is ready to be resumed.   *)
THEOREM JobsAreMatched == ~FlushWaiting /\ ~SeekFails => (Spec => []JobsMatchKeys)
<1> SUFFICES ASSUME ~FlushWaiting, ~SeekFails PROVE Spec => []JobsMatchKeys
  OBVIOUS
<1> DEFINE IInv == Kept /\ Sleeps(srv, cmd)
<1>1. Init => IInv
  BY KeptInit, SleepsInit
<1>2. IInv /\ [Next]_vars => IInv'
  BY KeptNext, SleepsNext
<1>3. IInv => JobsMatchKeys
  BY SleepsMatch
<1> HIDE DEF IInv
<1>4. QED
  BY <1>1, <1>2, <1>3, PTL DEF Spec

=============================================================================
