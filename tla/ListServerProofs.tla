-------------------------- MODULE ListServerProofs --------------------------
(***************************************************************************)
(* Theorems about ListServer, for any clients, keys and values, and for    *)
(* lists, queues and transactions of any length.                           *)
(***************************************************************************)
EXTENDS ListServer, Integers, SequenceTheorems, FiniteSetTheorems,
        WellFoundedInduction, TLAPS

-----------------------------------------------------------------------------
(* Folds over sequences.  FoldLeft is defined by a recursive function on the *)
(* sets of positions: there is one, and it runs from position to position.   *)

(* Induction on the members of 0..n, as a statement about a set.             *)
LEMMA IndexInduction ==
  ASSUME NEW n \in Nat, NEW G, 0 \in G, \A i \in 1..n : i - 1 \in G => i \in G
  PROVE  n \in G /\ \A i \in 0..n : i \in G
<1> DEFINE Less == OpToRel(LAMBDA x, y : x < y, Nat)
           T == {i \in 0..n : i \notin G}
<1>1. IsWellFoundedOn(Less, Nat)
  BY NatLessThanWellFounded
<1>2. SUFFICES ASSUME T # {} PROVE FALSE
  <2>1. n \in 0..n
    OBVIOUS
  <2>2. QED
    BY <2>1
<1>3. \A x, y \in Nat : x < y => <<x, y>> \in Less
  BY DEF OpToRel
<1>4. T \subseteq Nat
  OBVIOUS
<1>5. PICK x \in T : \A y \in T : ~(<<y, x>> \in Less)
  <2> HIDE DEF T, Less
  <2> QED BY <1>1, <1>2, <1>4, WFMin
<1>6. x \in 1..n /\ x - 1 \in 0..n /\ x - 1 \in Nat /\ x \in Nat /\ x - 1 < x
  OBVIOUS
<1>7. x - 1 \notin T
  <2> HIDE DEF T, Less
  <2> QED BY <1>3, <1>5, <1>6
<1>8. QED
  BY <1>6, <1>7

LEMMA MaxOfPrefix ==
  ASSUME NEW i \in Nat \ {0}
  PROVE  Max(1..i) = i /\ (1..i) \ {i} = 1..i - 1 /\ 1..i # {}
<1>1. \A x \in 1..i : (\A y \in 1..i : x >= y) => x = i
  OBVIOUS
<1>2. i \in 1..i /\ \A y \in 1..i : i >= y
  OBVIOUS
<1>3. Max(1..i) = i
  BY <1>1, <1>2 DEF Max
<1>4. QED
  BY <1>2, <1>3

LEMMA MaxOfOthers ==
  ASSUME NEW i \in Nat \ {0}, NEW S \in SUBSET (1..i), i \in S
  PROVE  Max(S) = i
<1>1. \A x \in S : (\A y \in S : x >= y) => x = i
  OBVIOUS
<1>2. i \in S /\ \A y \in S : i >= y
  OBVIOUS
<1>3. QED
  BY <1>1, <1>2 DEF Max

(* Any nonempty part of 1..n has a greatest member. *)
LEMMA MaxOfSet ==
  ASSUME NEW n \in Nat, NEW S \in SUBSET (1..n), S # {}
  PROVE  Max(S) \in S
<1> DEFINE G == {i \in 0..n : S \cap (1..i) # {} => \E x \in S : \A y \in S \cap (1..i) : y <= x /\ x <= i}
<1>1. 0 \in G
  OBVIOUS
<1>2. ASSUME NEW i \in 1..n, i - 1 \in G
      PROVE  i \in G
  <2>1. CASE i \in S
    BY <2>1
  <2>2. CASE i \notin S
    <3>1. S \cap (1..i) = S \cap (1..i - 1)
      BY <2>2
    <3>2. QED
      BY <1>2, <3>1
  <2>3. QED
    BY <2>1, <2>2
<1>3. \A i \in 1..n : i - 1 \in G => i \in G
  BY <1>2
<1>4. n \in G
  <2> HIDE DEF G
  <2>1. QED
    BY <1>1, <1>3, IndexInduction
<1>5. n \in G /\ S \cap (1..n) = S
  BY <1>4
<1>6. \E x \in S : \A y \in S : x >= y
  BY <1>5
<1>7. QED
  BY <1>6 DEF Max

Folds(h, n, b, F) ==
  /\ h[{}] = b
  /\ \A S \in (SUBSET (1..n)) \ {{}} : h[S] = F[Max(S)][h[S \ {Max(S)}]]

LEMMA FoldRuns ==
  ASSUME NEW n \in Nat, NEW V, NEW b \in V, NEW F \in [1..n -> [V -> V]]
  PROVE  \E h \in [SUBSET (1..n) -> V] : Folds(h, n, b, F)
<1> DEFINE D(i) == SUBSET (1..i)
           Rec(h, i) == /\ h \in [D(i) -> V]
                        /\ h[{}] = b
                        /\ \A S \in D(i) \ {{}} : h[S] = F[Max(S)][h[S \ {Max(S)}]]
           G == {i \in 0..n : \E h : Rec(h, i)}
<1>1. 0 \in G
  <2>1. Rec([S \in D(0) |-> b], 0)
    OBVIOUS
  <2>2. QED
    BY <2>1
<1>2. ASSUME NEW i \in 1..n, i - 1 \in G
      PROVE  i \in G
  <2>1. PICK h : Rec(h, i - 1)
    BY <1>2
  <2> DEFINE g == [S \in D(i) |-> IF i \in S THEN F[i][h[S \ {i}]] ELSE h[S]]
  <2>2. ASSUME NEW S \in D(i)
        PROVE  /\ i \notin S => S \in D(i - 1)
               /\ S \ {i} \in D(i - 1)
    OBVIOUS
  <2>3. g \in [D(i) -> V]
    BY <2>1, <2>2
  <2>4. g[{}] = b
    BY <2>1
  <2>5. ASSUME NEW S \in D(i) \ {{}}
        PROVE  g[S] = F[Max(S)][g[S \ {Max(S)}]]
    <3>1. CASE i \in S
      <4>1. Max(S) = i
        BY <3>1, MaxOfOthers
      <4>2. S \ {i} \in D(i) /\ i \notin S \ {i}
        OBVIOUS
      <4>3. g[S \ {i}] = h[S \ {i}] /\ g[S] = F[i][h[S \ {i}]]
        BY <3>1, <4>2
      <4>4. QED
        BY <4>1, <4>3
    <3>2. CASE i \notin S
      <4>1. S \in D(i - 1) \ {{}} /\ S \ {Max(S)} \in D(i) /\ i \notin S \ {Max(S)}
        BY <2>2, <3>2
      <4>2. g[S] = h[S] /\ g[S \ {Max(S)}] = h[S \ {Max(S)}]
        BY <3>2, <4>1
      <4>3. QED
        BY <2>1, <4>1, <4>2
    <3>3. QED
      BY <3>1, <3>2
  <2>6. Rec(g, i)
    <3> HIDE DEF g, D
    <3>1. QED
      BY <2>3, <2>4, <2>5
  <2>7. QED
    <3> HIDE DEF Rec, g
    <3>1. QED
      BY <2>6
<1>3. \A i \in 1..n : i - 1 \in G => i \in G
  BY <1>2
<1>4. n \in G
  <2> HIDE DEF G
  <2>1. QED
    BY <1>1, <1>3, IndexInduction
<1>5. QED
  BY <1>4 DEF Folds

FoldsIn(iter, n, V, b, F) ==
  /\ iter[{}] = b
  /\ \A S \in (SUBSET (1..n)) \ {{}} :
       iter[S \ {Max(S)}] \in V => iter[S] = F[Max(S)][iter[S \ {Max(S)}]]

RunsTo(run, n, b, F, result) ==
  /\ run[0] = b
  /\ \A i \in 1..n : run[i] = F[i][run[i - 1]]
  /\ result = run[n]

(* A function that folds with F whatever comes from V runs through V.        *)
LEMMA FoldIs ==
  ASSUME NEW n \in Nat, NEW V, NEW b \in V, NEW F \in [1..n -> [V -> V]], NEW iter,
         FoldsIn(iter, n, V, b, F)
  PROVE  \E run \in [0..n -> V] : RunsTo(run, n, b, F, iter[1..n])
<1> DEFINE run == [i \in 0..n |-> iter[1..i]]
           G == {i \in 0..n : run[i] \in V}
<1>1. run[0] = b /\ run[n] = iter[1..n]
  BY DEF FoldsIn
<1>2. ASSUME NEW i \in 1..n, run[i - 1] \in V
      PROVE  run[i] = F[i][run[i - 1]]
  <2>1. Max(1..i) = i /\ (1..i) \ {i} = 1..i - 1 /\ 1..i # {}
    <3>1. i \in Nat \ {0}
      OBVIOUS
    <3>2. QED
      BY <3>1, MaxOfPrefix
  <2>2. 1..i \in SUBSET (1..n) /\ i - 1 \in 0..n /\ i \in 0..n
    OBVIOUS
  <2>3. iter[1..i - 1] \in V => iter[1..i] = F[i][iter[1..i - 1]]
    BY <2>1, <2>2 DEF FoldsIn
  <2>4. QED
    BY <1>2, <2>2, <2>3
<1>3. 0 \in G /\ \A i \in 1..n : i - 1 \in G => i \in G
  <2> HIDE DEF run
  <2>1. QED
    BY <1>1, <1>2
<1>4. \A i \in 0..n : i \in G
  <2> HIDE DEF G
  <2>1. QED
    BY <1>3, IndexInduction
<1>5. run \in [0..n -> V]
  BY <1>4
<1>6. \A i \in 1..n : run[i] = F[i][run[i - 1]]
  <2> HIDE DEF run
  <2>1. QED
    BY <1>2, <1>5
<1>7. RunsTo(run, n, b, F, iter[1..n])
  <2> HIDE DEF run
  <2>1. QED
    BY <1>1, <1>6 DEF RunsTo
<1>8. QED
  <2> HIDE DEF run
  <2>1. QED
    BY <1>5, <1>7

-----------------------------------------------------------------------------
Kept(q, d, c) == IF d = c THEN q ELSE Append(q, d)
Queued(b, k, c) == [b EXCEPT ![k] = Append(@, c)]

(* The folds of the module: a queue without a client,                        *)
AllKept(b, q, c) == FoldLeft(LAMBDA r, d : IF d = c THEN r ELSE Append(r, d), b, q)

LEMMA WithoutRuns ==
  ASSUME NEW c, NEW V, NEW b \in V, NEW n \in Nat, NEW q, DOMAIN q = 1..n,
         \A v \in V : \A i \in 1..n : Kept(v, q[i], c) \in V
  PROVE  /\ AllKept(b, q, c) \in V
         /\ \E run \in [0..n -> V] :
              /\ run[0] = b
              /\ \A i \in 1..n : run[i] = Kept(run[i - 1], q[i], c)
              /\ AllKept(b, q, c) = run[n]
<1> DEFINE F == [i \in 1..n |-> [v \in V |-> Kept(v, q[i], c)]]
           Is(h) == h = [S \in SUBSET (1..n) |->
                           IF S = {} THEN b ELSE Kept(h[S \ {Max(S)}], q[Max(S)], c)]
           iter == CHOOSE h : Is(h)
<1>1. AllKept(b, q, c) = iter[1..n]
  BY DEF AllKept, FoldLeft, MapThenFoldSet, Kept
<1>2. F \in [1..n -> [V -> V]]
  OBVIOUS
<1>3. \A S \in (SUBSET (1..n)) \ {{}} : Max(S) \in 1..n
  BY MaxOfSet
<1>4. PICK h \in [SUBSET (1..n) -> V] : Folds(h, n, b, F)
  <2> HIDE DEF F
  <2>1. QED
    BY <1>2, FoldRuns
<1>5. Is(h)
  BY <1>3, <1>4 DEF Folds
<1>6. Is(iter)
  <2> HIDE DEF Is
  <2>1. QED
    BY <1>5
<1>7. FoldsIn(iter, n, V, b, F)
  <2> HIDE DEF iter
  <2>1. QED
    BY <1>3, <1>6 DEF FoldsIn
<1>8. PICK run \in [0..n -> V] : RunsTo(run, n, b, F, iter[1..n])
  <2> HIDE DEF F, iter
  <2>1. QED
    BY <1>2, <1>7, FoldIs
<1>9. \A i \in 1..n : run[i] = Kept(run[i - 1], q[i], c)
  <2>1. \A i \in 1..n : run[i - 1] \in V
    OBVIOUS
  <2>2. QED
    BY <1>8, <2>1 DEF RunsTo
<1>10. run[0] = b /\ AllKept(b, q, c) = run[n]
  BY <1>1, <1>8 DEF RunsTo
<1>11. AllKept(b, q, c) \in V
  BY <1>10
<1>12. QED
  BY <1>9, <1>10, <1>11

(* a client that queues for its keys,                                        *)
AllQueued(b, q, c) == FoldLeft(LAMBDA r, k : [r EXCEPT ![k] = Append(@, c)], b, q)

LEMMA QueuedRuns ==
  ASSUME NEW c, NEW V, NEW b \in V, NEW n \in Nat, NEW q, DOMAIN q = 1..n,
         \A v \in V : \A i \in 1..n : Queued(v, q[i], c) \in V
  PROVE  /\ AllQueued(b, q, c) \in V
         /\ \E run \in [0..n -> V] :
              /\ run[0] = b
              /\ \A i \in 1..n : run[i] = Queued(run[i - 1], q[i], c)
              /\ AllQueued(b, q, c) = run[n]
<1> DEFINE F == [i \in 1..n |-> [v \in V |-> Queued(v, q[i], c)]]
           Is(h) == h = [S \in SUBSET (1..n) |->
                           IF S = {} THEN b ELSE Queued(h[S \ {Max(S)}], q[Max(S)], c)]
           iter == CHOOSE h : Is(h)
<1>1. AllQueued(b, q, c) = iter[1..n]
  BY DEF AllQueued, FoldLeft, MapThenFoldSet, Queued
<1>2. F \in [1..n -> [V -> V]]
  OBVIOUS
<1>3. \A S \in (SUBSET (1..n)) \ {{}} : Max(S) \in 1..n
  BY MaxOfSet
<1>4. PICK h \in [SUBSET (1..n) -> V] : Folds(h, n, b, F)
  <2> HIDE DEF F
  <2>1. QED
    BY <1>2, FoldRuns
<1>5. Is(h)
  BY <1>3, <1>4 DEF Folds
<1>6. Is(iter)
  <2> HIDE DEF Is
  <2>1. QED
    BY <1>5
<1>7. FoldsIn(iter, n, V, b, F)
  <2> HIDE DEF iter
  <2>1. QED
    BY <1>3, <1>6 DEF FoldsIn
<1>8. PICK run \in [0..n -> V] : RunsTo(run, n, b, F, iter[1..n])
  <2> HIDE DEF F, iter
  <2>1. QED
    BY <1>2, <1>7, FoldIs
<1>9. \A i \in 1..n : run[i] = Queued(run[i - 1], q[i], c)
  <2>1. \A i \in 1..n : run[i - 1] \in V
    OBVIOUS
  <2>2. QED
    BY <1>8, <2>1 DEF RunsTo
<1>10. run[0] = b /\ AllQueued(b, q, c) = run[n]
  BY <1>1, <1>8 DEF RunsTo
<1>11. AllQueued(b, q, c) \in V
  BY <1>10
<1>12. QED
  BY <1>9, <1>10, <1>11

(* the journey of an element,                                                *)
AllOffers(b, q) == FoldLeft(LAMBDA o, i : Offer(o), b, q)

LEMMA OfferRuns ==
  ASSUME NEW V, NEW b \in V, NEW n \in Nat, NEW q, DOMAIN q = 1..n,
         \A v \in V : \A i \in 1..n : Offer(v) \in V
  PROVE  /\ AllOffers(b, q) \in V
         /\ \E run \in [0..n -> V] :
              /\ run[0] = b
              /\ \A i \in 1..n : run[i] = Offer(run[i - 1])
              /\ AllOffers(b, q) = run[n]
<1> DEFINE F == [i \in 1..n |-> [v \in V |-> Offer(v)]]
           Is(h) == h = [S \in SUBSET (1..n) |->
                           IF S = {} THEN b ELSE Offer(h[S \ {Max(S)}])]
           iter == CHOOSE h : Is(h)
<1>1. AllOffers(b, q) = iter[1..n]
  BY DEF AllOffers, FoldLeft, MapThenFoldSet
<1>2. F \in [1..n -> [V -> V]]
  OBVIOUS
<1>3. \A S \in (SUBSET (1..n)) \ {{}} : Max(S) \in 1..n
  BY MaxOfSet
<1>4. PICK h \in [SUBSET (1..n) -> V] : Folds(h, n, b, F)
  <2> HIDE DEF F
  <2>1. QED
    BY <1>2, FoldRuns
<1>5. Is(h)
  BY <1>3, <1>4 DEF Folds
<1>6. Is(iter)
  <2> HIDE DEF Is
  <2>1. QED
    BY <1>5
<1>7. FoldsIn(iter, n, V, b, F)
  <2> HIDE DEF iter
  <2>1. QED
    BY <1>3, <1>6 DEF FoldsIn
<1>8. PICK run \in [0..n -> V] : RunsTo(run, n, b, F, iter[1..n])
  <2> HIDE DEF F, iter
  <2>1. QED
    BY <1>2, <1>7, FoldIs
<1>9. \A i \in 1..n : run[i] = Offer(run[i - 1])
  <2>1. \A i \in 1..n : run[i - 1] \in V
    OBVIOUS
  <2>2. QED
    BY <1>8, <2>1 DEF RunsTo
<1>10. run[0] = b /\ AllOffers(b, q) = run[n]
  BY <1>1, <1>8 DEF RunsTo
<1>11. AllOffers(b, q) \in V
  BY <1>10
<1>12. QED
  BY <1>9, <1>10, <1>11

(* the elements of a push,                                                   *)
AllRounds(b, q, key, where) == FoldLeft(LAMBDA p, v : PushRound(p, v, key, where), b, q)

RoundsStay(V, n, q, key, where) ==
  \A v \in V : \A i \in 1..n : PushRound(v, q[i], key, where) \in V

RoundsRun(run, b, n, q, key, where) ==
  /\ run[0] = b
  /\ \A i \in 1..n : run[i] = PushRound(run[i - 1], q[i], key, where)

LEMMA PushRuns ==
  ASSUME NEW key, NEW where, NEW V, NEW b \in V, NEW n \in Nat, NEW q, DOMAIN q = 1..n,
         RoundsStay(V, n, q, key, where)
  PROVE  /\ AllRounds(b, q, key, where) \in V
         /\ \E run \in [0..n -> V] :
              RoundsRun(run, b, n, q, key, where) /\ AllRounds(b, q, key, where) = run[n]
<1> DEFINE F == [i \in 1..n |-> [v \in V |-> PushRound(v, q[i], key, where)]]
           Is(h) == h = [S \in SUBSET (1..n) |->
                           IF S = {} THEN b ELSE PushRound(h[S \ {Max(S)}], q[Max(S)], key, where)]
           iter == CHOOSE h : Is(h)
<1>1. AllRounds(b, q, key, where) = iter[1..n]
  BY DEF AllRounds, FoldLeft, MapThenFoldSet
<1>2. F \in [1..n -> [V -> V]]
  BY DEF RoundsStay
<1>3. \A S \in (SUBSET (1..n)) \ {{}} : Max(S) \in 1..n
  BY MaxOfSet
<1>4. PICK h \in [SUBSET (1..n) -> V] : Folds(h, n, b, F)
  <2> HIDE DEF F
  <2>1. QED
    BY <1>2, FoldRuns
<1>5. Is(h)
  BY <1>3, <1>4 DEF Folds
<1>6. Is(iter)
  <2> HIDE DEF Is
  <2>1. QED
    BY <1>5
<1>7. FoldsIn(iter, n, V, b, F)
  <2> HIDE DEF iter
  <2>1. QED
    BY <1>3, <1>6 DEF FoldsIn
<1>8. PICK run \in [0..n -> V] : RunsTo(run, n, b, F, iter[1..n])
  <2> HIDE DEF F, iter
  <2>1. QED
    BY <1>2, <1>7, FoldIs
<1>9. \A i \in 1..n : run[i] = PushRound(run[i - 1], q[i], key, where)
  <2>1. \A i \in 1..n : run[i - 1] \in V
    OBVIOUS
  <2>2. QED
    BY <1>8, <2>1 DEF RunsTo
<1>10. run[0] = b /\ AllRounds(b, q, key, where) = run[n]
  BY <1>1, <1>8 DEF RunsTo
<1>11. AllRounds(b, q, key, where) \in V
  BY <1>10
<1>12. QED
  BY <1>9, <1>10, <1>11 DEF RoundsRun

(* the commands of a transaction.                                            *)
AllCalls(b, q, c) == FoldLeft(LAMBDA t, argv : call(t, c, argv), b, q)

CallsStay(V, n, q, c) == \A v \in V : \A i \in 1..n : call(v, c, q[i]) \in V

CallsRun(run, b, n, q, c) ==
  /\ run[0] = b
  /\ \A i \in 1..n : run[i] = call(run[i - 1], c, q[i])

LEMMA CallRuns ==
  ASSUME NEW c, NEW V, NEW b \in V, NEW n \in Nat, NEW q, DOMAIN q = 1..n,
         CallsStay(V, n, q, c)
  PROVE  /\ AllCalls(b, q, c) \in V
         /\ \E run \in [0..n -> V] : CallsRun(run, b, n, q, c) /\ AllCalls(b, q, c) = run[n]
<1> DEFINE F == [i \in 1..n |-> [v \in V |-> call(v, c, q[i])]]
           Is(h) == h = [S \in SUBSET (1..n) |->
                           IF S = {} THEN b ELSE call(h[S \ {Max(S)}], c, q[Max(S)])]
           iter == CHOOSE h : Is(h)
<1>1. AllCalls(b, q, c) = iter[1..n]
  BY DEF AllCalls, FoldLeft, MapThenFoldSet
<1>2. F \in [1..n -> [V -> V]]
  BY DEF CallsStay
<1>3. \A S \in (SUBSET (1..n)) \ {{}} : Max(S) \in 1..n
  BY MaxOfSet
<1>4. PICK h \in [SUBSET (1..n) -> V] : Folds(h, n, b, F)
  <2> HIDE DEF F
  <2>1. QED
    BY <1>2, FoldRuns
<1>5. Is(h)
  BY <1>3, <1>4 DEF Folds
<1>6. Is(iter)
  <2> HIDE DEF Is
  <2>1. QED
    BY <1>5
<1>7. FoldsIn(iter, n, V, b, F)
  <2> HIDE DEF iter
  <2>1. QED
    BY <1>3, <1>6 DEF FoldsIn
<1>8. PICK run \in [0..n -> V] : RunsTo(run, n, b, F, iter[1..n])
  <2> HIDE DEF F, iter
  <2>1. QED
    BY <1>2, <1>7, FoldIs
<1>9. \A i \in 1..n : run[i] = call(run[i - 1], c, q[i])
  <2>1. \A i \in 1..n : run[i - 1] \in V
    OBVIOUS
  <2>2. QED
    BY <1>8, <2>1 DEF RunsTo
<1>10. run[0] = b /\ AllCalls(b, q, c) = run[n]
  BY <1>1, <1>8 DEF RunsTo
<1>11. AllCalls(b, q, c) \in V
  BY <1>10
<1>12. QED
  BY <1>9, <1>10, <1>11 DEF CallsRun

-----------------------------------------------------------------------------
(* Servers *)

Item == {Nothing, Text} \cup {List(items) : items \in Seq(Values)}
Data == [Keys -> Item]
Connection ==
  [multi : BOOLEAN, dirtyCas : BOOLEAN, queue : Seq(Commands), watched : SUBSET WatchKeys,
   keys : Seq(WaitKeys), target : TargetKeys \cup {NoKey}]
Servers ==
  [db : Data, client : [Clients -> Connection], blocking : [Keys -> Seq(Clients)],
   replica : Data, argv : Commands \cup {NoCommand}, dirty : Nat]

Proper(d) == \A k \in Keys : d[k] # List(<<>>)

(* What a command may do to a client: a transaction is not put to sleep, and *)
(* is aborted only if the client watches something.                          *)
Excused(b) == b.dirtyCas \/ b.watched = {}
Reaction(a, b) ==
  /\ b.multi = a.multi /\ b.queue = a.queue
  /\ b.watched = a.watched \/ b.watched = {}
  /\ a.multi => b.keys = a.keys \/ b.keys = <<>>
  /\ (a.dirtyCas => a.watched # {}) => (b.dirtyCas => b.watched # {})
  /\ a.dirtyCas => Excused(b)

(* From s to t a command has changed no key without telling, but for those   *)
(* in U.                                                                     *)
Moves(s, t, U) ==
  /\ t \in Servers
  /\ \A d \in Clients : /\ Reaction(s.client[d], t.client[d])
                        /\ \A k \in s.client[d].watched \ U :
                             t.db[k] # s.db[k] => Excused(t.client[d])

(* And has made nobody wait.                                                 *)
Fewer(s, t) == \A k \in Keys : t.blocking[k] # <<>> => s.blocking[k] # <<>>

SameButData(s, t) ==
  t.client = s.client /\ t.blocking = s.blocking /\ t.replica = s.replica /\ t.argv = s.argv

LEMMA Items ==
  /\ Nothing \in Item /\ Text \in Item /\ \A items \in Seq(Values) : List(items) \in Item
  /\ \A o \in Item : /\ o.type = "list" => o.items \in Seq(Values) /\ o = List(o.items)
                     /\ o.type # "list" => o \in {Nothing, Text} /\ o.items = <<>>
                     /\ o.items \in Seq(Values)
                     /\ o.type = "none" <=> o = Nothing
                     /\ o.type = "string" <=> o = Text
  /\ Nothing # List(<<>>) /\ Text # List(<<>>) /\ Nothing # Text
  /\ \A items \in Seq(Values) : /\ List(items).type = "list" /\ List(items).items = items
                                /\ List(items) # Nothing /\ List(items) # Text
                                /\ List(items) = List(<<>>) => items = <<>>
  /\ Nothing.type = "none" /\ Text.type = "string"
<1>1. /\ Nothing.type = "none" /\ Nothing.items = <<>> /\ Text.type = "string" /\ Text.items = <<>>
      /\ Nothing \in Item /\ Text \in Item /\ <<>> \in Seq(Values)
  BY DEF Item, Nothing, Text
<1>2. \A items \in Seq(Values) : /\ List(items).type = "list" /\ List(items).items = items
                                /\ List(items) \in Item
  BY DEF Item, List
<1>3. ASSUME NEW o \in Item
      PROVE  /\ o.type = "list" => o.items \in Seq(Values) /\ o = List(o.items)
             /\ o.type # "list" => o \in {Nothing, Text} /\ o.items = <<>>
             /\ o.items \in Seq(Values)
             /\ o.type = "none" <=> o = Nothing
             /\ o.type = "string" <=> o = Text
  <2>1. o = Nothing \/ o = Text \/ \E items \in Seq(Values) : o = List(items)
    BY DEF Item
  <2>2. CASE o = Nothing
    BY <1>1, <2>2
  <2>3. CASE o = Text
    BY <1>1, <2>3
  <2>4. CASE \E items \in Seq(Values) : o = List(items)
    BY <1>1, <1>2, <2>4
  <2>5. QED
    BY <2>1, <2>2, <2>3, <2>4
<1>4. ASSUME NEW items \in Seq(Values)
      PROVE  /\ List(items).type = "list" /\ List(items).items = items
             /\ List(items) # Nothing /\ List(items) # Text
             /\ List(items) = List(<<>>) => items = <<>>
  BY <1>1, <1>2
<1>5. Nothing # List(<<>>) /\ Text # List(<<>>) /\ Nothing # Text
  BY <1>1, <1>4
<1>6. QED
  BY <1>1, <1>2, <1>3, <1>4, <1>5

LEMMA PutIs ==
  ASSUME NEW s \in Servers, NEW k \in Keys, NEW o \in Item
  PROVE  /\ Put(s, k, o) \in Servers /\ SameButData(s, Put(s, k, o))
         /\ Put(s, k, o).db = [s.db EXCEPT ![k] = o] /\ Put(s, k, o).dirty = s.dirty
BY DEF Put, Servers, Data, SameButData

LEMMA ChangedIs ==
  ASSUME NEW s \in Servers
  PROVE  /\ Changed(s) \in Servers /\ SameButData(s, Changed(s))
         /\ Changed(s).db = s.db /\ Changed(s).dirty = s.dirty + 1
BY DEF Changed, Servers, SameButData

(* A client marked when one of the keys K is watched.                        *)
Marked(a, K) == IF a.watched \cap K # {} THEN [a EXCEPT !.dirtyCas = TRUE] ELSE a
Marks(s, t, K) ==
  /\ t \in Servers /\ t.db = s.db /\ t.blocking = s.blocking
  /\ t.replica = s.replica /\ t.argv = s.argv /\ t.dirty = s.dirty
  /\ \A d \in Clients : t.client[d] = Marked(s.client[d], K)

LEMMA MarkedIs ==
  ASSUME NEW a \in Connection, NEW K
  PROVE  /\ Marked(a, K) \in Connection
         /\ Marked(a, K).multi = a.multi /\ Marked(a, K).queue = a.queue
         /\ Marked(a, K).watched = a.watched /\ Marked(a, K).keys = a.keys
         /\ Marked(a, K).target = a.target
         /\ a.watched \cap K # {} => Marked(a, K).dirtyCas
         /\ a.watched \cap K = {} => Marked(a, K) = a
         /\ a.dirtyCas => Marked(a, K).dirtyCas
<1>1. CASE a.watched \cap K = {}
  BY <1>1 DEF Marked
<1>2. CASE a.watched \cap K # {}
  BY <1>2 DEF Marked, Connection
<1>3. QED
  BY <1>1, <1>2

LEMMA SignalIs ==
  ASSUME NEW s \in Servers, NEW k \in Keys
  PROVE  Marks(s, signalModifiedKey(s, k), {k})
<1> DEFINE t == signalModifiedKey(s, k)
<1>1. t = [s EXCEPT !.client = [c \in Clients |-> Marked(s.client[c], {k})]]
  <2>1. \A c \in Clients : Marked(s.client[c], {k}) =
          IF k \in s.client[c].watched
            THEN [s.client[c] EXCEPT !.dirtyCas = TRUE] ELSE s.client[c]
    BY DEF Marked
  <2>2. QED
    BY <2>1 DEF signalModifiedKey
<1>2. \A c \in Clients : Marked(s.client[c], {k}) \in Connection
  BY MarkedIs DEF Servers
<1>3. QED
  BY <1>1, <1>2 DEF Marks, Servers

LEMMA FlushIs ==
  ASSUME NEW s \in Servers, NEW K
  PROVE  Marks(s, touchWatchedKeysOnFlush(s, K), K)
<1> DEFINE t == touchWatchedKeysOnFlush(s, K)
<1>1. t = [s EXCEPT !.client = [c \in Clients |-> Marked(s.client[c], K)]]
  BY DEF touchWatchedKeysOnFlush, Marked
<1>2. \A c \in Clients : Marked(s.client[c], K) \in Connection
  BY MarkedIs DEF Servers
<1>3. QED
  BY <1>1, <1>2 DEF Marks, Servers

DropEmpty(d, k) == IF d[k] = List(<<>>) THEN [d EXCEPT ![k] = Nothing] ELSE d

LEMMA DeleteIfEmptyIs ==
  ASSUME NEW s \in Servers, NEW k \in Keys
  PROVE  /\ dbDeleteIfEmpty(s, k) \in Servers /\ SameButData(s, dbDeleteIfEmpty(s, k))
         /\ dbDeleteIfEmpty(s, k).db = DropEmpty(s.db, k)
         /\ dbDeleteIfEmpty(s, k).dirty = s.dirty
BY PutIs, Items DEF dbDeleteIfEmpty, DropEmpty, SameButData

LEMMA DropEmptyIs ==
  ASSUME NEW d \in Data, NEW k \in Keys
  PROVE  /\ DropEmpty(d, k) \in Data
         /\ \A j \in Keys \ {k} : DropEmpty(d, k)[j] = d[j]
         /\ DropEmpty(d, k)[k] # List(<<>>)
         /\ DropEmpty(d, k)[k].type = "list" => d[k].type = "list"
         /\ (\A j \in Keys \ {k} : d[j] # List(<<>>)) => Proper(DropEmpty(d, k))
BY Items DEF DropEmpty, Data, Proper

(* A queue without c has nobody who was not there, and not c.                *)
LEMMA WithoutIs ==
  ASSUME NEW q \in Seq(Clients), NEW c
  PROVE  /\ Without(q, c) \in Seq(Clients)
         /\ \A i \in 1..Len(Without(q, c)) :
              /\ Without(q, c)[i] # c
              /\ \E j \in 1..Len(q) : q[j] = Without(q, c)[i]
         /\ q = <<>> => Without(q, c) = <<>>
<1> DEFINE V == {r \in Seq(Clients) : \A i \in 1..Len(r) :
                   r[i] # c /\ \E j \in 1..Len(q) : q[j] = r[i]}
<1>1. <<>> \in V
  OBVIOUS
<1>2. ASSUME NEW r \in V, NEW j \in 1..Len(q)
      PROVE  Kept(r, q[j], c) \in V
  <2>1. CASE q[j] = c
    BY <2>1 DEF Kept
  <2>2. CASE q[j] # c
    <3>1. /\ Append(r, q[j]) \in Seq(Clients) /\ Len(Append(r, q[j])) = Len(r) + 1
          /\ \A i \in 1..Len(r) : Append(r, q[j])[i] = r[i]
          /\ Append(r, q[j])[Len(r) + 1] = q[j]
      BY AppendProperties
    <3>2. Kept(r, q[j], c) = Append(r, q[j])
      BY <2>2 DEF Kept
    <3> DEFINE a == Append(r, q[j])
    <3>3. \A i \in 1..Len(a) : i \in 1..Len(r) \/ i = Len(r) + 1
      BY <3>1
    <3> HIDE DEF a
    <3>4. \A i \in 1..Len(a) : a[i] # c /\ \E h \in 1..Len(q) : q[h] = a[i]
      BY <2>2, <3>1, <3>3 DEF a
    <3>5. QED
      BY <3>1, <3>2, <3>4 DEF a
  <2>3. QED
    BY <2>1, <2>2
<1>3. Len(q) \in Nat /\ DOMAIN q = 1..Len(q)
  OBVIOUS
<1>4. Without(q, c) = AllKept(<<>>, q, c)
  BY DEF Without, AllKept
<1>5. AllKept(<<>>, q, c) \in V
  <2> HIDE DEF V
  <2>1. QED
    BY <1>1, <1>2, <1>3, WithoutRuns
<1>6. Without(q, c) \in V
  BY <1>4, <1>5
<1>7. QED
  BY <1>6

Awake(a) == [a EXCEPT !.keys = <<>>, !.target = NoKey]

LEMMA AwakeIs ==
  ASSUME NEW a \in Connection
  PROVE  /\ Awake(a) \in Connection
         /\ Awake(a).multi = a.multi /\ Awake(a).queue = a.queue
         /\ Awake(a).watched = a.watched /\ Awake(a).dirtyCas = a.dirtyCas
         /\ Awake(a).keys = <<>>
<1>1. <<>> \in Seq(WaitKeys)
  OBVIOUS
<1>2. QED
  BY <1>1 DEF Awake, Connection

LEMMA UnblockIs ==
  ASSUME NEW s \in Servers, NEW c \in Clients
  PROVE  LET t == unblockClientWaitingData(s, c)
         IN  /\ t \in Servers
             /\ t.db = s.db /\ t.replica = s.replica /\ t.argv = s.argv /\ t.dirty = s.dirty
             /\ \A d \in Clients \ {c} : t.client[d] = s.client[d]
             /\ t.client[c] = Awake(s.client[c])
             /\ \A k \in Keys : t.blocking[k] = Without(s.blocking[k], c)
             /\ Fewer(s, t)
<1> DEFINE t == unblockClientWaitingData(s, c)
<1>1. \A k \in Keys : /\ Without(s.blocking[k], c) \in Seq(Clients)
                      /\ s.blocking[k] = <<>> => Without(s.blocking[k], c) = <<>>
  BY WithoutIs DEF Servers
<1>2. Awake(s.client[c]) \in Connection
  BY AwakeIs DEF Servers
<1>3. t = [s EXCEPT !.client[c] = Awake(s.client[c]),
                    !.blocking = [k \in Keys |-> Without(s.blocking[k], c)]]
  BY DEF unblockClientWaitingData, Awake, Servers
<1> HIDE DEF t
<1>4. /\ t \in Servers
      /\ t.db = s.db /\ t.replica = s.replica /\ t.argv = s.argv /\ t.dirty = s.dirty
      /\ t.client = [s.client EXCEPT ![c] = Awake(s.client[c])]
      /\ t.blocking = [k \in Keys |-> Without(s.blocking[k], c)]
  BY <1>1, <1>2, <1>3 DEF Servers
<1>5. s.client \in [Clients -> Connection]
  BY DEF Servers
<1>6. QED
  BY <1>1, <1>4, <1>5 DEF Fewer, t

-----------------------------------------------------------------------------
(* What commands are made of *)

LEMMA ReactionSelf ==
  ASSUME NEW a
  PROVE  Reaction(a, a)
BY DEF Reaction, Excused

LEMMA MovesSelf ==
  ASSUME NEW s \in Servers, NEW U
  PROVE  Moves(s, s, U)
BY ReactionSelf DEF Moves

(* A change of the dataset, which may still be to be told.                   *)
LEMMA MovesData ==
  ASSUME NEW s \in Servers, NEW t, NEW U, Moves(s, t, U), NEW W, U \subseteq W,
         NEW u \in Servers, u.client = t.client, \A k \in Keys \ W : u.db[k] = t.db[k]
  PROVE  Moves(s, u, W)
<1>1. \A d \in Clients : s.client[d].watched \subseteq Keys
  BY UsageAssumption DEF Servers, Connection
<1>2. QED
  BY <1>1 DEF Moves

(* The clients that watch the keys K are told.                               *)
LEMMA MovesMarks ==
  ASSUME NEW s \in Servers, NEW t, NEW U, Moves(s, t, U), NEW u, NEW K, Marks(t, u, K),
         NEW W, U \ K \subseteq W
  PROVE  Moves(s, u, W)
<1>1. ASSUME NEW d \in Clients
      PROVE  /\ Reaction(s.client[d], u.client[d])
             /\ \A k \in s.client[d].watched \ W : u.db[k] # s.db[k] => Excused(u.client[d])
  <2> DEFINE a == s.client[d]
             b == t.client[d]
  <2>1. u.client[d] = Marked(b, K) /\ b \in Connection /\ u.db = t.db
    BY DEF Marks, Moves, Servers
  <2>2. Reaction(a, b) /\ \A k \in a.watched \ U : t.db[k] # s.db[k] => Excused(b)
    BY DEF Moves
  <2>3. /\ Marked(b, K).multi = b.multi /\ Marked(b, K).queue = b.queue
        /\ Marked(b, K).watched = b.watched /\ Marked(b, K).keys = b.keys
        /\ b.watched \cap K # {} => Marked(b, K).dirtyCas
        /\ b.watched \cap K = {} => Marked(b, K) = b
        /\ b.dirtyCas => Marked(b, K).dirtyCas
    BY <2>1, MarkedIs
  <2> DEFINE m == Marked(b, K)
  <2> HIDE DEF a, b, m
  <2>4. Excused(b) => Excused(m)
    BY <2>3 DEF Excused, m
  <2>5. Reaction(a, m)
    BY <2>2, <2>3, <2>4 DEF Reaction, m
  <2>6. ASSUME NEW k \in a.watched \ W, t.db[k] # s.db[k]
        PROVE  Excused(m)
    <3>1. CASE k \notin U
      BY <2>2, <2>4, <2>6, <3>1
    <3>2. CASE k \in U
      <4>1. k \in K /\ (b.watched = a.watched \/ b.watched = {})
        BY <2>2, <2>6, <3>2 DEF Reaction
      <4>2. QED
        BY <2>3, <2>6, <4>1 DEF Excused, m
    <3>3. QED
      BY <3>1, <3>2
  <2>7. QED
    BY <2>1, <2>5, <2>6 DEF a, b, m
<1>2. u \in Servers
  BY DEF Marks
<1>3. QED
  BY <1>1, <1>2 DEF Moves

LEMMA MovesUnblock ==
  ASSUME NEW s \in Servers, NEW t, NEW U, Moves(s, t, U), NEW c \in Clients
  PROVE  Moves(s, unblockClientWaitingData(t, c), U)
<1> DEFINE u == unblockClientWaitingData(t, c)
<1>1. t \in Servers
  BY DEF Moves
<1>2. /\ u \in Servers /\ u.db = t.db
      /\ \A d \in Clients \ {c} : u.client[d] = t.client[d]
      /\ u.client[c] = Awake(t.client[c])
  BY <1>1, UnblockIs
<1> HIDE DEF u
<1>3. ASSUME NEW d \in Clients
      PROVE  /\ u.client[d].multi = t.client[d].multi /\ u.client[d].queue = t.client[d].queue
             /\ u.client[d].watched = t.client[d].watched
             /\ u.client[d].dirtyCas = t.client[d].dirtyCas
             /\ u.client[d].keys = t.client[d].keys \/ u.client[d].keys = <<>>
  <2>1. t.client[c] \in Connection
    BY <1>1 DEF Servers
  <2>2. QED
    BY <1>2, <2>1, AwakeIs
<1>4. ASSUME NEW d \in Clients
      PROVE  /\ Reaction(s.client[d], u.client[d])
             /\ Excused(t.client[d]) => Excused(u.client[d])
  BY <1>3 DEF Moves, Reaction, Excused
<1>5. QED
  BY <1>2, <1>4 DEF Moves, u

-----------------------------------------------------------------------------
(* The journey of an element that is pushed on key: from s, which a command  *)
(* has made of s0, clients are woken and nothing else is changed.            *)

Journeys(s0, s, U, key) ==
  {o \in [s : Servers, key : Keys, taken : BOOLEAN, moved : BOOLEAN] :
     /\ o.s.db = s.db /\ o.s.replica = s.replica /\ o.s.argv = s.argv /\ o.s.dirty = s.dirty
     /\ Moves(s0, o.s, U) /\ Fewer(s, o.s)
     /\ o.moved => o.key \in TargetKeys /\ s.db[o.key].type # "string"
     /\ ~o.moved => o.key = key}

Begun(s, key) == [s |-> s, key |-> key, taken |-> FALSE, moved |-> FALSE]

LEMMA BegunIs ==
  ASSUME NEW s0 \in Servers, NEW s, NEW U, Moves(s0, s, U), NEW key \in Keys
  PROVE  Begun(s, key) \in Journeys(s0, s, U, key)
BY DEF Begun, Journeys, Moves, Fewer

(* The clients that wait for some key.                                       *)
Waiting(s) == {c \in Clients : \E k \in Keys : \E i \in 1..Len(s.blocking[k]) : s.blocking[k][i] = c}

LEMMA UnblockLeaves ==
  ASSUME NEW s \in Servers, NEW c \in Clients
  PROVE  Waiting(unblockClientWaitingData(s, c)) \subseteq Waiting(s) \ {c}
<1> DEFINE t == unblockClientWaitingData(s, c)
<1>1. \A k \in Keys : t.blocking[k] = Without(s.blocking[k], c) /\ s.blocking[k] \in Seq(Clients)
  BY UnblockIs DEF Servers
<1>2. ASSUME NEW d \in Waiting(t)
      PROVE  d \in Waiting(s) \ {c}
  <2>0. PICK k \in Keys : \E i \in 1..Len(t.blocking[k]) : t.blocking[k][i] = d
    BY DEF Waiting
  <2>1. PICK i \in 1..Len(t.blocking[k]) : t.blocking[k][i] = d
    BY <2>0
  <2>2. Without(s.blocking[k], c)[i] # c
        /\ \E j \in 1..Len(s.blocking[k]) : s.blocking[k][j] = Without(s.blocking[k], c)[i]
    BY <1>1, <2>1, WithoutIs
  <2>3. QED
    BY <1>1, <2>1, <2>2 DEF Waiting
<1>3. QED
  BY <1>2

Resting(o) == o.taken \/ o.s.blocking[o.key] = <<>>

(* A round of the loop: the element rests, or wakes a client.                *)
LEMMA OfferIs ==
  ASSUME NEW s0 \in Servers, NEW s, NEW U, Moves(s0, s, U), NEW key \in Keys,
         NEW o \in Journeys(s0, s, U, key)
  PROVE  /\ Offer(o) \in Journeys(s0, s, U, key)
         /\ Resting(o) => Offer(o) = o
         /\ ~Resting(o) => \E c \in Waiting(o.s) : Waiting(Offer(o).s) \subseteq Waiting(o.s) \ {c}
<1>1. CASE Resting(o)
  BY <1>1 DEF Offer, Resting
<1>2. CASE ~Resting(o)
  <2> DEFINE c == Head(o.s.blocking[o.key])
             dst == o.s.client[c].target
             t == unblockClientWaitingData(o.s, c)
  <2>1. /\ o.s \in Servers /\ o.key \in Keys /\ o.taken \in BOOLEAN /\ o.moved \in BOOLEAN
        /\ o.s.db = s.db /\ o.s.replica = s.replica /\ o.s.argv = s.argv /\ o.s.dirty = s.dirty
        /\ Moves(s0, o.s, U) /\ Fewer(s, o.s)
        /\ o \in [s : Servers, key : Keys, taken : BOOLEAN, moved : BOOLEAN]
    BY DEF Journeys
  <2>2. o.s.blocking[o.key] \in Seq(Clients) /\ o.s.blocking[o.key] # <<>>
    BY <1>2, <2>1 DEF Resting, Servers
  <2>3. c \in Clients /\ c = o.s.blocking[o.key][1] /\ 1 \in 1..Len(o.s.blocking[o.key])
    BY <2>2
  <2>4. c \in Waiting(o.s)
    BY <2>1, <2>3 DEF Waiting
  <2>5. dst \in TargetKeys \cup {NoKey}
    BY <2>1, <2>3 DEF Servers, Connection
  <2> HIDE DEF c
  <2>6. /\ t \in Servers /\ t.db = s.db /\ t.replica = s.replica
        /\ t.argv = s.argv /\ t.dirty = s.dirty
        /\ Moves(s0, t, U) /\ Fewer(o.s, t)
        /\ Waiting(t) \subseteq Waiting(o.s) \ {c}
    BY <2>1, <2>3, UnblockIs, MovesUnblock, UnblockLeaves
  <2>7. Fewer(s, t)
    BY <2>1, <2>6 DEF Fewer
  <2> DEFINE Next1 == [o EXCEPT !.s = t, !.taken = TRUE]
             Next2 == [o EXCEPT !.s = t]
             Next3 == [o EXCEPT !.s = t, !.key = dst, !.moved = TRUE]
  <2>8. Offer(o) = CASE dst = NoKey -> Next1
                     [] dst # NoKey /\ t.db[dst].type = "string" -> Next2
                     [] OTHER -> Next3
    BY <1>2 DEF Offer, Resting, c
  <2> HIDE DEF t, dst
  <2> DEFINE R == [s : Servers, key : Keys, taken : BOOLEAN, moved : BOOLEAN]
  <2>9. /\ Next1 \in R /\ Next1.s = t /\ Next1.key = o.key /\ Next1.moved = o.moved
        /\ Next2 \in R /\ Next2.s = t /\ Next2.key = o.key /\ Next2.moved = o.moved
        /\ dst \in Keys => Next3 \in R
        /\ Next3.s = t /\ Next3.key = dst /\ Next3.moved = TRUE
    BY <2>1, <2>6
  <2> HIDE DEF Next1, Next2, Next3
  <2>10. CASE dst = NoKey
    <3>1. Offer(o) = Next1
      BY <2>8, <2>10
    <3>2. QED
      BY <2>1, <2>4, <2>6, <2>7, <2>9, <3>1, <1>2 DEF Journeys
  <2>11. CASE dst # NoKey /\ t.db[dst].type = "string"
    <3>1. Offer(o) = Next2
      BY <2>8, <2>11
    <3>2. QED
      BY <2>1, <2>4, <2>6, <2>7, <2>9, <3>1, <1>2 DEF Journeys
  <2>12. CASE dst # NoKey /\ t.db[dst].type # "string"
    <3>1. Offer(o) = Next3
      BY <2>8, <2>12
    <3>2. dst \in TargetKeys /\ dst \in Keys
      BY <2>5, <2>12, UsageAssumption
    <3>3. QED
      BY <2>1, <2>4, <2>6, <2>7, <2>9, <2>12, <3>1, <3>2, <1>2 DEF Journeys
  <2>13. QED
    BY <2>10, <2>11, <2>12
<1>3. QED
  BY <1>1, <1>2

(* There are as many rounds as clients, so the element rests in the end.     *)
LEMMA JourneyIs ==
  ASSUME NEW s0 \in Servers, NEW s, NEW U, Moves(s0, s, U), NEW key \in Keys
  PROVE  LET o == handleClientsWaitingListPush(s, key)
         IN  /\ o \in Journeys(s0, s, U, key) /\ Resting(o)
             /\ s.blocking[key] = <<>> => o = Begun(s, key)
<1> DEFINE N == Cardinality(Clients)
           V == Journeys(s0, s, U, key)
           rounds == [i \in 1..N |-> i]
           b == Begun(s, key)
<1>1. IsFiniteSet(Clients) /\ N \in Nat
  BY UsageAssumption, FS_CardinalityType
<1>3. b \in V /\ \A o \in V : Offer(o) \in V
  BY BegunIs, OfferIs
<1>4. DOMAIN rounds = 1..N
  OBVIOUS
<1> HIDE DEF V, rounds, N, b
<1>5. PICK run \in [0..N -> V] : /\ run[0] = b
                                 /\ \A i \in 1..N : run[i] = Offer(run[i - 1])
                                 /\ AllOffers(b, rounds) = run[N]
  BY <1>1, <1>3, <1>4, OfferRuns
<1>2. handleClientsWaitingListPush(s, key) = run[N]
  <2>1. handleClientsWaitingListPush(s, key) = AllOffers(b, rounds)
    BY DEF handleClientsWaitingListPush, AllOffers, Begun, b, rounds, N
  <2>2. QED
    BY <1>5, <2>1
<1> DEFINE G == {i \in 0..N : Resting(run[i]) \/ Cardinality(Waiting(run[i].s)) <= N - i}
           H == {i \in 0..N : s.blocking[key] = <<>> => run[i] = b}
<1>6. \A o : /\ Waiting(o) \subseteq Clients /\ IsFiniteSet(Waiting(o))
             /\ Cardinality(Waiting(o)) \in Nat /\ Cardinality(Waiting(o)) <= N
  BY <1>1, FS_Subset, FS_CardinalityType DEF Waiting, N
<1>7. 0 \in G
  BY <1>1, <1>6
<1>8. ASSUME NEW i \in 1..N, i - 1 \in G
      PROVE  i \in G
  <2> DEFINE o == run[i - 1]
  <2>1. o \in V /\ run[i] = Offer(o)
    BY <1>1, <1>5
  <2>2. CASE Resting(o)
    <3>1. run[i] = o
      BY <2>1, <2>2, OfferIs DEF V
    <3>2. QED
      BY <2>2, <3>1
  <2>3. CASE ~Resting(o)
    <3>1. PICK c \in Waiting(o.s) : Waiting(Offer(o).s) \subseteq Waiting(o.s) \ {c}
      BY <2>1, <2>3, OfferIs DEF V
    <3>2. Cardinality(Waiting(o.s) \ {c}) = Cardinality(Waiting(o.s)) - 1
          /\ IsFiniteSet(Waiting(o.s) \ {c})
      BY <1>6, <3>1, FS_RemoveElement
    <3>3. Cardinality(Waiting(Offer(o).s)) <= Cardinality(Waiting(o.s) \ {c})
      BY <3>1, <3>2, FS_Subset
    <3>4. Cardinality(Waiting(o.s)) <= N - (i - 1)
      BY <1>8, <2>3
    <3>5. Cardinality(Waiting(run[i].s)) <= N - i
      BY <1>1, <1>6, <2>1, <3>2, <3>3, <3>4
    <3>6. QED
      BY <3>5
  <2>4. QED
    BY <2>2, <2>3
<1>9. N \in G
  <2>1. \A i \in 1..N : i - 1 \in G => i \in G
    BY <1>8
  <2> HIDE DEF G
  <2>2. QED
    BY <1>1, <1>7, <2>1, IndexInduction
<1>10. run[N] \in V /\ Resting(run[N])
  <2>1. run[N] \in V
    BY <1>1, <1>5
  <2>2. CASE Cardinality(Waiting(run[N].s)) <= N - N
    <3>1. Waiting(run[N].s) = {}
      BY <1>1, <1>6, <2>2, FS_EmptySet
    <3>2. run[N].key \in Keys /\ run[N].s.blocking[run[N].key] \in Seq(Clients)
      BY <2>1 DEF V, Journeys, Servers
    <3>3. run[N].s.blocking[run[N].key] = <<>>
      <4> DEFINE q == run[N].s.blocking[run[N].key]
      <4>1. q # <<>> => q[1] \in Clients /\ 1 \in 1..Len(q)
        BY <3>2
      <4>2. QED
        BY <3>1, <3>2, <4>1 DEF Waiting
    <3>4. QED
      BY <2>1, <3>3 DEF Resting
  <2>3. QED
    BY <1>9, <2>1, <2>2
<1>11. s.blocking[key] = <<>> => run[N] = b
  <2>1. 0 \in H
    BY <1>1, <1>5
  <2>2. s.blocking[key] = <<>> => Resting(b)
    BY DEF b, Begun, Resting
  <2>3. s.blocking[key] = <<>> => Offer(b) = b
    BY <1>3, <2>2, OfferIs DEF V
  <2>4. \A i \in 1..N : i - 1 \in H => i \in H
    BY <1>5, <2>3
  <2>5. N \in H
    <3> HIDE DEF H
    <3>1. QED
      BY <1>1, <2>1, <2>4, IndexInduction
  <2>6. QED
    BY <2>5
<1>12. QED
  BY <1>10, <1>11, <1>2 DEF V, b

-----------------------------------------------------------------------------
(* Steps of commands, as they change the dataset *)

Shorter(items, where) == IF where = "head" THEN Tail(items) ELSE Front(items)
Longer(items, v, where) == IF where = "head" THEN <<v>> \o items ELSE Append(items, v)
Popped(d, k, where) == DropEmpty([d EXCEPT ![k] = List(Shorter(d[k].items, where))], k)
Pushed(d, k, v, where) == [d EXCEPT ![k] = List(Longer(d[k].items, v, where))]

LEMMA ShorterIs ==
  ASSUME NEW items \in Seq(Values), items # <<>>, NEW where
  PROVE  Shorter(items, where) \in Seq(Values) /\ Last(items) \in Values
<1>1. Tail(items) \in Seq(Values) /\ Len(items) \in Nat \ {0}
  BY HeadTailProperties, EmptySeq
<1>2. \A i \in 1..Len(items) - 1 : items[i] \in Values
  BY <1>1
<1>3. SubSeq(items, 1, Len(items) - 1) \in Seq(Values)
  BY <1>1, <1>2, SubSeqProperties
<1>4. QED
  BY <1>1, <1>3 DEF Shorter, Front, Last

LEMMA LongerIs ==
  ASSUME NEW items \in Seq(Values), NEW v \in Values, NEW where
  PROVE  Longer(items, v, where) \in Seq(Values) \ {<<>>}
<1>1. Append(items, v) \in Seq(Values) /\ Append(items, v) # <<>>
  BY AppendProperties
<1>2. <<v>> \in Seq(Values) /\ Len(<<v>>) = 1
  OBVIOUS
<1>3. <<v>> \o items \in Seq(Values) /\ Len(<<v>> \o items) = 1 + Len(items)
  BY <1>2, ConcatProperties
<1>4. <<v>> \o items # <<>>
  BY <1>3, EmptySeq
<1>5. QED
  BY <1>1, <1>3, <1>4 DEF Longer

LEMMA PushedIs ==
  ASSUME NEW d \in Data, NEW k \in Keys, NEW v \in Values, NEW where
  PROVE  /\ Pushed(d, k, v, where) \in Data
         /\ \A j \in Keys \ {k} : Pushed(d, k, v, where)[j] = d[j]
         /\ Pushed(d, k, v, where)[k] # List(<<>>)
         /\ Pushed(d, k, v, where)[k].type = "list"
         /\ (\A j \in Keys \ {k} : d[j] # List(<<>>)) => Proper(Pushed(d, k, v, where))
<1> DEFINE items == Longer(d[k].items, v, where)
<1>1. d[k] \in Item
  BY DEF Data
<1>2. items \in Seq(Values) \ {<<>>}
  BY <1>1, Items, LongerIs
<1>3. List(items) \in Item /\ List(items) # List(<<>>) /\ List(items).type = "list"
  BY <1>2, Items
<1>4. Pushed(d, k, v, where) = [d EXCEPT ![k] = List(items)]
  BY DEF Pushed
<1> HIDE DEF items
<1>5. QED
  BY <1>3, <1>4 DEF Data, Proper

LEMMA PoppedIs ==
  ASSUME NEW d \in Data, Proper(d), NEW k \in Keys, d[k].type = "list", NEW where
  PROVE  /\ [d EXCEPT ![k] = List(Shorter(d[k].items, where))] \in Data
         /\ List(Shorter(d[k].items, where)) \in Item
         /\ Last(d[k].items) \in Values
         /\ Popped(d, k, where) \in Data /\ Proper(Popped(d, k, where))
         /\ \A j \in Keys \ {k} : Popped(d, k, where)[j] = d[j]
<1> DEFINE items == d[k].items
           e == [d EXCEPT ![k] = List(Shorter(items, where))]
<1>1. d[k] \in Item /\ d[k] # List(<<>>)
  BY DEF Data, Proper
<1>2. items \in Seq(Values) /\ items # <<>>
  BY <1>1, Items
<1>3. Shorter(items, where) \in Seq(Values) /\ Last(items) \in Values
  BY <1>2, ShorterIs
<1>4. List(Shorter(items, where)) \in Item
  BY <1>3, Items
<1> HIDE DEF items
<1>5. e \in Data /\ \A j \in Keys \ {k} : e[j] = d[j] /\ e[j] # List(<<>>)
  BY <1>4 DEF Data, Proper
<1> HIDE DEF e
<1>6. /\ DropEmpty(e, k) \in Data /\ Proper(DropEmpty(e, k))
      /\ \A j \in Keys \ {k} : DropEmpty(e, k)[j] = e[j]
  BY <1>5, DropEmptyIs
<1>7. QED
  BY <1>3, <1>4, <1>5, <1>6 DEF Popped, e, items

(* A change of key k that is told.                                           *)
LEMMA TellIs ==
  ASSUME NEW s \in Servers, NEW U, NEW k \in Keys, NEW u, Moves(s, u, U \cup {k})
  PROVE  LET t == Changed(signalModifiedKey(u, k))
         IN  /\ Moves(s, t, U) /\ t.db = u.db /\ t.blocking = u.blocking
             /\ t.replica = u.replica /\ t.argv = u.argv /\ t.dirty = u.dirty + 1
<1> DEFINE m == signalModifiedKey(u, k)
<1>1. Marks(u, m, {k})
  BY SignalIs DEF Moves
<1>2. Moves(s, m, U)
  BY <1>1, MovesMarks
<1>3. m \in Servers
  BY <1>1 DEF Marks
<1> HIDE DEF m
<1>4. Changed(m) \in Servers /\ SameButData(m, Changed(m)) /\ Changed(m).db = m.db
      /\ Changed(m).dirty = m.dirty + 1
  BY <1>3, ChangedIs
<1>5. Moves(s, Changed(m), U)
  BY <1>2, <1>4, MovesData DEF SameButData
<1>6. QED
  BY <1>1, <1>4, <1>5 DEF Marks, SameButData, m

-----------------------------------------------------------------------------
(* What a command of s makes of it: t.                                       *)

(* Nobody is made to wait for a key that has a list, unless a transfer       *)
(* writes it.                                                                *)
Wakes(s, t) ==
  \A k \in Keys : t.blocking[k] # <<>> =>
    \/ k \in WaitKeys /\ t.db[k].type # "list"
    \/ s.blocking[k] # <<>> /\ (t.db[k].type = "list" => s.db[k].type = "list" \/ k \in TargetKeys)

Done(s, t) ==
  /\ Moves(s, t, TargetKeys) /\ Wakes(s, t)
  /\ Proper(t.db) /\ t.replica = s.replica /\ t.argv \in Commands

Ready(s) == s \in Servers /\ Proper(s.db) /\ s.argv \in Commands

LEMMA DoneSelf ==
  ASSUME NEW s, Ready(s)
  PROVE  Done(s, s)
BY MovesSelf DEF Ready, Done, Wakes

LEMMA PopIs ==
  ASSUME NEW s, Ready(s), NEW key \in Keys, NEW where
  PROVE  LET t == popGenericCommand(s, key, where)
         IN  /\ Done(s, t)
             /\ s.db[key].type # "list" => t = s
             /\ s.db[key].type = "list" => /\ t.db = Popped(s.db, key, where)
                                           /\ t.argv = s.argv /\ t.dirty = s.dirty + 1
<1>1. CASE s.db[key].type # "list"
  BY <1>1, DoneSelf DEF popGenericCommand
<1>2. CASE s.db[key].type = "list"
  <2> DEFINE object == List(Shorter(s.db[key].items, where))
             p == Put(s, key, object)
             u == dbDeleteIfEmpty(p, key)
             t == Changed(signalModifiedKey(u, key))
  <2>1. popGenericCommand(s, key, where) = t
    BY <1>2 DEF popGenericCommand, Shorter
  <2>2. s \in Servers /\ s.db \in Data /\ Proper(s.db) /\ s.argv \in Commands
    BY DEF Ready, Servers
  <2>3. /\ object \in Item /\ Proper(Popped(s.db, key, where))
        /\ \A j \in Keys \ {key} : Popped(s.db, key, where)[j] = s.db[j]
    BY <1>2, <2>2, PoppedIs
  <2>4. Popped(s.db, key, where) = DropEmpty([s.db EXCEPT ![key] = object], key)
    BY DEF Popped
  <2> HIDE DEF object
  <2>5. p \in Servers /\ SameButData(s, p) /\ p.db = [s.db EXCEPT ![key] = object] /\ p.dirty = s.dirty
    BY <2>2, <2>3, PutIs
  <2> HIDE DEF p
  <2>6. u \in Servers /\ SameButData(p, u) /\ u.db = Popped(s.db, key, where) /\ u.dirty = s.dirty
    BY <2>4, <2>5, DeleteIfEmptyIs
  <2> HIDE DEF u
  <2>7. Moves(s, u, TargetKeys \cup {key})
    <3>1. Moves(s, s, {}) /\ u.client = s.client
      BY <2>2, <2>5, <2>6, MovesSelf DEF SameButData
    <3>2. QED
      BY <2>2, <2>3, <2>6, <3>1, MovesData
  <2>8. /\ Moves(s, t, TargetKeys) /\ t.db = u.db /\ t.blocking = u.blocking
        /\ t.replica = u.replica /\ t.argv = u.argv /\ t.dirty = u.dirty + 1
    BY <2>2, <2>7, TellIs
  <2> HIDE DEF t
  <2>9. t.blocking = s.blocking /\ t.replica = s.replica /\ t.argv = s.argv
        /\ t.db = Popped(s.db, key, where) /\ t.dirty = s.dirty + 1
    BY <2>5, <2>6, <2>8 DEF SameButData
  <2>10. Wakes(s, t)
    BY <1>2, <2>3, <2>9 DEF Wakes
  <2>11. QED
    BY <1>2, <2>1, <2>2, <2>3, <2>8, <2>9, <2>10 DEF Done
<1>3. QED
  BY <1>1, <1>2
-----------------------------------------------------------------------------
(* Commands that wait *)

LEMMA MinOfSet ==
  ASSUME NEW n \in Nat, NEW S \in SUBSET (1..n), S # {}
  PROVE  Min(S) \in S
<1> DEFINE G == {i \in 0..n : S \cap (1..i) # {} => \E x \in S : \A y \in S : x <= y}
<1>1. 0 \in G
  OBVIOUS
<1>2. ASSUME NEW i \in 1..n, i - 1 \in G
      PROVE  i \in G
  <2>1. CASE S \cap (1..i - 1) # {}
    BY <1>2, <2>1
  <2>2. CASE S \cap (1..i - 1) = {}
    <3>1. \A y \in S : y >= i
      BY <2>2
    <3>2. S \cap (1..i) # {} => i \in S
      BY <2>2
    <3>3. QED
      BY <3>1, <3>2
  <2>3. QED
    BY <2>1, <2>2
<1>3. \A i \in 1..n : i - 1 \in G => i \in G
  BY <1>2
<1>4. n \in G
  <2> HIDE DEF G
  <2>1. QED
    BY <1>1, <1>3, IndexInduction
<1>5. n \in G /\ S \cap (1..n) = S
  BY <1>4
<1>6. \E x \in S : \A y \in S : x <= y
  BY <1>5
<1>7. QED
  BY <1>6 DEF Min

(* The first of the keys that exists.                                        *)
FirstOf(d, keys) == SelectInSeq(keys, LAMBDA k : d[k] # Nothing)

LEMMA FirstIs ==
  ASSUME NEW d, NEW keys, Len(keys) \in Nat
  PROVE  \/ FirstOf(d, keys) \in 1..Len(keys)
         \/ FirstOf(d, keys) = 0 /\ \A i \in 1..Len(keys) : d[keys[i]] = Nothing
<1> DEFINE I == {i \in 1..Len(keys) : d[keys[i]] # Nothing}
<1>1. FirstOf(d, keys) = IF I # {} THEN Min(I) ELSE 0
  BY DEF FirstOf, SelectInSeq
<1>2. I \in SUBSET (1..Len(keys))
  OBVIOUS
<1>3. CASE I # {}
  <2>1. Min(I) \in I
    <3> HIDE DEF I
    <3>1. QED
      BY <1>2, <1>3, MinOfSet
  <2>2. QED
    BY <1>1, <1>3, <2>1
<1>4. CASE I = {}
  BY <1>1, <1>4
<1>5. QED
  BY <1>3, <1>4

LEMMA BlockIs ==
  ASSUME NEW s \in Servers, NEW c \in Clients, ~s.client[c].multi,
         NEW keys \in Seq(WaitKeys), NEW target \in TargetKeys \cup {NoKey}
  PROVE  LET t == blockForKeys(s, c, keys, target)
         IN  /\ Moves(s, t, {}) /\ t.db = s.db /\ t.replica = s.replica
             /\ t.argv = s.argv /\ t.dirty = s.dirty
             /\ \A k \in Keys : t.blocking[k] # <<>> =>
                  s.blocking[k] # <<>> \/ \E i \in 1..Len(keys) : k = keys[i]
<1> DEFINE t == blockForKeys(s, c, keys, target)
           V == {b \in [Keys -> Seq(Clients)] :
                   \A k \in Keys : b[k] # <<>> =>
                     s.blocking[k] # <<>> \/ \E i \in 1..Len(keys) : k = keys[i]}
           asleep == [s.client[c] EXCEPT !.keys = keys, !.target = target]
<1>1. s.blocking \in V
  BY DEF Servers
<1>2. ASSUME NEW b \in V, NEW i \in 1..Len(keys)
      PROVE  Queued(b, keys[i], c) \in V
  <2>1. keys[i] \in Keys
    BY UsageAssumption
  <2>2. Append(b[keys[i]], c) \in Seq(Clients)
    BY <2>1, AppendProperties
  <2> DEFINE e == Append(b[keys[i]], c)
  <2> HIDE DEF e
  <2>3. [b EXCEPT ![keys[i]] = e] \in V
    BY <2>1, <2>2 DEF e
  <2>4. QED
    BY <2>3 DEF Queued, e
<1>3. Len(keys) \in Nat /\ DOMAIN keys = 1..Len(keys)
  OBVIOUS
<1>4. AllQueued(s.blocking, keys, c) \in V
  <2> HIDE DEF V
  <2>1. QED
    BY <1>1, <1>2, <1>3, QueuedRuns
<1>5. t = [s EXCEPT !.client[c].keys = keys, !.client[c].target = target,
                    !.blocking = AllQueued(s.blocking, keys, c)]
  BY DEF blockForKeys, AllQueued
<1> DEFINE all == AllQueued(s.blocking, keys, c)
<1> HIDE DEF all
<1>6. t = [s EXCEPT !.client[c] = asleep, !.blocking = all]
  BY <1>5 DEF Servers, all
<1>7. /\ asleep \in Connection
      /\ asleep.multi = s.client[c].multi /\ asleep.dirtyCas = s.client[c].dirtyCas
      /\ asleep.queue = s.client[c].queue /\ asleep.watched = s.client[c].watched
  BY DEF Servers, Connection
<1>8. all \in V
  BY <1>4 DEF all
<1> HIDE DEF asleep, t
<1>9. /\ t \in Servers /\ t.db = s.db /\ t.replica = s.replica
      /\ t.argv = s.argv /\ t.dirty = s.dirty /\ t.blocking = all
      /\ t.client[c] = asleep /\ \A d \in Clients \ {c} : t.client[d] = s.client[d]
  BY <1>6, <1>7, <1>8 DEF Servers
<1>10. \A d \in Clients : Reaction(s.client[d], t.client[d])
  BY <1>7, <1>9 DEF Reaction, Excused
<1>11. Moves(s, t, {})
  BY <1>9, <1>10 DEF Moves
<1>12. QED
  BY <1>8, <1>9, <1>11 DEF t

LEMMA BlockDone ==
  ASSUME NEW s, Ready(s), NEW c \in Clients, ~s.client[c].multi,
         NEW keys \in Seq(WaitKeys), NEW target \in TargetKeys \cup {NoKey},
         \A i \in 1..Len(keys) : s.db[keys[i]] = Nothing
  PROVE  LET t == blockForKeys(s, c, keys, target)
         IN  Done(s, t) /\ t.db = s.db /\ t.dirty = s.dirty
<1> DEFINE t == blockForKeys(s, c, keys, target)
<1>1. /\ Moves(s, t, {}) /\ t.db = s.db /\ t.replica = s.replica
      /\ t.argv = s.argv /\ t.dirty = s.dirty
      /\ \A k \in Keys : t.blocking[k] # <<>> =>
           s.blocking[k] # <<>> \/ \E i \in 1..Len(keys) : k = keys[i]
  BY BlockIs DEF Ready
<1> HIDE DEF t
<1>2. Moves(s, t, TargetKeys)
  BY <1>1, MovesData DEF Ready, Moves
<1>3. \A i \in 1..Len(keys) : keys[i] \in WaitKeys /\ s.db[keys[i]].type # "list"
  BY Items
<1>4. QED
  BY <1>1, <1>2, <1>3 DEF Done, Wakes, Ready, t

(* BLPOP and BRPOP                                                           *)
LEMMA BlockingPopIs ==
  ASSUME NEW s, Ready(s), NEW c \in Clients, NEW where,
         s.argv.keys \in Seq(WaitKeys)
  PROVE  LET t == blockingPopGenericCommand(s, c, where)
             first == FirstOf(s.db, s.argv.keys)
             key == s.argv.keys[first]
         IN  /\ Done(s, t)
             /\ t.dirty = s.dirty => t.db = s.db
             /\ first # 0 => key \in Keys /\ t = popGenericCommand(s, key, where)
             /\ first = 0 => t.dirty = s.dirty
<1> DEFINE keys == s.argv.keys
           first == FirstOf(s.db, keys)
           t == blockingPopGenericCommand(s, c, where)
<1>1. t = CASE first # 0 -> popGenericCommand(s, keys[first], where)
            [] first = 0 /\ s.client[c].multi -> s
            [] OTHER -> blockForKeys(s, c, keys, NoKey)
  BY DEF blockingPopGenericCommand, FirstOf
<1>2. \/ first \in 1..Len(keys)
      \/ first = 0 /\ \A i \in 1..Len(keys) : s.db[keys[i]] = Nothing
  BY FirstIs
<1>3. s.dirty \in Nat
  BY DEF Ready, Servers
<1> HIDE DEF first, t
<1>4. CASE first \in 1..Len(keys)
  <2>1. keys[first] \in WaitKeys
    BY <1>4
  <2>2. keys[first] \in Keys /\ t = popGenericCommand(s, keys[first], where) /\ first # 0
    BY <1>1, <1>4, <2>1, UsageAssumption
  <2>3. Done(s, t) /\ (t.dirty = s.dirty => t.db = s.db)
    BY <1>3, <2>2, PopIs
  <2>4. QED
    BY <2>2, <2>3 DEF first, t
<1>5. CASE first = 0 /\ \A i \in 1..Len(keys) : s.db[keys[i]] = Nothing
  <2>1. CASE s.client[c].multi
    BY <1>1, <1>5, <2>1, DoneSelf DEF first, t
  <2>2. CASE ~s.client[c].multi
    <3>1. t = blockForKeys(s, c, keys, NoKey)
      BY <1>1, <1>5, <2>2
    <3>2. Done(s, t) /\ t.db = s.db /\ t.dirty = s.dirty
      BY <1>5, <2>2, <3>1, BlockDone
    <3>3. QED
      BY <1>5, <3>2 DEF first, t
  <2>3. QED
    BY <2>1, <2>2
<1>6. QED
  BY <1>2, <1>4, <1>5
-----------------------------------------------------------------------------
(* Commands that write one key, or rename one                                *)

LEMMA LtrimIs ==
  ASSUME NEW s, Ready(s), s.argv.keys[1] \in Keys
  PROVE  ltrimCommand(s) = popGenericCommand(s, s.argv.keys[1], "head")
BY DEF ltrimCommand, popGenericCommand

LEMMA WriteIs ==
  ASSUME NEW s, Ready(s), NEW key \in Keys, NEW o \in {Nothing, Text}
  PROVE  LET t == Changed(signalModifiedKey(Put(s, key, o), key))
         IN  /\ Done(s, t) /\ t.argv = s.argv /\ t.dirty = s.dirty + 1
             /\ t.db = [s.db EXCEPT ![key] = o]
<1> DEFINE u == Put(s, key, o)
           t == Changed(signalModifiedKey(u, key))
<1>1. s \in Servers /\ s.db \in Data /\ Proper(s.db) /\ s.argv \in Commands
  BY DEF Ready, Servers
<1>2. o \in Item /\ o # List(<<>>) /\ o.type # "list"
  BY Items
<1>3. u \in Servers /\ SameButData(s, u) /\ u.db = [s.db EXCEPT ![key] = o] /\ u.dirty = s.dirty
  BY <1>1, <1>2, PutIs
<1> HIDE DEF u
<1>4. \A j \in Keys \ {key} : u.db[j] = s.db[j]
  BY <1>1, <1>3 DEF Data
<1>5. Moves(s, u, TargetKeys \cup {key})
  <2> DEFINE W == TargetKeys \cup {key}
  <2>1. Moves(s, s, {}) /\ s \in Servers /\ u \in Servers /\ u.client = s.client
    BY <1>1, <1>3, MovesSelf DEF SameButData
  <2>2. {} \subseteq W /\ \A j \in Keys \ W : u.db[j] = s.db[j]
    BY <1>4
  <2> HIDE DEF W
  <2>3. Moves(s, u, W)
    BY <2>1, <2>2, MovesData
  <2>4. QED
    BY <2>3 DEF W
<1>6. /\ Moves(s, t, TargetKeys) /\ t.db = u.db /\ t.blocking = u.blocking
      /\ t.replica = u.replica /\ t.argv = u.argv /\ t.dirty = u.dirty + 1
  BY <1>1, <1>5, TellIs
<1> HIDE DEF t
<1>7. /\ t.blocking = s.blocking /\ t.replica = s.replica /\ t.argv = s.argv
      /\ t.db = [s.db EXCEPT ![key] = o] /\ t.dirty = s.dirty + 1
  BY <1>3, <1>6 DEF SameButData
<1>8. t.db[key] = o /\ \A j \in Keys \ {key} : t.db[j] = s.db[j]
  BY <1>1, <1>7 DEF Data
<1>9. Wakes(s, t) /\ Proper(t.db)
  BY <1>1, <1>2, <1>7, <1>8 DEF Wakes, Proper
<1>10. QED
  BY <1>1, <1>6, <1>7, <1>9 DEF Done, t, u

LEMMA SetIs ==
  ASSUME NEW s, Ready(s), s.argv.keys[1] \in Keys
  PROVE  LET t == setCommand(s)
         IN  /\ Done(s, t) /\ t.argv = s.argv /\ t.dirty = s.dirty + 1
             /\ t.db = [s.db EXCEPT ![s.argv.keys[1]] = Text]
BY WriteIs DEF setCommand

LEMMA DelIs ==
  ASSUME NEW s, Ready(s), s.argv.keys[1] \in Keys
  PROVE  LET t == delCommand(s)
             key == s.argv.keys[1]
         IN  /\ Done(s, t)
             /\ s.db[key] = Nothing => t = s
             /\ s.db[key] # Nothing => /\ t.argv = s.argv /\ t.dirty = s.dirty + 1
                                       /\ t.db = [s.db EXCEPT ![key] = Nothing]
BY WriteIs, DoneSelf DEF delCommand

Renamed(d, src, dst) == [[d EXCEPT ![dst] = d[src]] EXCEPT ![src] = Nothing]

LEMMA RenameIs ==
  ASSUME NEW s, Ready(s), s.argv.keys[1] \in Keys, s.argv.keys[2] \in TargetKeys
  PROVE  LET t == renameCommand(s)
             src == s.argv.keys[1]
             dst == s.argv.keys[2]
         IN  /\ Done(s, t)
             /\ src = dst \/ s.db[src] = Nothing => t = s
             /\ src # dst /\ s.db[src] # Nothing =>
                  /\ t.argv = s.argv /\ t.dirty = s.dirty + 1
                  /\ t.db = Renamed(s.db, src, dst)
<1> DEFINE src == s.argv.keys[1]
           dst == s.argv.keys[2]
           p == Put(s, dst, s.db[src])
           u == Put(p, src, Nothing)
           m == signalModifiedKey(u, src)
           t == Changed(signalModifiedKey(m, dst))
<1>1. s \in Servers /\ s.db \in Data /\ Proper(s.db) /\ s.argv \in Commands
  BY DEF Ready, Servers
<1>2. src \in Keys /\ dst \in Keys /\ dst \in TargetKeys
  BY UsageAssumption
<1> HIDE DEF src, dst
<1>3. CASE src = dst \/ s.db[src] = Nothing
  BY <1>3, DoneSelf DEF renameCommand, src, dst
<1>4. CASE src # dst /\ s.db[src] # Nothing
  <2>1. renameCommand(s) = t
    BY <1>4 DEF renameCommand, src, dst
  <2>2. s.db[src] \in Item /\ Nothing \in Item /\ Nothing # List(<<>>) /\ Nothing.type # "list"
    BY <1>1, <1>2, Items DEF Data
  <2>3. /\ p \in Servers /\ SameButData(s, p) /\ p.db = [s.db EXCEPT ![dst] = s.db[src]]
        /\ p.dirty = s.dirty
    BY <1>1, <1>2, <2>2, PutIs
  <2> HIDE DEF p
  <2>4. /\ u \in Servers /\ SameButData(p, u) /\ u.db = [p.db EXCEPT ![src] = Nothing]
        /\ u.dirty = s.dirty
    BY <1>2, <2>2, <2>3, PutIs
  <2> HIDE DEF u
  <2>5. /\ u.db[src] = Nothing /\ u.db[dst] = s.db[src]
        /\ \A j \in Keys \ {src, dst} : u.db[j] = s.db[j]
    BY <1>1, <1>2, <1>4, <2>3, <2>4 DEF Data
  <2>6. Moves(s, u, {dst} \cup {src})
    <3>1. Moves(s, s, {}) /\ s \in Servers /\ u \in Servers /\ u.client = s.client
      BY <1>1, <2>3, <2>4, MovesSelf DEF SameButData
    <3> DEFINE W == {dst} \cup {src}
    <3>2. {} \subseteq W /\ \A j \in Keys \ W : u.db[j] = s.db[j]
      BY <2>5
    <3> HIDE DEF W
    <3>3. Moves(s, u, W)
      BY <3>1, <3>2, MovesData
    <3>4. QED
      BY <3>3 DEF W
  <2>7. Marks(u, m, {src})
    BY <1>2, <2>4, SignalIs
  <2> HIDE DEF m
  <2>8. Moves(s, m, {dst})
    BY <1>1, <2>6, <2>7, MovesMarks
  <2>9. Moves(s, m, {} \cup {dst})
    BY <2>8
  <2>10. /\ Moves(s, t, {}) /\ t.db = m.db /\ t.blocking = m.blocking
         /\ t.replica = m.replica /\ t.argv = m.argv /\ t.dirty = m.dirty + 1
    BY <1>1, <1>2, <2>9, TellIs
  <2> HIDE DEF t
  <2>11. Moves(s, t, TargetKeys)
    BY <1>1, <2>10, MovesData DEF Moves
  <2>12. /\ t.blocking = s.blocking /\ t.replica = s.replica /\ t.argv = s.argv
         /\ t.db = u.db /\ t.dirty = s.dirty + 1 /\ t.db = Renamed(s.db, src, dst)
    BY <2>3, <2>4, <2>7, <2>10 DEF Marks, SameButData, Renamed
  <2>13. Wakes(s, t) /\ Proper(t.db)
    BY <1>1, <1>2, <2>2, <2>5, <2>12 DEF Wakes, Proper
  <2>14. QED
    BY <1>1, <1>4, <2>1, <2>11, <2>12, <2>13 DEF Done, src, dst
<1>5. QED
  BY <1>3, <1>4

Empty == [k \in Keys |-> Nothing]

LEMMA FlushdbIs ==
  ASSUME NEW s, Ready(s)
  PROVE  LET t == flushdbCommand(s)
         IN  /\ Done(s, t) /\ t.argv = s.argv /\ t.db = Empty
             /\ t.dirty >= s.dirty /\ (t.dirty = s.dirty => s.db = Empty)
<1> DEFINE present == {k \in Keys : s.db[k] # Nothing}
           m == touchWatchedKeysOnFlush(s, present)
           n == Cardinality(present)
           w == [s EXCEPT !.db = Empty, !.dirty = @ + n]
           t == flushdbCommand(s)
<1>1. s \in Servers /\ s.db \in Data /\ Proper(s.db) /\ s.argv \in Commands /\ s.dirty \in Nat
  BY DEF Ready, Servers
<1>2. present \subseteq Keys /\ IsFiniteSet(present)
  BY UsageAssumption, FS_Subset
<1>3. n \in Nat /\ (n = 0 <=> present = {})
  BY <1>2, FS_CardinalityType, FS_EmptySet
<1>4. present = {} => s.db = Empty
  BY <1>1 DEF Data, Empty
<1>5. Empty \in Data /\ \A k \in Keys : Empty[k] = Nothing
  BY Items DEF Data, Empty
<1>6. t = [m EXCEPT !.db = Empty, !.dirty = @ + n]
  BY DEF flushdbCommand, Empty
<1>7. Marks(s, m, present)
  BY <1>1, FlushIs
<1> HIDE DEF m, n, t, present
<1>8. /\ w \in Servers /\ w.client = s.client /\ w.db = Empty /\ w.dirty = s.dirty + n
      /\ w.blocking = s.blocking /\ w.replica = s.replica /\ w.argv = s.argv
  <2>1. s.dirty + n \in Nat /\ Empty \in Data
    BY <1>1, <1>3, <1>5
  <2>2. w = [s EXCEPT !.db = Empty, !.dirty = s.dirty + n]
    BY <1>1 DEF Servers
  <2> DEFINE x == s.dirty + n
  <2> HIDE DEF x, w
  <2>3. QED
    BY <1>1, <2>1, <2>2 DEF Servers, x
<1> HIDE DEF w
<1>9. m \in Servers /\ m.dirty = s.dirty
  BY <1>7 DEF Marks
<1>10. /\ t \in Servers /\ t.client = m.client /\ t.db = Empty /\ t.dirty = s.dirty + n
       /\ t.blocking = m.blocking /\ t.replica = m.replica /\ t.argv = m.argv
  <2>1. s.dirty + n \in Nat /\ Empty \in Data
    BY <1>1, <1>3, <1>5
  <2>2. t = [m EXCEPT !.db = Empty, !.dirty = s.dirty + n]
    BY <1>6, <1>9 DEF Servers
  <2> DEFINE x == s.dirty + n
  <2> HIDE DEF x
  <2>3. QED
    BY <1>9, <2>1, <2>2 DEF Servers, x
<1>11. Marks(w, t, present)
  BY <1>7, <1>8, <1>10 DEF Marks
<1>12. Moves(s, w, present)
  <2>1. Moves(s, s, {}) /\ \A k \in Keys \ present : w.db[k] = s.db[k]
    BY <1>1, <1>5, <1>8, MovesSelf DEF present
  <2>2. QED
    BY <1>1, <1>8, <2>1, MovesData
<1>13. Moves(s, t, TargetKeys)
  BY <1>1, <1>11, <1>12, MovesMarks
<1>14. Wakes(s, t) /\ Proper(t.db)
  BY <1>5, <1>7, <1>10, Items DEF Wakes, Proper, Marks
<1>15. t.argv = s.argv /\ t.replica = s.replica
  BY <1>7, <1>10 DEF Marks
<1>16. t.dirty >= s.dirty /\ (t.dirty = s.dirty => s.db = Empty)
  BY <1>1, <1>3, <1>4, <1>10
<1>17. QED
  BY <1>1, <1>10, <1>13, <1>14, <1>15, <1>16 DEF Done, t

LEMMA UnwatchIs ==
  ASSUME NEW s, Ready(s), NEW c \in Clients
  PROVE  LET t == unwatchCommand(s, c)
         IN  Done(s, t) /\ t.db = s.db /\ t.dirty = s.dirty
<1> DEFINE t == unwatchCommand(s, c)
           free == [s.client[c] EXCEPT !.watched = {}, !.dirtyCas = FALSE]
<1>1. s \in Servers /\ Proper(s.db) /\ s.argv \in Commands
  BY DEF Ready
<1>2. t = [s EXCEPT !.client[c] = free]
  BY <1>1 DEF unwatchCommand, unwatchAllKeys, Servers
<1>3. /\ free \in Connection /\ free.multi = s.client[c].multi /\ free.queue = s.client[c].queue
      /\ free.keys = s.client[c].keys /\ free.watched = {} /\ ~free.dirtyCas
  BY <1>1 DEF Servers, Connection
<1> HIDE DEF free, t
<1>4. /\ t \in Servers /\ t.db = s.db /\ t.replica = s.replica /\ t.argv = s.argv
      /\ t.dirty = s.dirty /\ t.blocking = s.blocking
      /\ t.client[c] = free /\ \A d \in Clients \ {c} : t.client[d] = s.client[d]
  BY <1>1, <1>2, <1>3 DEF Servers
<1>5. \A d \in Clients : Reaction(s.client[d], t.client[d])
  BY <1>3, <1>4 DEF Reaction, Excused
<1>6. Moves(s, t, TargetKeys)
  BY <1>4, <1>5 DEF Moves
<1>7. QED
  BY <1>1, <1>4, <1>6 DEF Done, Wakes, t
-----------------------------------------------------------------------------
(* Transfers *)

LEMMA ListPushIs ==
  ASSUME NEW s \in Servers, NEW k \in Keys, NEW v \in Values, NEW where
  PROVE  LET t == listTypePush(s, k, v, where)
         IN  /\ t \in Servers /\ SameButData(s, t) /\ t.dirty = s.dirty
             /\ t.db = Pushed(s.db, k, v, where)
<1> DEFINE object == List(Longer(s.db[k].items, v, where))
<1>1. listTypePush(s, k, v, where) = Put(s, k, object)
  BY DEF listTypePush, Longer
<1>2. s.db[k] \in Item
  BY DEF Servers, Data
<1>3. object \in Item
  BY <1>2, Items, LongerIs
<1>4. Pushed(s.db, k, v, where) = [s.db EXCEPT ![k] = object]
  BY DEF Pushed
<1> HIDE DEF object
<1>5. QED
  BY <1>1, <1>3, <1>4, PutIs

LEMMA StoreIs ==
  ASSUME NEW s0 \in Servers, NEW s, NEW U, Moves(s0, s, U), NEW key \in Keys, key \in U,
         NEW v \in Values, NEW argv \in Commands
  PROVE  LET t == StoreAt(s, key, v, argv)
         IN  /\ Moves(s0, t, U) /\ t.db = Pushed(s.db, key, v, "head")
             /\ t.blocking = s.blocking /\ t.replica = s.replica
             /\ t.argv = argv /\ t.dirty = s.dirty + 1
<1> DEFINE m == IF s.db[key] = Nothing THEN s ELSE signalModifiedKey(s, key)
           p == listTypePush(m, key, v, "head")
           u == [p EXCEPT !.argv = argv]
           t == Changed(u)
<1>1. t = StoreAt(s, key, v, argv)
  BY DEF StoreAt
<1>2. s \in Servers
  BY DEF Moves
<1>3. /\ m \in Servers /\ Moves(s0, m, U) /\ m.db = s.db /\ m.blocking = s.blocking
      /\ m.replica = s.replica /\ m.argv = s.argv /\ m.dirty = s.dirty
  <2>1. CASE s.db[key] = Nothing
    BY <1>2, <2>1
  <2>2. CASE s.db[key] # Nothing
    <3> DEFINE n == signalModifiedKey(s, key)
    <3>1. Marks(s, n, {key})
      BY <1>2, SignalIs
    <3>2. m = n
      BY <2>2
    <3> HIDE DEF m, n
    <3>3. Moves(s0, n, U)
      BY <3>1, MovesMarks
    <3>4. QED
      BY <3>1, <3>2, <3>3 DEF Marks
  <2>3. QED
    BY <2>1, <2>2
<1> HIDE DEF m
<1>4. /\ p \in Servers /\ SameButData(m, p) /\ p.dirty = m.dirty
      /\ p.db = Pushed(m.db, key, v, "head")
  BY <1>3, ListPushIs
<1> HIDE DEF p
<1>5. /\ u \in Servers /\ u.db = p.db /\ u.client = p.client /\ u.blocking = p.blocking
      /\ u.replica = p.replica /\ u.argv = argv /\ u.dirty = p.dirty
  BY <1>4 DEF Servers
<1> HIDE DEF u
<1>6. /\ t \in Servers /\ SameButData(u, t) /\ t.db = u.db /\ t.dirty = u.dirty + 1
  BY <1>5, ChangedIs
<1> HIDE DEF t
<1>7. /\ t.client = m.client /\ t.db = Pushed(s.db, key, v, "head")
      /\ t.blocking = s.blocking /\ t.replica = s.replica
      /\ t.argv = argv /\ t.dirty = s.dirty + 1
  BY <1>3, <1>4, <1>5, <1>6 DEF SameButData
<1>8. s.db \in Data
  BY <1>2 DEF Servers
<1>9. \A j \in Keys \ U : t.db[j] = m.db[j]
  BY <1>3, <1>7, <1>8, PushedIs
<1>10. Moves(s0, t, U)
  <2>1. t \in Servers /\ t.client = m.client
    BY <1>6, <1>7
  <2>2. QED
    BY <1>3, <1>9, <2>1, MovesData
<1>11. QED
  BY <1>1, <1>7, <1>10 DEF t

Taken(d, src) == [d EXCEPT ![src] = List(Shorter(d[src].items, "tail"))]
Transferred(d, src, dst) == DropEmpty(Pushed(Taken(d, src), dst, Last(d[src].items), "head"), src)

(* RPOPLPUSH                                                                 *)
LEMMA TransferIs ==
  ASSUME NEW s, Ready(s), s.argv.keys[1] \in Keys, s.argv.keys[2] \in TargetKeys,
         NEW sent, sent = [s.argv EXCEPT !.op = "rpoplpush"], sent \in Commands,
         \A k \in Keys : \A v \in Values : Lpush(k, v) \in Commands
  PROVE  LET t == rpoplpushCommand(s)
             src == s.argv.keys[1]
             dst == s.argv.keys[2]
         IN  /\ Done(s, t)
             /\ s.db[src].type # "list" \/ s.db[dst].type = "string" => t = s
             /\ s.db[src].type = "list" /\ s.db[dst].type # "string" =>
                  /\ t.dirty > s.dirty
                  /\ s.blocking[dst] = <<>> => /\ t.argv = sent
                                               /\ t.db = Transferred(s.db, src, dst)
<1> DEFINE src == s.argv.keys[1]
           dst == s.argv.keys[2]
           v == Last(s.db[src].items)
           object == List(Shorter(s.db[src].items, "tail"))
           u == Put(s, src, object)
           o == handleClientsWaitingListPush(u, dst)
           p == rpoplpushHandlePush(u, dst, v)
           e == dbDeleteIfEmpty(p, src)
           t == Changed(signalModifiedKey(e, src))
           U == TargetKeys \cup {src}
<1>1. s \in Servers /\ s.db \in Data /\ Proper(s.db) /\ s.argv \in Commands /\ s.dirty \in Nat
  BY DEF Ready, Servers
<1>2. src \in Keys /\ dst \in Keys /\ dst \in TargetKeys
  BY UsageAssumption
<1>3. CASE s.db[src].type # "list" \/ s.db[dst].type = "string"
  BY <1>3, DoneSelf DEF rpoplpushCommand
<1>4. CASE s.db[src].type = "list" /\ s.db[dst].type # "string"
  <2>1. rpoplpushCommand(s) = t
    BY <1>4 DEF rpoplpushCommand, Shorter
  <2> HIDE DEF src, dst
  <2>2. Taken(s.db, src) \in Data /\ object \in Item /\ v \in Values
    BY <1>1, <1>2, <1>4, PoppedIs DEF Taken
  <2>3. Taken(s.db, src) = [s.db EXCEPT ![src] = object]
    BY DEF Taken
  <2>4. Transferred(s.db, src, dst) = DropEmpty(Pushed(Taken(s.db, src), dst, v, "head"), src)
    BY DEF Transferred
  <2> HIDE DEF object, v
  <2>5. u \in Servers /\ SameButData(s, u) /\ u.db = Taken(s.db, src) /\ u.dirty = s.dirty
    BY <1>1, <1>2, <2>2, <2>3, PutIs
  <2>6. \A j \in Keys \ {src} : Taken(s.db, src)[j] = s.db[j]
    BY <1>1, <2>3 DEF Data
  <2> HIDE DEF u
  <2>7. Moves(s, u, U)
    <3>1. Moves(s, s, {}) /\ s \in Servers /\ u \in Servers /\ u.client = s.client
      BY <1>1, <2>5, MovesSelf DEF SameButData
    <3>2. {} \subseteq U /\ \A j \in Keys \ U : u.db[j] = s.db[j]
      BY <2>5, <2>6
    <3> HIDE DEF U
    <3>3. QED
      BY <3>1, <3>2, MovesData
  <2>8. dst \in U /\ TargetKeys \subseteq U
    BY <1>2
  <2> HIDE DEF U
  <2>9. /\ o \in Journeys(s, u, U, dst) /\ Resting(o)
        /\ u.blocking[dst] = <<>> => o = Begun(u, dst)
    BY <1>1, <1>2, <2>7, JourneyIs
  <2>10. p = CASE o.taken -> o.s
               [] ~o.taken /\ o.moved -> StoreAt(o.s, o.key, v, Lpush(o.key, v))
               [] OTHER -> StoreAt(o.s, dst, v, sent)
    BY <2>5 DEF rpoplpushHandlePush, StoreForReceiver, SameButData
  <2> HIDE DEF o, p
  <2>11. /\ Moves(s, o.s, U) /\ o.s.db = u.db /\ o.s.replica = s.replica /\ o.s.argv = s.argv
         /\ o.s.dirty = s.dirty /\ Fewer(s, o.s) /\ o.key \in Keys
         /\ o.moved => o.key \in TargetKeys
    BY <2>5, <2>9 DEF Journeys, SameButData, Fewer
  <2>12. /\ Moves(s, p, U) /\ p.blocking = o.s.blocking /\ p.replica = s.replica
         /\ p.argv \in Commands /\ p.dirty >= s.dirty /\ p.dirty \in Nat
         /\ \/ p.db = u.db
            \/ \E key \in TargetKeys : p.db = Pushed(u.db, key, v, "head")
    <3>1. CASE o.taken
      <4>1. p = o.s
        BY <2>10, <3>1
      <4>2. QED
        BY <1>1, <2>11, <4>1
    <3>2. CASE ~o.taken /\ o.moved
      <4>1. p = StoreAt(o.s, o.key, v, Lpush(o.key, v))
        BY <2>10, <3>2
      <4>2. Lpush(o.key, v) \in Commands /\ o.key \in U
        BY <2>2, <2>8, <2>11, <3>2
      <4>3. /\ Moves(s, p, U) /\ p.db = Pushed(o.s.db, o.key, v, "head")
            /\ p.blocking = o.s.blocking /\ p.replica = o.s.replica
            /\ p.argv = Lpush(o.key, v) /\ p.dirty = o.s.dirty + 1
        BY <1>1, <2>2, <2>11, <4>1, <4>2, StoreIs
      <4>4. QED
        BY <1>1, <2>11, <3>2, <4>2, <4>3
    <3>3. CASE ~o.taken /\ ~o.moved
      <4>1. p = StoreAt(o.s, dst, v, sent)
        BY <2>10, <3>3
      <4>2. /\ Moves(s, p, U) /\ p.db = Pushed(o.s.db, dst, v, "head")
            /\ p.blocking = o.s.blocking /\ p.replica = o.s.replica
            /\ p.argv = sent /\ p.dirty = o.s.dirty + 1
        BY <1>1, <1>2, <2>2, <2>8, <2>11, <4>1, StoreIs
      <4>3. QED
        BY <1>1, <1>2, <2>11, <4>2
    <3>4. QED
      BY <3>1, <3>2, <3>3
  <2> DEFINE Fine(d) ==
               /\ d \in Data
               /\ \A j \in Keys \ {src} : d[j] # List(<<>>)
               /\ \A j \in Keys \ {src} : d[j] = s.db[j] \/ j \in TargetKeys
  <2>13. Fine(p.db)
    <3>1. \A j \in Keys \ {src} : u.db[j] = s.db[j] /\ u.db[j] # List(<<>>)
      BY <1>1, <2>5, <2>6 DEF Proper
    <3>2. CASE p.db = u.db
      BY <2>2, <2>5, <3>1, <3>2
    <3>3. ASSUME NEW key \in TargetKeys, p.db = Pushed(u.db, key, v, "head")
          PROVE  Fine(p.db)
      <4>1. key \in Keys /\ u.db \in Data
        BY <2>2, <2>5, UsageAssumption
      <4>2. QED
        BY <2>2, <3>1, <3>3, <4>1, PushedIs
    <3>4. QED
      BY <2>12, <3>2, <3>3
  <2>14. /\ e \in Servers /\ SameButData(p, e) /\ e.db = DropEmpty(p.db, src) /\ e.dirty = p.dirty
    BY <1>2, <2>12, DeleteIfEmptyIs DEF Moves
  <2> HIDE DEF e
  <2>15. /\ Proper(DropEmpty(p.db, src))
         /\ \A j \in Keys \ {src} : DropEmpty(p.db, src)[j] = p.db[j]
    <3>1. p.db \in Data /\ \A j \in Keys \ {src} : p.db[j] # List(<<>>)
      BY <2>13
    <3>2. QED
      BY <1>2, <3>1, DropEmptyIs
  <2>16. Moves(s, e, TargetKeys \cup {src})
    <3>1. e \in Servers /\ e.client = p.client /\ \A j \in Keys \ U : e.db[j] = p.db[j]
      BY <2>14, <2>15 DEF SameButData, U
    <3>2. Moves(s, e, U)
      BY <1>1, <2>12, <3>1, MovesData
    <3>3. QED
      BY <3>2 DEF U
  <2>17. /\ Moves(s, t, TargetKeys) /\ t.db = e.db /\ t.blocking = e.blocking
         /\ t.replica = e.replica /\ t.argv = e.argv /\ t.dirty = e.dirty + 1
    BY <1>1, <1>2, <2>16, TellIs
  <2> HIDE DEF t
  <2>18. /\ t.blocking = o.s.blocking /\ t.replica = s.replica /\ t.argv = p.argv
         /\ t.db = DropEmpty(p.db, src) /\ t.dirty = p.dirty + 1
    BY <2>12, <2>14, <2>17 DEF SameButData
  <2>19. Wakes(s, t)
    BY <1>4, <2>11, <2>13, <2>15, <2>18 DEF Wakes, Fewer
  <2>20. Done(s, t) /\ t.dirty > s.dirty
    BY <1>1, <2>12, <2>15, <2>17, <2>18, <2>19 DEF Done
  <2>21. ASSUME s.blocking[dst] = <<>>
         PROVE  t.argv = sent /\ t.db = Transferred(s.db, src, dst)
    <3>1. o = Begun(u, dst)
      BY <2>5, <2>9, <2>21 DEF SameButData
    <3>2. o.s = u /\ o.taken = FALSE /\ o.moved = FALSE
      BY <3>1 DEF Begun
    <3>3. p = StoreAt(u, dst, v, sent)
      BY <2>10, <3>2
    <3>4. p.db = Pushed(u.db, dst, v, "head") /\ p.argv = sent
      BY <1>1, <1>2, <2>2, <2>7, <2>8, <3>3, StoreIs
    <3>5. QED
      BY <2>4, <2>5, <2>18, <3>4
  <2>22. QED
    BY <1>4, <2>1, <2>20, <2>21 DEF src, dst, t
<1>5. QED
  BY <1>3, <1>4

(* BRPOPLPUSH                                                                *)
LEMMA BlockingTransferIs ==
  ASSUME NEW s, Ready(s), NEW c \in Clients,
         s.argv.keys[1] \in WaitKeys, s.argv.keys[2] \in TargetKeys
  PROVE  LET t == brpoplpushCommand(s, c)
             src == s.argv.keys[1]
         IN  /\ s.db[src] # Nothing => t = rpoplpushCommand(s)
             /\ s.db[src] = Nothing => Done(s, t) /\ t.db = s.db /\ t.dirty = s.dirty
<1> DEFINE src == s.argv.keys[1]
           dst == s.argv.keys[2]
           keys == <<src>>
           t == brpoplpushCommand(s, c)
<1>1. t = CASE s.db[src] # Nothing -> rpoplpushCommand(s)
            [] s.db[src] = Nothing /\ s.client[c].multi -> s
            [] OTHER -> blockForKeys(s, c, keys, dst)
  BY DEF brpoplpushCommand
<1>2. keys \in Seq(WaitKeys) /\ Len(keys) = 1 /\ keys[1] = src
  OBVIOUS
<1> HIDE DEF t, keys
<1>3. CASE s.db[src] # Nothing
  BY <1>1, <1>3 DEF t
<1>4. CASE s.db[src] = Nothing /\ s.client[c].multi
  BY <1>1, <1>4, DoneSelf DEF t
<1>5. CASE s.db[src] = Nothing /\ ~s.client[c].multi
  <2>1. t = blockForKeys(s, c, keys, dst)
    BY <1>1, <1>5
  <2>2. \A i \in 1..Len(keys) : s.db[keys[i]] = Nothing
    BY <1>2, <1>5
  <2>3. Done(s, t) /\ t.db = s.db /\ t.dirty = s.dirty
    BY <1>2, <1>5, <2>1, <2>2, BlockDone
  <2>4. QED
    BY <1>5, <2>3 DEF t
<1>6. QED
  BY <1>3, <1>4, <1>5

-----------------------------------------------------------------------------
(* Pushes *)

(* The keys that a push has written and not told of.                         *)
Untold(pushed, key) == IF pushed THEN TargetKeys \cup {key} ELSE TargetKeys

Goes(s, u, W) ==
  /\ Moves(s, u, W) /\ Fewer(s, u)
  /\ Proper(u.db) /\ u.replica = s.replica /\ u.argv \in Commands
  /\ u.dirty >= s.dirty /\ (u.dirty = s.dirty => u.db = s.db)
  /\ \A j \in Keys \ W : u.db[j] = s.db[j]

Rounds(s, key) ==
  {p \in [s : Servers, waiting : BOOLEAN, pushed : BOOLEAN, cut : BOOLEAN] :
     /\ Goes(s, p.s, Untold(p.pushed, key))
     /\ p.pushed => ~p.waiting
     /\ p.waiting \/ p.s.blocking[key] = <<>> \/ s.db[key] # Nothing}

StoredIn(p, u, key, v, where) ==
  [p EXCEPT !.s = Changed(listTypePush(u, key, v, where)), !.waiting = FALSE, !.pushed = TRUE]

(* What a round does to the dataset: the element goes to a client, to the    *)
(* target of one, or to the key.                                             *)
Round(p, q, key, v, where) ==
  \/ q.s.db = p.s.db /\ q.s.dirty = p.s.dirty
  \/ \E k \in TargetKeys : /\ p.s.db[k].type # "string"
                           /\ q.s.db = Pushed(p.s.db, k, v, "head")
                           /\ q.s.argv = Lpush(k, v) /\ q.s.dirty = p.s.dirty + 1
  \/ /\ q.s.db = Pushed(p.s.db, key, v, where)
     /\ q.s.argv = p.s.argv /\ q.s.dirty = p.s.dirty + 1

LEMMA StoreRound ==
  ASSUME NEW s, Ready(s), NEW key \in Keys, NEW p \in Rounds(s, key), NEW v \in Values,
         NEW where, NEW u, Moves(s, u, Untold(p.pushed, key)), Fewer(s, u),
         u.db = p.s.db, u.replica = s.replica, u.argv = p.s.argv, u.dirty = p.s.dirty,
         u.blocking[key] = <<>> \/ s.db[key] # Nothing
  PROVE  LET q == StoredIn(p, u, key, v, where)
         IN  /\ q \in Rounds(s, key)
             /\ q.s.db = Pushed(p.s.db, key, v, where)
             /\ q.s.argv = p.s.argv /\ q.s.dirty = p.s.dirty + 1
             /\ q.s.blocking = u.blocking /\ q.cut = p.cut
<1> DEFINE l == listTypePush(u, key, v, where)
           t == Changed(l)
           q == StoredIn(p, u, key, v, where)
           W == Untold(TRUE, key)
<1>0. q = [p EXCEPT !.s = t, !.waiting = FALSE, !.pushed = TRUE]
  BY DEF StoredIn
<1>1. /\ p \in [s : Servers, waiting : BOOLEAN, pushed : BOOLEAN, cut : BOOLEAN]
      /\ p.s \in Servers /\ Proper(p.s.db) /\ p.s.argv \in Commands /\ p.s.dirty >= s.dirty
      /\ \A j \in Keys \ Untold(p.pushed, key) : p.s.db[j] = s.db[j]
  BY DEF Rounds, Goes
<1>2. s \in Servers /\ u \in Servers /\ p.s.db \in Data /\ s.dirty \in Nat /\ p.s.dirty \in Nat
  BY <1>1 DEF Ready, Moves, Servers
<1>3. l \in Servers /\ SameButData(u, l) /\ l.dirty = u.dirty /\ l.db = Pushed(u.db, key, v, where)
  BY <1>2, ListPushIs
<1> HIDE DEF l
<1>4. t \in Servers /\ SameButData(l, t) /\ t.db = l.db /\ t.dirty = l.dirty + 1
  BY <1>3, ChangedIs
<1> HIDE DEF t
<1>5. /\ t.client = u.client /\ t.blocking = u.blocking /\ t.replica = s.replica
      /\ t.argv = p.s.argv /\ t.dirty = p.s.dirty + 1
      /\ t.db = Pushed(p.s.db, key, v, where)
  BY <1>3, <1>4 DEF SameButData
<1>6. /\ Proper(t.db) /\ \A j \in Keys \ {key} : t.db[j] = p.s.db[j]
  BY <1>1, <1>2, <1>5, PushedIs DEF Proper
<1>7. key \in W /\ Untold(p.pushed, key) \subseteq W /\ \A j \in Keys \ W : j # key
  BY DEF Untold
<1> HIDE DEF W
<1>8. \A j \in Keys \ W : t.db[j] = u.db[j] /\ t.db[j] = s.db[j]
  BY <1>1, <1>6, <1>7
<1>9. Moves(s, t, W)
  BY <1>2, <1>4, <1>5, <1>7, <1>8, MovesData
<1>10. /\ q \in [s : Servers, waiting : BOOLEAN, pushed : BOOLEAN, cut : BOOLEAN]
       /\ q.s = t /\ q.waiting = FALSE /\ q.pushed = TRUE /\ q.cut = p.cut
  BY <1>0, <1>1, <1>4
<1> HIDE DEF q
<1>11. Fewer(s, t)
  BY <1>5 DEF Fewer
<1>12. Goes(s, t, W)
  BY <1>1, <1>2, <1>5, <1>6, <1>8, <1>9, <1>11 DEF Goes
<1>13. Untold(q.pushed, key) = W
  BY <1>10 DEF W, Untold
<1>14. q \in Rounds(s, key)
  BY <1>5, <1>10, <1>12, <1>13 DEF Rounds
<1>15. QED
  BY <1>5, <1>10, <1>14 DEF q, t, l

LEMMA RoundIs ==
  ASSUME NEW s, Ready(s), NEW key \in Keys, NEW p \in Rounds(s, key), NEW v \in Values,
         NEW where, \A k \in Keys : Lpush(k, v) \in Commands
  PROVE  LET q == PushRound(p, v, key, where)
         IN  /\ q \in Rounds(s, key)
             /\ ~p.cut => Round(p, q, key, v, where)
             /\ ~p.cut /\ p.s.blocking[key] = <<>> =>
                  /\ q.s.db = Pushed(p.s.db, key, v, where)
                  /\ q.s.argv = p.s.argv /\ q.s.dirty = p.s.dirty + 1
                  /\ q.s.blocking[key] = <<>> /\ ~q.cut
<1> DEFINE o == handleClientsWaitingListPush(p.s, key)
           q == PushRound(p, v, key, where)
           Store(u) == StoredIn(p, u, key, v, where)
           U == Untold(p.pushed, key)
           R == [s : Servers, waiting : BOOLEAN, pushed : BOOLEAN, cut : BOOLEAN]
<1>1. q = CASE p.cut -> p
            [] ~p.cut /\ ~p.waiting -> Store(p.s)
            [] ~p.cut /\ p.waiting /\ o.taken -> [p EXCEPT !.s = o.s]
            [] ~p.cut /\ p.waiting /\ ~o.taken /\ o.moved ->
                 [p EXCEPT !.s = StoreAt(o.s, o.key, v, Lpush(o.key, v)), !.cut = TRUE]
            [] OTHER -> Store(o.s)
  BY DEF PushRound, StoreForReceiver, StoredIn
<1>2. s \in Servers /\ s.dirty \in Nat /\ p \in R /\ p.s \in Servers /\ p.s.dirty \in Nat
      /\ p.cut \in BOOLEAN /\ p.waiting \in BOOLEAN /\ p.pushed \in BOOLEAN
  BY DEF Ready, Servers, Rounds
<1>3. /\ Goes(s, p.s, U) /\ Moves(s, p.s, U) /\ Fewer(s, p.s) /\ Proper(p.s.db) /\ p.s.replica = s.replica
      /\ p.s.argv \in Commands /\ p.s.dirty >= s.dirty
      /\ p.s.dirty = s.dirty => p.s.db = s.db
      /\ \A j \in Keys \ U : p.s.db[j] = s.db[j]
      /\ p.pushed => ~p.waiting
      /\ p.waiting \/ p.s.blocking[key] = <<>> \/ s.db[key] # Nothing
  BY DEF Rounds, Goes
<1>4. /\ o \in Journeys(s, p.s, U, key) /\ Resting(o)
      /\ p.s.blocking[key] = <<>> => o = Begun(p.s, key)
  BY <1>2, <1>3, JourneyIs
<1> HIDE DEF o
<1>5. /\ Moves(s, o.s, U) /\ o.s.db = p.s.db /\ o.s.replica = s.replica /\ o.s.argv = p.s.argv
      /\ o.s.dirty = p.s.dirty /\ Fewer(s, o.s) /\ o.key \in Keys /\ o.s \in Servers
      /\ o.moved => o.key \in TargetKeys /\ p.s.db[o.key].type # "string"
      /\ ~o.moved => o.key = key
      /\ o.taken \in BOOLEAN /\ o.moved \in BOOLEAN
  BY <1>3, <1>4 DEF Journeys, Fewer
<1>6. CASE p.cut
  BY <1>1, <1>6
<1>7. CASE ~p.cut /\ ~p.waiting
  <2>1. q = Store(p.s)
    BY <1>1, <1>7
  <2>2. /\ q \in Rounds(s, key)
        /\ q.s.db = Pushed(p.s.db, key, v, where)
        /\ q.s.argv = p.s.argv /\ q.s.dirty = p.s.dirty + 1
        /\ q.s.blocking = p.s.blocking /\ q.cut = p.cut
    BY <1>3, <1>7, <2>1, StoreRound
  <2>3. QED
    BY <1>7, <2>2 DEF Round
<1>8. CASE ~p.cut /\ p.waiting /\ o.taken
  <2>1. q = [p EXCEPT !.s = o.s]
    BY <1>1, <1>8
  <2>2. /\ q \in R /\ q.s = o.s /\ q.waiting = p.waiting /\ q.pushed = p.pushed /\ q.cut = p.cut
    BY <1>2, <1>5, <2>1
  <2> HIDE DEF q
  <2>3. q \in Rounds(s, key)
    <3> HIDE DEF U
    <3>1. Goes(s, o.s, U)
      BY <1>3, <1>5 DEF Goes
    <3>2. Untold(q.pushed, key) = U
      BY <2>2 DEF U
    <3>3. QED
      BY <1>3, <1>8, <2>2, <3>1, <3>2 DEF Rounds
  <2>4. Round(p, q, key, v, where)
    BY <1>5, <2>2 DEF Round
  <2>5. p.s.blocking[key] # <<>>
    BY <1>4, <1>8 DEF Begun
  <2>6. QED
    BY <2>3, <2>4, <2>5 DEF q
<1>9. CASE ~p.cut /\ p.waiting /\ ~o.taken /\ o.moved
  <2> DEFINE t == StoreAt(o.s, o.key, v, Lpush(o.key, v))
  <2>1. q = [p EXCEPT !.s = t, !.cut = TRUE]
    BY <1>1, <1>9
  <2>2. o.key \in U /\ \A j \in Keys \ U : j # o.key
    BY <1>5, <1>9 DEF Untold
  <2> HIDE DEF U
  <2>3. /\ Moves(s, t, U) /\ t.db = Pushed(o.s.db, o.key, v, "head")
        /\ t.blocking = o.s.blocking /\ t.replica = o.s.replica
        /\ t.argv = Lpush(o.key, v) /\ t.dirty = o.s.dirty + 1
    BY <1>2, <1>5, <2>2, StoreIs
  <2> HIDE DEF t
  <2>4. t \in Servers /\ p.s.db \in Data
    BY <1>2, <2>3 DEF Moves, Servers
  <2>5. /\ q \in R /\ q.s = t /\ q.waiting = p.waiting /\ q.pushed = p.pushed
    BY <1>2, <2>1, <2>4
  <2> HIDE DEF q, R
  <2>6. Proper(t.db) /\ \A j \in Keys \ U : t.db[j] = s.db[j]
    BY <1>3, <1>5, <2>2, <2>3, <2>4, PushedIs DEF Proper
  <2>7. Fewer(s, t)
    BY <1>5, <2>3 DEF Fewer
  <2>8. q \in Rounds(s, key)
    <3>1. Goes(s, t, U)
      BY <1>2, <1>3, <1>5, <2>3, <2>6, <2>7 DEF Goes
    <3>2. Untold(q.pushed, key) = U
      BY <2>5 DEF U
    <3>3. QED
      BY <1>3, <1>9, <2>5, <3>1, <3>2 DEF Rounds, R
  <2>9. Round(p, q, key, v, where)
    BY <1>5, <1>9, <2>3, <2>5 DEF Round
  <2>10. p.s.blocking[key] # <<>>
    BY <1>4, <1>9 DEF Begun
  <2>11. QED
    BY <2>8, <2>9, <2>10 DEF q
<1>10. CASE ~p.cut /\ p.waiting /\ ~o.taken /\ ~o.moved
  <2>1. q = Store(o.s)
    BY <1>1, <1>10
  <2>2. o.s.blocking[key] = <<>>
    BY <1>4, <1>5, <1>10 DEF Resting
  <2>3. /\ q \in Rounds(s, key)
        /\ q.s.db = Pushed(p.s.db, key, v, where)
        /\ q.s.argv = p.s.argv /\ q.s.dirty = p.s.dirty + 1
        /\ q.s.blocking = o.s.blocking /\ q.cut = p.cut
    BY <1>5, <2>1, <2>2, StoreRound
  <2>4. QED
    BY <1>10, <2>2, <2>3 DEF Round
<1>11. QED
  BY <1>2, <1>5, <1>6, <1>7, <1>8, <1>9, <1>10

(* LPUSH and RPUSH, of one element or more                                   *)
LEMMA PushIs ==
  ASSUME NEW s, Ready(s), s.argv.keys[1] \in Keys, NEW where,
         s.argv.vals \in Seq(Values), \A k \in Keys : \A v \in Values : Lpush(k, v) \in Commands
  PROVE  LET t == pushGenericCommand(s, where)
             key == s.argv.keys[1]
             vals == s.argv.vals
         IN  /\ Done(s, t) /\ t.dirty >= s.dirty
             /\ t.dirty = s.dirty => t.db = s.db
             /\ s.db[key].type = "string" => t = s
             /\ s.db[key].type # "string" /\ Len(vals) = 1 =>
                  \/ t.db = s.db /\ t.dirty = s.dirty
                  \/ \E k \in TargetKeys : /\ s.db[k].type # "string"
                                           /\ t.db = Pushed(s.db, k, vals[1], "head")
                                           /\ t.argv = Lpush(k, vals[1])
                  \/ t.db = Pushed(s.db, key, vals[1], where) /\ t.argv = s.argv
             /\ s.db[key].type # "string" /\ Len(vals) = 1 /\ s.blocking[key] = <<>> =>
                  t.db = Pushed(s.db, key, vals[1], where) /\ t.argv = s.argv
             /\ s.db[key].type # "string" /\ Len(vals) = 2 /\ s.blocking[key] = <<>> =>
                  /\ t.db = Pushed(Pushed(s.db, key, vals[1], where), key, vals[2], where)
                  /\ t.argv = s.argv
<1> DEFINE key == s.argv.keys[1]
           vals == s.argv.vals
           n == Len(vals)
           V == Rounds(s, key)
           b == [s |-> s, waiting |-> s.db[key] = Nothing, pushed |-> FALSE, cut |-> FALSE]
           p == AllRounds(b, vals, key, where)
           t == pushGenericCommand(s, where)
<1>1. s \in Servers /\ s.db \in Data /\ Proper(s.db) /\ s.argv \in Commands /\ s.dirty \in Nat
  BY DEF Ready, Servers
<1>2. t = CASE s.db[key].type = "string" -> s
            [] s.db[key].type # "string" /\ p.pushed -> signalModifiedKey(p.s, key)
            [] OTHER -> p.s
  BY DEF pushGenericCommand, AllRounds
<1>3. n \in Nat /\ DOMAIN vals = 1..n /\ \A i \in 1..n : vals[i] \in Values
  OBVIOUS
<1>4. /\ b.s = s /\ b.pushed = FALSE /\ b.cut = FALSE /\ (b.waiting <=> s.db[key] = Nothing)
      /\ b \in [s : Servers, waiting : BOOLEAN, pushed : BOOLEAN, cut : BOOLEAN]
  BY <1>1
<1> HIDE DEF b, key, vals, n
<1>5. key \in Keys
  BY DEF key
<1>6. b \in V
  <2>1. Moves(s, s, TargetKeys)
    BY <1>1, MovesSelf
  <2>2. Goes(s, s, TargetKeys)
    BY <1>1, <2>1 DEF Goes, Fewer
  <2>3. Untold(b.pushed, key) = TargetKeys
    BY <1>4 DEF Untold
  <2>4. QED
    BY <1>4, <2>2, <2>3 DEF Rounds
<1>7. \A q \in V : \A i \in 1..n : PushRound(q, vals[i], key, where) \in V
  BY <1>3, <1>5, RoundIs
<1> HIDE DEF V
<1>8. PICK run \in [0..n -> V] : RoundsRun(run, b, n, vals, key, where) /\ p = run[n] /\ p \in V
  <2>1. RoundsStay(V, n, vals, key, where)
    BY <1>7 DEF RoundsStay
  <2>2. QED
    BY <1>3, <1>6, <2>1, PushRuns
<1> HIDE DEF p, t
<1>9. /\ p.s \in Servers /\ Goes(s, p.s, Untold(p.pushed, key)) /\ p.pushed \in BOOLEAN
      /\ p.pushed => ~p.waiting
      /\ p.waiting \/ p.s.blocking[key] = <<>> \/ s.db[key] # Nothing
  BY <1>8 DEF V, Rounds
<1>10. CASE s.db[key].type = "string"
  <2>1. t = s
    BY <1>2, <1>10
  <2>2. QED
    BY <1>1, <1>10, <2>1, DoneSelf DEF t, key
<1>11. ASSUME s.db[key].type # "string"
       PROVE  /\ Done(s, t) /\ t.db = p.s.db /\ t.argv = p.s.argv /\ t.dirty = p.s.dirty
              /\ t.dirty >= s.dirty /\ (t.dirty = s.dirty => t.db = s.db)
  <2>1. s.db[key] # Nothing => s.db[key].type = "list"
    <3>1. s.db[key] \in Item
      BY <1>1, <1>5 DEF Data
    <3>2. QED
      BY <1>11, <3>1, Items
  <2>2. /\ Moves(s, t, TargetKeys) /\ t.db = p.s.db /\ t.argv = p.s.argv /\ t.dirty = p.s.dirty
        /\ t.blocking = p.s.blocking /\ t.replica = p.s.replica
    <3>1. CASE p.pushed
      <4> DEFINE m == signalModifiedKey(p.s, key)
      <4>1. t = m
        BY <1>2, <1>11, <3>1
      <4>2. Marks(p.s, m, {key})
        BY <1>5, <1>9, SignalIs
      <4>3. Moves(s, p.s, TargetKeys \cup {key})
        BY <1>9, <3>1 DEF Goes, Untold
      <4> HIDE DEF m
      <4>4. Moves(s, m, TargetKeys)
        BY <1>1, <4>2, <4>3, MovesMarks
      <4>5. QED
        BY <4>1, <4>2, <4>4 DEF Marks
    <3>2. CASE ~p.pushed
      <4>1. t = p.s
        BY <1>2, <1>11, <3>2
      <4>2. QED
        BY <1>9, <3>2, <4>1 DEF Goes, Untold
    <3>3. QED
      BY <3>1, <3>2
  <2>3. Wakes(s, t)
    <3>1. ASSUME NEW k \in Keys, t.blocking[k] # <<>>
          PROVE  s.blocking[k] # <<>> /\ (t.db[k].type = "list" => s.db[k].type = "list" \/ k \in TargetKeys)
      <4>1. s.blocking[k] # <<>>
        BY <1>9, <2>2, <3>1 DEF Goes, Fewer
      <4>2. CASE k \notin Untold(p.pushed, key)
        BY <1>9, <2>2, <4>1, <4>2 DEF Goes
      <4>3. CASE k \in TargetKeys
        BY <4>1, <4>3
      <4>4. CASE k = key /\ p.pushed
        BY <1>9, <2>1, <2>2, <3>1, <4>1, <4>4
      <4>5. QED
        BY <4>2, <4>3, <4>4 DEF Untold
    <3>2. QED
      BY <3>1 DEF Wakes
  <2>4. QED
    BY <1>9, <2>2, <2>3 DEF Done, Goes
<1>12. ASSUME n = 1 \/ n = 2
       PROVE  /\ run[1] \in V /\ Round(b, run[1], key, vals[1], where)
              /\ b.s.blocking[key] = <<>> =>
                   /\ run[1].s.db = Pushed(s.db, key, vals[1], where)
                   /\ run[1].s.argv = s.argv /\ run[1].s.blocking[key] = <<>> /\ ~run[1].cut
  <2>1. 1 \in 1..n /\ 1 \in 0..n /\ 1 - 1 = 0
    BY <1>12
  <2>2. run[1] = PushRound(b, vals[1], key, where) /\ run[1] \in V
    BY <1>8, <2>1 DEF RoundsRun
  <2>3. ~b.cut /\ b \in Rounds(s, key) /\ vals[1] \in Values
    BY <1>3, <1>4, <1>6, <2>1 DEF V
  <2>4. QED
    BY <1>4, <1>5, <2>2, <2>3, RoundIs
<1>13. ASSUME n = 2, s.blocking[key] = <<>>
       PROVE  /\ p.s.db = Pushed(Pushed(s.db, key, vals[1], where), key, vals[2], where)
              /\ p.s.argv = s.argv
  <2>1. 2 \in 1..n /\ 2 - 1 = 1
    BY <1>13
  <2>2. p = PushRound(run[1], vals[2], key, where)
    BY <1>8, <1>13, <2>1 DEF RoundsRun
  <2>3. ~run[1].cut /\ run[1] \in Rounds(s, key) /\ vals[2] \in Values /\ run[1].s.blocking[key] = <<>>
    BY <1>3, <1>4, <1>12, <1>13, <2>1 DEF V
  <2>4. p.s.db = Pushed(run[1].s.db, key, vals[2], where) /\ p.s.argv = run[1].s.argv
    BY <1>5, <2>2, <2>3, RoundIs
  <2>5. QED
    BY <1>4, <1>12, <1>13, <2>4
<1>14. CASE s.db[key].type # "string"
  <2>1. ASSUME n = 1
        PROVE  /\ \/ t.db = s.db /\ t.dirty = s.dirty
                  \/ \E k \in TargetKeys : /\ s.db[k].type # "string"
                                           /\ t.db = Pushed(s.db, k, vals[1], "head")
                                           /\ t.argv = Lpush(k, vals[1])
                  \/ t.db = Pushed(s.db, key, vals[1], where) /\ t.argv = s.argv
               /\ s.blocking[key] = <<>> =>
                    t.db = Pushed(s.db, key, vals[1], where) /\ t.argv = s.argv
    BY <1>4, <1>8, <1>11, <1>12, <1>14, <2>1 DEF Round
  <2>2. ASSUME n = 2, s.blocking[key] = <<>>
        PROVE  /\ t.db = Pushed(Pushed(s.db, key, vals[1], where), key, vals[2], where)
               /\ t.argv = s.argv
    BY <1>11, <1>13, <1>14, <2>2
  <2>3. QED
    BY <1>11, <1>14, <2>1, <2>2 DEF t, key, vals, n
<1>15. QED
  BY <1>10, <1>14

-----------------------------------------------------------------------------
(* Commands *)

Sent(argv) == [argv EXCEPT !.op = "rpoplpush"]

Shape(a) ==
  /\ a.op \in {"lpush", "rpush", "lpop", "rpop", "ltrim", "set", "del", "blpop", "brpop",
               "rpoplpush", "brpoplpush", "rename", "flushdb", "unwatch"}
  /\ a.op \in {"lpush", "rpush", "lpop", "rpop", "ltrim", "set", "del", "rpoplpush",
               "brpoplpush", "rename"} => a.keys[1] \in Keys
  /\ a.op \in {"lpush", "rpush"} =>
       a.vals \in Seq(Values) /\ (Len(a.vals) = 1 \/ (Len(a.vals) = 2 /\ a.keys[1] \in BatchKeys))
  /\ a.op \in {"blpop", "brpop"} => a.keys \in Seq(WaitKeys)
  /\ a.op = "brpoplpush" => a.keys[1] \in WaitKeys
  /\ a.op \in {"rpoplpush", "brpoplpush", "rename"} => a.keys[2] \in TargetKeys
  /\ a.op \in {"rpoplpush", "brpoplpush"} =>
       Sent(a) \in Commands /\ Sent(a).keys = a.keys /\ Sent(a).op = "rpoplpush"

C(op, keys, vals) == [op |-> op, keys |-> keys, vals |-> vals]

LEMMA CommandsAre ==
  ASSUME NEW a
  PROVE  a \in Commands <=>
           \/ \E op \in {"lpush", "rpush"} : \E k \in Keys : \E v \in Values : a = C(op, <<k>>, <<v>>)
           \/ \E k \in BatchKeys : \E v \in Values : \E w \in Values : a = C("lpush", <<k>>, <<v, w>>)
           \/ \E op \in {"lpop", "rpop", "ltrim", "set", "del"} : \E k \in Keys : a = C(op, <<k>>, <<>>)
           \/ \E op \in {"blpop", "brpop"} : \E k \in WaitKeys : a = C(op, <<k>>, <<>>)
           \/ \E k \in WaitKeys : \E l \in WaitKeys : a = C("blpop", <<k, l>>, <<>>)
           \/ \E k \in Keys : \E t \in TargetKeys : a = C("rpoplpush", <<k, t>>, <<>>)
           \/ \E k \in WaitKeys : \E t \in TargetKeys : a = C("brpoplpush", <<k, t>>, <<>>)
           \/ \E k \in Keys : \E t \in TargetKeys : a = C("rename", <<k, t>>, <<>>)
           \/ \E op \in {"flushdb", "unwatch"} : a = C(op, <<>>, <<>>)
BY DEF Commands, C

LEMMA CIs ==
  ASSUME NEW op, NEW keys, NEW vals
  PROVE  /\ C(op, keys, vals).op = op /\ C(op, keys, vals).keys = keys
         /\ C(op, keys, vals).vals = vals /\ Sent(C(op, keys, vals)) = C("rpoplpush", keys, vals)
BY DEF C, Sent

LEMMA LpushIsCommand ==
  ASSUME NEW k \in Keys, NEW v \in Values
  PROVE  /\ Lpush(k, v) \in Commands /\ Lpush(k, v).op = "lpush"
         /\ Lpush(k, v).keys[1] = k /\ Lpush(k, v).vals[1] = v /\ Len(Lpush(k, v).vals) = 1
<1>1. Lpush(k, v) = C("lpush", <<k>>, <<v>>)
  BY DEF Lpush, C
<1>2. C("lpush", <<k>>, <<v>>) \in Commands
  BY CommandsAre
<1>3. QED
  BY <1>1, <1>2 DEF C

LEMMA CommandsShape ==
  ASSUME NEW a \in Commands
  PROVE  Shape(a)
<1>1. CASE \E op \in {"lpush", "rpush"} : \E k \in Keys : \E v \in Values : a = C(op, <<k>>, <<v>>)
  <2>1. PICK op \in {"lpush", "rpush"}, k \in Keys, v \in Values : a = C(op, <<k>>, <<v>>)
    BY <1>1
  <2>2. a.op = op /\ a.keys[1] = k /\ a.vals = <<v>> /\ <<v>> \in Seq(Values) /\ Len(<<v>>) = 1
    BY <2>1 DEF C
  <2>3. /\ a.op = "lpush" \/ a.op = "rpush"
        /\ a.keys[1] \in Keys /\ a.vals \in Seq(Values) /\ Len(a.vals) = 1
    BY <2>2
  <2>4. QED
    BY <2>3 DEF Shape
<1>2. CASE \E k \in BatchKeys : \E v \in Values : \E w \in Values : a = C("lpush", <<k>>, <<v, w>>)
  <2>1. PICK k \in BatchKeys, v \in Values, w \in Values : a = C("lpush", <<k>>, <<v, w>>)
    BY <1>2
  <2>2. /\ a.op = "lpush" /\ a.keys[1] = k /\ a.vals = <<v, w>> /\ <<v, w>> \in Seq(Values)
        /\ Len(<<v, w>>) = 2 /\ k \in Keys
    BY <2>1, UsageAssumption DEF C
  <2>3. QED
    BY <2>2 DEF Shape
<1>3. CASE \E op \in {"lpop", "rpop", "ltrim", "set", "del"} : \E k \in Keys : a = C(op, <<k>>, <<>>)
  <2>1. PICK op \in {"lpop", "rpop", "ltrim", "set", "del"}, k \in Keys : a = C(op, <<k>>, <<>>)
    BY <1>3
  <2>2. a.op = op /\ a.keys[1] = k
    BY <2>1, CIs
  <2>3. QED
    BY <2>2 DEF Shape
<1>4. CASE \E op \in {"blpop", "brpop"} : \E k \in WaitKeys : a = C(op, <<k>>, <<>>)
  <2>1. PICK op \in {"blpop", "brpop"}, k \in WaitKeys : a = C(op, <<k>>, <<>>)
    BY <1>4
  <2>2. a.op = op /\ a.keys = <<k>> /\ <<k>> \in Seq(WaitKeys)
    BY <2>1 DEF C
  <2>3. QED
    BY <2>2 DEF Shape
<1>5. CASE \E k \in WaitKeys : \E l \in WaitKeys : a = C("blpop", <<k, l>>, <<>>)
  <2>1. PICK k \in WaitKeys, l \in WaitKeys : a = C("blpop", <<k, l>>, <<>>)
    BY <1>5
  <2>2. a.op = "blpop" /\ a.keys = <<k, l>> /\ <<k, l>> \in Seq(WaitKeys)
    BY <2>1 DEF C
  <2>3. QED
    BY <2>2 DEF Shape
<1>6. CASE \E k \in Keys : \E t \in TargetKeys : a = C("rpoplpush", <<k, t>>, <<>>)
  <2>1. PICK k \in Keys, t \in TargetKeys : a = C("rpoplpush", <<k, t>>, <<>>)
    BY <1>6
  <2>2. /\ a.op = "rpoplpush" /\ a.keys = <<k, t>> /\ a.keys[1] = k /\ a.keys[2] = t
        /\ Sent(a) = a
    BY <2>1, CIs
  <2>3. QED
    BY <2>2 DEF Shape
<1>7. CASE \E k \in WaitKeys : \E t \in TargetKeys : a = C("brpoplpush", <<k, t>>, <<>>)
  <2>1. PICK k \in WaitKeys, t \in TargetKeys : a = C("brpoplpush", <<k, t>>, <<>>)
    BY <1>7
  <2>2. k \in Keys
    BY UsageAssumption
  <2>3. /\ a.op = "brpoplpush" /\ a.keys = <<k, t>> /\ a.keys[1] = k /\ a.keys[2] = t
        /\ Sent(a) = C("rpoplpush", <<k, t>>, <<>>)
        /\ Sent(a).keys = a.keys /\ Sent(a).op = "rpoplpush"
    BY <2>1, CIs
  <2>4. Sent(a) \in Commands
    BY <2>2, <2>3, CommandsAre
  <2>5. QED
    BY <2>2, <2>3, <2>4 DEF Shape
<1>8. CASE \E k \in Keys : \E t \in TargetKeys : a = C("rename", <<k, t>>, <<>>)
  <2>1. PICK k \in Keys, t \in TargetKeys : a = C("rename", <<k, t>>, <<>>)
    BY <1>8
  <2>2. a.op = "rename" /\ a.keys[1] = k /\ a.keys[2] = t
    BY <2>1, CIs
  <2>3. QED
    BY <2>2 DEF Shape
<1>9. CASE \E op \in {"flushdb", "unwatch"} : a = C(op, <<>>, <<>>)
  <2>1. PICK op \in {"flushdb", "unwatch"} : a = C(op, <<>>, <<>>)
    BY <1>9
  <2>2. a.op = op
    BY <2>1 DEF C
  <2>3. QED
    BY <2>2 DEF Shape
<1>10. QED
  BY <1>1, <1>2, <1>3, <1>4, <1>5, <1>6, <1>7, <1>8, <1>9, CommandsAre

(* Every command, and nothing changes that is not counted.                   *)
LEMMA ProcIs ==
  ASSUME NEW s, Ready(s), NEW c \in Clients
  PROVE  LET t == Proc(s, c)
         IN  Done(s, t) /\ t.dirty >= s.dirty /\ (t.dirty = s.dirty => t.db = s.db)
<1> DEFINE a == s.argv
           t == Proc(s, c)
           Good(u) == Done(s, u) /\ u.dirty >= s.dirty /\ (u.dirty = s.dirty => u.db = s.db)
<1>0. SUFFICES Good(t)
  OBVIOUS
<1>1. Shape(a) /\ s.dirty \in Nat
  BY CommandsShape DEF Ready, Servers
<1>2. Good(s)
  BY <1>1, DoneSelf
<1>3. \A u : Done(s, u) => u.dirty \in Nat
  BY DEF Done, Moves, Servers
<1>4. \A k \in Keys : \A v \in Values : Lpush(k, v) \in Commands
  BY LpushIsCommand
<1>5. ASSUME NEW key \in Keys, NEW where
      PROVE  Good(popGenericCommand(s, key, where))
  BY <1>1, <1>2, PopIs
<1>6. ASSUME NEW where, s.argv.keys \in Seq(WaitKeys)
      PROVE  Good(blockingPopGenericCommand(s, c, where))
  <2> DEFINE u == blockingPopGenericCommand(s, c, where)
             first == FirstOf(s.db, s.argv.keys)
             key == s.argv.keys[first]
  <2>1. /\ Done(s, u)
        /\ u.dirty = s.dirty => u.db = s.db
        /\ first # 0 => key \in Keys /\ u = popGenericCommand(s, key, where)
        /\ first = 0 => u.dirty = s.dirty
    BY <1>6, BlockingPopIs
  <2> HIDE DEF u, first, key
  <2>2. CASE first = 0
    BY <1>1, <2>1, <2>2 DEF u
  <2>3. CASE first # 0
    <3>1. Good(u)
      BY <1>5, <2>1, <2>3
    <3>2. QED
      BY <3>1 DEF u
  <2>4. QED
    BY <2>2, <2>3
<1>7. ASSUME a.op \in {"rpoplpush", "brpoplpush"}
      PROVE  Good(rpoplpushCommand(s))
  <2> DEFINE u == rpoplpushCommand(s)
             sent == Sent(a)
  <2>1. s.argv.keys[1] \in Keys /\ s.argv.keys[2] \in TargetKeys /\ sent \in Commands
        /\ sent = [s.argv EXCEPT !.op = "rpoplpush"]
    BY <1>1, <1>7 DEF Shape, Sent
  <2> HIDE DEF sent
  <2>2. Done(s, u) /\ (u = s \/ u.dirty > s.dirty)
    BY <1>4, <2>1, TransferIs
  <2>3. QED
    BY <1>1, <1>2, <1>3, <2>2
<1> HIDE DEF Good
<1>8. CASE a.op = "lpush"
  <2>1. t = pushGenericCommand(s, "head")
    BY <1>8 DEF Proc
  <2>2. s.argv.keys[1] \in Keys /\ s.argv.vals \in Seq(Values)
    BY <1>1, <1>8 DEF Shape
  <2>3. QED
    BY <1>4, <2>1, <2>2, PushIs DEF Good
<1>9. CASE a.op = "rpush"
  <2>1. t = pushGenericCommand(s, "tail")
    BY <1>9 DEF Proc
  <2>2. s.argv.keys[1] \in Keys /\ s.argv.vals \in Seq(Values)
    BY <1>1, <1>9 DEF Shape
  <2>3. QED
    BY <1>4, <2>1, <2>2, PushIs DEF Good
<1>10. CASE a.op = "lpop"
  BY <1>1, <1>5, <1>10 DEF Proc, Shape, Good
<1>11. CASE a.op = "rpop"
  BY <1>1, <1>5, <1>11 DEF Proc, Shape, Good
<1>12. CASE a.op = "blpop"
  BY <1>1, <1>6, <1>12 DEF Proc, Shape, Good
<1>13. CASE a.op = "brpop"
  BY <1>1, <1>6, <1>13 DEF Proc, Shape, Good
<1>14. CASE a.op = "rpoplpush"
  BY <1>7, <1>14 DEF Proc, Good
<1>15. CASE a.op = "brpoplpush"
  <2>1. t = brpoplpushCommand(s, c)
    BY <1>15 DEF Proc
  <2>2. s.argv.keys[1] \in WaitKeys /\ s.argv.keys[2] \in TargetKeys
    BY <1>1, <1>15 DEF Shape
  <2>3. \/ t = rpoplpushCommand(s)
        \/ Done(s, t) /\ t.db = s.db /\ t.dirty = s.dirty
    BY <2>1, <2>2, BlockingTransferIs
  <2>4. QED
    BY <1>1, <1>7, <1>15, <2>3 DEF Good
<1>16. CASE a.op = "ltrim"
  <2>1. t = ltrimCommand(s) /\ s.argv.keys[1] \in Keys
    BY <1>1, <1>16 DEF Proc, Shape
  <2>2. t = popGenericCommand(s, s.argv.keys[1], "head")
    BY <2>1, LtrimIs
  <2>3. QED
    BY <1>5, <2>1, <2>2 DEF Good
<1>17. CASE a.op = "set"
  <2>1. t = setCommand(s) /\ s.argv.keys[1] \in Keys
    BY <1>1, <1>17 DEF Proc, Shape
  <2>2. Done(s, t) /\ t.dirty = s.dirty + 1
    BY <2>1, SetIs
  <2>3. QED
    BY <1>1, <2>2 DEF Good
<1>18. CASE a.op = "del"
  <2>1. t = delCommand(s) /\ s.argv.keys[1] \in Keys
    BY <1>1, <1>18 DEF Proc, Shape
  <2>2. Done(s, t) /\ (t = s \/ t.dirty = s.dirty + 1)
    BY <2>1, DelIs
  <2>3. QED
    BY <1>1, <1>2, <2>2 DEF Good
<1>19. CASE a.op = "rename"
  <2>1. t = renameCommand(s) /\ s.argv.keys[1] \in Keys /\ s.argv.keys[2] \in TargetKeys
    BY <1>1, <1>19 DEF Proc, Shape
  <2>2. Done(s, t) /\ (t = s \/ t.dirty = s.dirty + 1)
    BY <2>1, RenameIs
  <2>3. QED
    BY <1>1, <1>2, <2>2 DEF Good
<1>20. CASE a.op = "flushdb"
  <2>1. t = flushdbCommand(s)
    BY <1>20 DEF Proc
  <2> HIDE DEF t
  <2>2. /\ Done(s, t) /\ t.db = Empty /\ t.dirty >= s.dirty
        /\ t.dirty = s.dirty => s.db = Empty
    BY <2>1, FlushdbIs
  <2>3. QED
    BY <2>2 DEF Good
<1>21. CASE a.op = "unwatch"
  <2>1. t = unwatchCommand(s, c)
    BY <1>21 DEF Proc
  <2>2. QED
    BY <1>1, <2>1, UnwatchIs DEF Good
<1>22. QED
  <2> HIDE DEF t
  <2>1. QED
    BY <1>1, <1>8, <1>9, <1>10, <1>11, <1>12, <1>13, <1>14, <1>15, <1>16, <1>17, <1>18, <1>19,
       <1>20, <1>21 DEF Shape

-----------------------------------------------------------------------------
(* Propagation: what is sent of a command has its effect on a dataset that   *)
(* is the same, of a server where nobody waits.                              *)

Sleepers(s) ==
  \A k \in Keys : s.blocking[k] # <<>> => k \in WaitKeys /\ s.db[k].type # "list"

LEMMA ReplayIs ==
  ASSUME WaitKeys \cap (TargetKeys \cup BatchKeys) = {},
         NEW s, Ready(s), Sleepers(s), NEW c \in Clients,
         NEW t, t = Proc(s, c), t.dirty # s.dirty,
         NEW r, Ready(r), r.db = s.db, r.argv = t.argv, \A k \in Keys : r.blocking[k] = <<>>
  PROVE  Proc(r, c).db = t.db
<1> DEFINE a == s.argv
           u == Proc(r, c)
<1>1. Shape(a) /\ s.dirty \in Nat /\ s.argv \in Commands /\ s.db \in Data
  BY CommandsShape DEF Ready, Servers
<1>2. \A k \in Keys : \A v \in Values : Lpush(k, v) \in Commands
  BY LpushIsCommand
<1>3. \A k \in TargetKeys \cup BatchKeys : s.blocking[k] = <<>>
  BY UsageAssumption DEF Sleepers
<1>4. ASSUME NEW key \in Keys, NEW where, t = popGenericCommand(s, key, where)
      PROVE  /\ t.argv = s.argv
             /\ popGenericCommand(r, key, where).db = t.db
  <2>1. s.db[key].type = "list"
    BY <1>4, PopIs
  <2>2. t.db = Popped(s.db, key, where) /\ t.argv = s.argv
    BY <1>4, <2>1, PopIs
  <2>3. popGenericCommand(r, key, where).db = Popped(r.db, key, where)
    BY <2>1, PopIs
  <2>4. QED
    BY <2>2, <2>3
<1>5. ASSUME NEW where, t = pushGenericCommand(s, where), a.op \in {"lpush", "rpush"}
      PROVE  \/ t.argv.op = "lpush" /\ pushGenericCommand(r, "head").db = t.db
             \/ t.argv = s.argv /\ pushGenericCommand(r, where).db = t.db
  <2> DEFINE key == a.keys[1]
             vals == a.vals
  <2>1. /\ key \in Keys /\ vals \in Seq(Values)
        /\ Len(vals) = 1 \/ (Len(vals) = 2 /\ key \in BatchKeys)
    BY <1>1, <1>5 DEF Shape
  <2>2. s.db[key].type # "string"
    BY <1>2, <1>5, <2>1, PushIs
  <2>3. CASE Len(vals) = 1
    <3>0. 1 \in 1..Len(vals) /\ vals[1] \in Values
      BY <2>1, <2>3
    <3>1. \/ \E k \in TargetKeys : /\ s.db[k].type # "string"
                                   /\ t.db = Pushed(s.db, k, vals[1], "head")
                                   /\ t.argv = Lpush(k, vals[1])
          \/ t.db = Pushed(s.db, key, vals[1], where) /\ t.argv = s.argv
      BY <1>2, <1>5, <2>1, <2>2, <2>3, PushIs
    <3>2. ASSUME NEW k \in TargetKeys, s.db[k].type # "string",
                 t.db = Pushed(s.db, k, vals[1], "head"), t.argv = Lpush(k, vals[1])
          PROVE  t.argv.op = "lpush" /\ pushGenericCommand(r, "head").db = t.db
      <4>1. k \in Keys
        BY UsageAssumption
      <4>2. /\ t.argv.op = "lpush" /\ r.argv.keys[1] = k /\ r.argv.vals[1] = vals[1]
            /\ Len(r.argv.vals) = 1 /\ r.argv.vals = <<vals[1]>>
        BY <3>0, <3>2, <4>1, LpushIsCommand DEF Lpush
      <4>3. r.argv.vals \in Seq(Values)
        BY <3>0, <4>2
      <4>4. pushGenericCommand(r, "head").db = Pushed(r.db, k, vals[1], "head")
        BY <1>2, <3>2, <4>1, <4>2, <4>3, PushIs
      <4>5. QED
        BY <3>2, <4>2, <4>4
    <3>3. ASSUME t.db = Pushed(s.db, key, vals[1], where), t.argv = s.argv
          PROVE  pushGenericCommand(r, where).db = t.db
      <4>1. r.argv.keys[1] = key /\ r.argv.vals = vals /\ r.blocking[key] = <<>>
        BY <2>1, <3>3
      <4>2. pushGenericCommand(r, where).db = Pushed(r.db, key, vals[1], where)
        BY <1>2, <2>1, <2>2, <2>3, <4>1, PushIs
      <4>3. QED
        BY <3>3, <4>2
    <3>4. QED
      BY <3>1, <3>2, <3>3
  <2>4. CASE Len(vals) = 2 /\ key \in BatchKeys
    <3> DEFINE d == Pushed(Pushed(s.db, key, vals[1], where), key, vals[2], where)
    <3>1. s.blocking[key] = <<>>
      BY <1>3, <2>4
    <3>2. t.db = d /\ t.argv = s.argv
      BY <1>2, <1>5, <2>1, <2>2, <2>4, <3>1, PushIs
    <3>3. r.argv.keys[1] = key /\ r.argv.vals = vals /\ r.blocking[key] = <<>>
      BY <2>1, <3>2
    <3>4. pushGenericCommand(r, where).db = d
      BY <1>2, <2>1, <2>2, <2>4, <3>3, PushIs
    <3>5. QED
      BY <3>2, <3>4
  <2>5. QED
    BY <2>1, <2>3, <2>4
<1>6. ASSUME NEW where, t = blockingPopGenericCommand(s, c, where), a.keys \in Seq(WaitKeys)
      PROVE  t.argv = s.argv /\ blockingPopGenericCommand(r, c, where).db = t.db
  <2> DEFINE first == FirstOf(s.db, a.keys)
             key == a.keys[first]
  <2>1. first # 0 /\ key \in Keys /\ t = popGenericCommand(s, key, where)
    BY <1>6, BlockingPopIs
  <2>2. t.argv = s.argv /\ popGenericCommand(r, key, where).db = t.db
    BY <1>4, <2>1
  <2>3. FirstOf(r.db, r.argv.keys) = first /\ r.argv.keys[first] = key
    BY <2>2
  <2>4. r.argv.keys \in Seq(WaitKeys)
    BY <1>6, <2>2
  <2> HIDE DEF first, key
  <2>5. blockingPopGenericCommand(r, c, where) = popGenericCommand(r, key, where)
    BY <2>1, <2>3, <2>4, BlockingPopIs
  <2>6. QED
    BY <2>2, <2>5
<1>7. ASSUME t = rpoplpushCommand(s), a.op \in {"rpoplpush", "brpoplpush"}
      PROVE  t.argv.op = "rpoplpush" /\ rpoplpushCommand(r).db = t.db
  <2> DEFINE src == a.keys[1]
             dst == a.keys[2]
             sent == Sent(a)
  <2>1. src \in Keys /\ dst \in TargetKeys /\ sent \in Commands
        /\ sent = [s.argv EXCEPT !.op = "rpoplpush"] /\ sent.keys = a.keys /\ sent.op = "rpoplpush"
    BY <1>1, <1>7 DEF Shape, Sent
  <2>2. s.blocking[dst] = <<>> /\ dst \in Keys
    BY <1>3, <2>1, UsageAssumption
  <2> HIDE DEF sent
  <2>3. s.db[src].type = "list" /\ s.db[dst].type # "string"
    BY <1>2, <1>7, <2>1, TransferIs
  <2>4. t.argv = sent /\ t.db = Transferred(s.db, src, dst)
    BY <1>2, <1>7, <2>1, <2>2, <2>3, TransferIs
  <2>5. /\ r.argv = sent /\ r.argv.keys[1] = src /\ r.argv.keys[2] = dst /\ r.argv.op = "rpoplpush"
        /\ r.blocking[dst] = <<>>
    BY <2>1, <2>2, <2>4
  <2> HIDE DEF src, dst
  <2>6. /\ Sent(r.argv) \in Commands /\ Sent(r.argv) = [r.argv EXCEPT !.op = "rpoplpush"]
    BY <2>1, <2>5, CommandsShape DEF Shape, Sent
  <2>7. rpoplpushCommand(r).db = Transferred(r.db, src, dst)
    BY <1>2, <2>1, <2>3, <2>5, <2>6, TransferIs
  <2>8. QED
    BY <2>4, <2>5, <2>7
<1>8. CASE a.op = "lpush"
  <2>1. t = pushGenericCommand(s, "head")
    BY <1>8 DEF Proc
  <2>2. r.argv.op = "lpush" /\ pushGenericCommand(r, "head").db = t.db
    BY <1>5, <1>8, <2>1
  <2>3. QED
    BY <2>2 DEF Proc
<1>9. CASE a.op = "rpush"
  <2>1. t = pushGenericCommand(s, "tail")
    BY <1>9 DEF Proc
  <2>2. \/ r.argv.op = "lpush" /\ pushGenericCommand(r, "head").db = t.db
        \/ r.argv.op = "rpush" /\ pushGenericCommand(r, "tail").db = t.db
    BY <1>5, <1>9, <2>1
  <2>3. QED
    BY <2>2 DEF Proc
<1>10. CASE a.op = "lpop"
  <2>1. t = popGenericCommand(s, a.keys[1], "head") /\ a.keys[1] \in Keys
    BY <1>1, <1>10 DEF Proc, Shape
  <2>2. r.argv = a /\ popGenericCommand(r, a.keys[1], "head").db = t.db
    BY <1>4, <2>1
  <2>3. QED
    BY <1>10, <2>2 DEF Proc
<1>11. CASE a.op = "rpop"
  <2>1. t = popGenericCommand(s, a.keys[1], "tail") /\ a.keys[1] \in Keys
    BY <1>1, <1>11 DEF Proc, Shape
  <2>2. r.argv = a /\ popGenericCommand(r, a.keys[1], "tail").db = t.db
    BY <1>4, <2>1
  <2>3. QED
    BY <1>11, <2>2 DEF Proc
<1>12. CASE a.op = "blpop"
  <2>1. t = blockingPopGenericCommand(s, c, "head") /\ a.keys \in Seq(WaitKeys)
    BY <1>1, <1>12 DEF Proc, Shape
  <2>2. r.argv = a /\ blockingPopGenericCommand(r, c, "head").db = t.db
    BY <1>6, <2>1
  <2>3. QED
    BY <1>12, <2>2 DEF Proc
<1>13. CASE a.op = "brpop"
  <2>1. t = blockingPopGenericCommand(s, c, "tail") /\ a.keys \in Seq(WaitKeys)
    BY <1>1, <1>13 DEF Proc, Shape
  <2>2. r.argv = a /\ blockingPopGenericCommand(r, c, "tail").db = t.db
    BY <1>6, <2>1
  <2>3. QED
    BY <1>13, <2>2 DEF Proc
<1>14. CASE a.op = "rpoplpush"
  <2>1. t = rpoplpushCommand(s)
    BY <1>14 DEF Proc
  <2>2. r.argv.op = "rpoplpush" /\ rpoplpushCommand(r).db = t.db
    BY <1>7, <1>14, <2>1
  <2>3. QED
    BY <2>2 DEF Proc
<1>15. CASE a.op = "brpoplpush"
  <2>1. t = brpoplpushCommand(s, c) /\ a.keys[1] \in WaitKeys /\ a.keys[2] \in TargetKeys
    BY <1>1, <1>15 DEF Proc, Shape
  <2>2. t = rpoplpushCommand(s)
    BY <2>1, BlockingTransferIs
  <2>3. r.argv.op = "rpoplpush" /\ rpoplpushCommand(r).db = t.db
    BY <1>7, <1>15, <2>2
  <2>4. QED
    BY <2>3 DEF Proc
<1>16. CASE a.op = "ltrim"
  <2>1. t = ltrimCommand(s) /\ a.keys[1] \in Keys
    BY <1>1, <1>16 DEF Proc, Shape
  <2>2. t = popGenericCommand(s, a.keys[1], "head")
    BY <2>1, LtrimIs
  <2>3. r.argv = a /\ popGenericCommand(r, a.keys[1], "head").db = t.db
    BY <1>4, <2>1, <2>2
  <2>4. ltrimCommand(r) = popGenericCommand(r, a.keys[1], "head")
    BY <2>1, <2>3, LtrimIs
  <2>5. u = ltrimCommand(r)
    BY <1>16, <2>3 DEF Proc
  <2>6. QED
    BY <2>3, <2>4, <2>5
<1>17. CASE a.op = "set"
  <2>1. t = setCommand(s) /\ a.keys[1] \in Keys
    BY <1>1, <1>17 DEF Proc, Shape
  <2>2. r.argv = a /\ t.db = [s.db EXCEPT ![a.keys[1]] = Text]
    BY <2>1, SetIs
  <2>3. setCommand(r).db = [r.db EXCEPT ![a.keys[1]] = Text]
    BY <2>1, <2>2, SetIs
  <2>4. QED
    BY <1>17, <2>2, <2>3 DEF Proc
<1>18. CASE a.op = "del"
  <2>1. t = delCommand(s) /\ a.keys[1] \in Keys
    BY <1>1, <1>18 DEF Proc, Shape
  <2>2. s.db[a.keys[1]] # Nothing
    BY <2>1, DelIs
  <2>3. r.argv = a /\ t.db = [s.db EXCEPT ![a.keys[1]] = Nothing]
    BY <2>1, <2>2, DelIs
  <2>4. delCommand(r).db = [r.db EXCEPT ![a.keys[1]] = Nothing]
    BY <2>1, <2>2, <2>3, DelIs
  <2>5. QED
    BY <1>18, <2>3, <2>4 DEF Proc
<1>19. CASE a.op = "rename"
  <2>1. t = renameCommand(s) /\ a.keys[1] \in Keys /\ a.keys[2] \in TargetKeys
    BY <1>1, <1>19 DEF Proc, Shape
  <2>2. a.keys[1] # a.keys[2] /\ s.db[a.keys[1]] # Nothing
    BY <2>1, RenameIs
  <2>3. r.argv = a /\ t.db = Renamed(s.db, a.keys[1], a.keys[2])
    BY <2>1, <2>2, RenameIs
  <2>4. renameCommand(r).db = Renamed(r.db, a.keys[1], a.keys[2])
    BY <2>1, <2>2, <2>3, RenameIs
  <2>5. QED
    BY <1>19, <2>3, <2>4 DEF Proc
<1>20. CASE a.op = "flushdb"
  <2>1. t = flushdbCommand(s)
    BY <1>20 DEF Proc
  <2>2. r.argv = a /\ t.db = Empty
    BY <2>1, FlushdbIs
  <2>3. flushdbCommand(r).db = Empty
    BY FlushdbIs
  <2>4. QED
    BY <1>20, <2>2, <2>3 DEF Proc
<1>21. CASE a.op = "unwatch"
  <2>1. t = unwatchCommand(s, c)
    BY <1>21 DEF Proc
  <2>2. QED
    BY <2>1, UnwatchIs
<1>22. QED
  <2> HIDE DEF u
  <2>1. QED
    BY <1>1, <1>8, <1>9, <1>10, <1>11, <1>12, <1>13, <1>14, <1>15, <1>16, <1>17, <1>18, <1>19,
       <1>20, <1>21 DEF Shape

-----------------------------------------------------------------------------
(* Calls *)

Kind(s) == s \in Servers /\ Proper(s.db) /\ Proper(s.replica)
Follows(s) == Sleepers(s) /\ s.replica = s.db
Preserves(s, t) ==
  /\ WaitKeys \cap TargetKeys = {} => (Sleepers(s) => Sleepers(t))
  /\ WaitKeys \cap (TargetKeys \cup BatchKeys) = {} => (Follows(s) => Follows(t))

LEMMA MovesTransitive ==
  ASSUME NEW s, NEW t, NEW u, NEW U, s \in Servers, Moves(s, t, U), Moves(t, u, U)
  PROVE  Moves(s, u, U)
<1>1. ASSUME NEW d \in Clients
      PROVE  /\ Reaction(s.client[d], u.client[d])
             /\ \A k \in s.client[d].watched \ U : u.db[k] # s.db[k] => Excused(u.client[d])
  <2>1. /\ Reaction(s.client[d], t.client[d]) /\ Reaction(t.client[d], u.client[d])
        /\ \A k \in s.client[d].watched \ U : t.db[k] # s.db[k] => Excused(t.client[d])
        /\ \A k \in t.client[d].watched \ U : u.db[k] # t.db[k] => Excused(u.client[d])
    BY DEF Moves
  <2> DEFINE x == s.client[d]
             y == t.client[d]
             z == u.client[d]
  <2> HIDE DEF x, y, z
  <2>2. Reaction(x, y) /\ Reaction(y, z)
    BY <2>1 DEF x, y, z
  <2>3. Excused(y) => Excused(z)
    BY <2>2 DEF Reaction, Excused
  <2>4. Reaction(x, z)
    BY <2>2, <2>3 DEF Reaction, Excused
  <2>5. ASSUME NEW k \in x.watched \ U, u.db[k] # s.db[k]
        PROVE  Excused(z)
    <3>1. CASE t.db[k] # s.db[k]
      BY <2>1, <2>3, <2>5, <3>1 DEF x, y
    <3>2. CASE t.db[k] = s.db[k]
      BY <2>1, <2>2, <2>5, <3>2 DEF Reaction, Excused, y, z
    <3>3. QED
      BY <3>1, <3>2
  <2>6. QED
    BY <2>4, <2>5 DEF x, z
<1>2. u \in Servers
  BY DEF Moves
<1>3. QED
  BY <1>1, <1>2 DEF Moves

LEMMA SleepersStay ==
  ASSUME WaitKeys \cap TargetKeys = {}, NEW s, NEW t, Sleepers(s), Wakes(s, t)
  PROVE  Sleepers(t)
BY DEF Sleepers, Wakes

Slave(argv, data) ==
  [db |-> data, client |-> [d \in Clients |-> createClient],
   blocking |-> [k \in Keys |-> <<>>], replica |-> data, argv |-> argv, dirty |-> 0]

LEMMA CreatedIs ==
  /\ createClient \in Connection /\ ~createClient.multi /\ ~createClient.dirtyCas
  /\ createClient.watched = {} /\ createClient.keys = <<>>
<1>1. <<>> \in Seq(Commands) /\ <<>> \in Seq(WaitKeys)
  OBVIOUS
<1>2. QED
  BY <1>1 DEF createClient, Connection

LEMMA SlaveIs ==
  ASSUME NEW argv \in Commands, NEW data \in Data, Proper(data)
  PROVE  LET r == Slave(argv, data)
         IN  /\ Ready(r) /\ r.db = data /\ r.argv = argv /\ \A k \in Keys : r.blocking[k] = <<>>
<1>1. <<>> \in Seq(Clients)
  OBVIOUS
<1> DEFINE cs == [d \in Clients |-> createClient]
           bs == [k \in Keys |-> <<>>]
           r == Slave(argv, data)
<1>2. cs \in [Clients -> Connection] /\ bs \in [Keys -> Seq(Clients)] /\ \A k \in Keys : bs[k] = <<>>
  BY <1>1, CreatedIs
<1>3. r = [db |-> data, client |-> cs, blocking |-> bs, replica |-> data, argv |-> argv, dirty |-> 0]
  BY DEF Slave
<1> HIDE DEF cs, bs, r
<1>4. r \in Servers /\ r.db = data /\ r.argv = argv /\ r.blocking = bs
  BY <1>2, <1>3 DEF Servers
<1>5. QED
  BY <1>2, <1>4 DEF Ready, r

LEMMA CallIs ==
  ASSUME NEW s, Kind(s), NEW c \in Clients, NEW argv \in Commands
  PROVE  LET t == call(s, c, argv)
         IN  Kind(t) /\ Moves(s, t, TargetKeys) /\ Preserves(s, t)
<1> DEFINE b == [s EXCEPT !.argv = argv, !.dirty = 0]
           p == Proc(b, c)
           x == Proc(Slave(p.argv, s.replica), c).db
           t == call(s, c, argv)
<1>1. t = IF p.dirty > 0 THEN [p EXCEPT !.replica = x] ELSE p
  <2>1. p.replica = b.replica /\ b.replica = s.replica
    <3>1. Ready(b) /\ b.replica = s.replica
      BY DEF Kind, Ready, Servers
    <3> HIDE DEF b
    <3>2. QED
      BY <3>1, ProcIs DEF Done
  <2>2. Replayed(p.argv, s.replica, c) = x
    BY DEF Replayed, Slave
  <2> HIDE DEF x, p, b
  <2>3. QED
    BY <2>2 DEF call, p, b
<1>2. /\ s \in Servers /\ Ready(b) /\ b.db = s.db /\ b.client = s.client /\ b.blocking = s.blocking
      /\ b.replica = s.replica /\ b.dirty = 0
  BY DEF Kind, Ready, Servers
<1> HIDE DEF b
<1>3. Done(b, p) /\ p.dirty >= b.dirty /\ (p.dirty = b.dirty => p.db = b.db)
  BY <1>2, ProcIs
<1> HIDE DEF p, t
<1>4. /\ p \in Servers /\ Moves(b, p, TargetKeys) /\ Wakes(b, p) /\ Proper(p.db)
      /\ p.replica = s.replica /\ p.argv \in Commands /\ p.dirty \in Nat
  BY <1>2, <1>3 DEF Done, Moves, Servers
<1>5. s.replica \in Data /\ Proper(s.replica)
  BY DEF Kind, Servers
<1> DEFINE r == Slave(p.argv, s.replica)
<1>6. /\ Ready(r) /\ r.db = s.replica /\ r.argv = p.argv /\ \A k \in Keys : r.blocking[k] = <<>>
  BY <1>4, <1>5, SlaveIs
<1> HIDE DEF r
<1>7. x \in Data /\ Proper(x)
  <2>1. Done(r, Proc(r, c))
    BY <1>6, ProcIs
  <2>2. QED
    BY <2>1 DEF Done, Moves, Servers, r
<1>8. ASSUME WaitKeys \cap (TargetKeys \cup BatchKeys) = {}, Sleepers(s), s.replica = s.db, p.dirty # 0
      PROVE  x = p.db
  <2>1. Sleepers(b)
    BY <1>2, <1>8 DEF Sleepers
  <2>2. p = Proc(b, c) /\ p.dirty # b.dirty /\ r.db = b.db
    BY <1>2, <1>6, <1>8 DEF p
  <2>3. Proc(r, c).db = p.db
    BY <1>2, <1>6, <1>8, <2>1, <2>2, ReplayIs
  <2>4. QED
    BY <2>3 DEF r
<1> HIDE DEF x
<1>9. /\ t \in Servers /\ t.db = p.db /\ t.client = p.client /\ t.blocking = p.blocking
      /\ t.replica = IF p.dirty > 0 THEN x ELSE s.replica
  BY <1>1, <1>4, <1>7 DEF Servers
<1>10. Kind(t)
  BY <1>4, <1>5, <1>7, <1>9 DEF Kind
<1>11. Moves(s, t, TargetKeys)
  BY <1>2, <1>4, <1>9 DEF Moves
<1>12. Wakes(s, t)
  BY <1>2, <1>4, <1>9 DEF Wakes
<1>13. ASSUME WaitKeys \cap (TargetKeys \cup BatchKeys) = {}, Follows(s)
       PROVE  Follows(t)
  <2>1. Sleepers(t)
    BY <1>12, <1>13, SleepersStay DEF Follows
  <2>2. CASE p.dirty > 0
    BY <1>4, <1>8, <1>9, <1>13, <2>1, <2>2 DEF Follows
  <2>3. CASE ~(p.dirty > 0)
    <3>1. p.dirty = b.dirty
      BY <1>2, <1>4, <2>3
    <3>2. QED
      BY <1>2, <1>3, <1>9, <1>13, <2>1, <2>3, <3>1 DEF Follows
  <2>4. QED
    BY <2>2, <2>3
<1>14. Preserves(s, t)
  BY <1>12, <1>13, SleepersStay DEF Preserves
<1>15. QED
  BY <1>10, <1>11, <1>14 DEF t

(* The commands of a transaction, one after the other.                       *)
LEMMA CallsAre ==
  ASSUME NEW s, Kind(s), NEW c \in Clients, NEW queue \in Seq(Commands)
  PROVE  LET t == AllCalls(s, queue, c)
         IN  Kind(t) /\ Moves(s, t, TargetKeys) /\ Preserves(s, t)
<1> DEFINE V == {t \in Servers : Kind(t) /\ Moves(s, t, TargetKeys) /\ Preserves(s, t)}
           n == Len(queue)
<1>1. s \in V
  BY MovesSelf DEF Kind, Preserves
<1>2. ASSUME NEW t \in V, NEW i \in 1..n
      PROVE  call(t, c, queue[i]) \in V
  <2> DEFINE u == call(t, c, queue[i])
  <2>1. queue[i] \in Commands
    OBVIOUS
  <2>2. Kind(u) /\ Moves(t, u, TargetKeys) /\ Preserves(t, u)
    BY <2>1, CallIs
  <2> HIDE DEF u
  <2>3. Moves(s, u, TargetKeys)
    BY <2>2, MovesTransitive DEF Kind
  <2>4. Preserves(s, u)
    BY <2>2 DEF Preserves
  <2>5. QED
    BY <2>2, <2>3, <2>4 DEF Kind, u
<1>3. n \in Nat /\ DOMAIN queue = 1..n
  OBVIOUS
<1> HIDE DEF V, n
<1>4. CallsStay(V, n, queue, c)
  BY <1>2 DEF CallsStay
<1>5. AllCalls(s, queue, c) \in V
  BY <1>1, <1>3, <1>4, CallRuns
<1>6. QED
  BY <1>5 DEF V

-----------------------------------------------------------------------------
(* Steps of the server *)

(* A flag has a cause, and a transaction is not put to sleep.                *)
Sound(a) == (a.dirtyCas => a.watched # {}) /\ (a.multi => a.keys = <<>>)

(* What a step does to a client.                                             *)
Lives(a, b) == Sound(a) => Sound(b) /\ (a.multi => b.keys = <<>>)

Steps(s, t) ==
  /\ Kind(t) /\ Preserves(s, t)
  /\ \A d \in Clients : Lives(s.client[d], t.client[d])
  /\ \A d \in Clients : \A k \in s.client[d].watched \ TargetKeys :
       t.db[k] # s.db[k] => t.client[d].dirtyCas \/ k \notin t.client[d].watched

With(s, c, a) == [s EXCEPT !.client[c] = a]

LEMMA WithIs ==
  ASSUME NEW s, Kind(s), NEW c \in Clients, NEW a \in Connection
  PROVE  LET t == With(s, c, a)
         IN  /\ Kind(t) /\ t.db = s.db /\ t.replica = s.replica /\ t.blocking = s.blocking
             /\ t.client[c] = a /\ \A d \in Clients \ {c} : t.client[d] = s.client[d]
BY DEF With, Kind, Servers

(* A step that touches one client, and leaves the data alone.                *)
LEMMA QuietStep ==
  ASSUME NEW s, Kind(s), NEW t, Kind(t), NEW c \in Clients,
         t.db = s.db, t.replica = s.replica, Fewer(s, t),
         \A d \in Clients \ {c} : t.client[d] = s.client[d],
         Lives(s.client[c], t.client[c])
  PROVE  Steps(s, t)
<1>1. Preserves(s, t)
  BY DEF Preserves, Follows, Sleepers, Fewer
<1>2. \A d \in Clients : Lives(s.client[d], t.client[d])
  BY DEF Lives, Sound
<1>3. \A k \in TargetKeys \cup WatchKeys : k \in Keys
  BY UsageAssumption
<1>4. QED
  BY <1>1, <1>2 DEF Steps

LEMMA CallStep ==
  ASSUME NEW s, Kind(s), NEW t, Kind(t), Moves(s, t, TargetKeys), Preserves(s, t)
  PROVE  Steps(s, t)
<1>1. ASSUME NEW d \in Clients
      PROVE  Lives(s.client[d], t.client[d])
  <2>1. Reaction(s.client[d], t.client[d])
    BY DEF Moves
  <2>2. QED
    BY <2>1 DEF Reaction, Lives, Sound, Excused
<1>2. ASSUME NEW d \in Clients, NEW k \in s.client[d].watched \ TargetKeys, t.db[k] # s.db[k]
      PROVE  t.client[d].dirtyCas \/ k \notin t.client[d].watched
  <2>1. Excused(t.client[d])
    BY <1>2 DEF Moves
  <2>2. QED
    BY <2>1 DEF Excused
<1>3. QED
  BY <1>1, <1>2 DEF Steps

Multi(a) == [a EXCEPT !.multi = TRUE]
Queue(a, argv) == [a EXCEPT !.queue = Append(@, argv)]
Watch(a, k) == [a EXCEPT !.watched = @ \cup {k}]
Unwatched(a) == [a EXCEPT !.watched = {}]
Left(a) == [a EXCEPT !.multi = FALSE, !.dirtyCas = FALSE, !.queue = <<>>]

LEMMA ConnectionsAre ==
  ASSUME NEW a \in Connection
  PROVE  /\ Multi(a) \in Connection /\ (a.keys = <<>> => Lives(a, Multi(a)))
         /\ \A argv \in Commands : Queue(a, argv) \in Connection /\ Lives(a, Queue(a, argv))
         /\ \A k \in WatchKeys : Watch(a, k) \in Connection /\ Lives(a, Watch(a, k))
         /\ Unwatched(a) \in Connection
         /\ Unwatched(a).multi = a.multi /\ Unwatched(a).queue = a.queue
         /\ Unwatched(a).keys = a.keys /\ Unwatched(a).dirtyCas = a.dirtyCas
         /\ Unwatched(a).watched = {}
         /\ Left(a) \in Connection /\ Left(a).keys = a.keys /\ Left(a).watched = a.watched
         /\ Left(a).multi = FALSE /\ Left(a).dirtyCas = FALSE
<1>1. /\ Multi(a) \in Connection /\ Multi(a).keys = a.keys /\ Multi(a).multi = TRUE
      /\ Multi(a).dirtyCas = a.dirtyCas /\ Multi(a).watched = a.watched
  BY DEF Multi, Connection
<1>2. a.keys = <<>> => Lives(a, Multi(a))
  BY <1>1 DEF Lives, Sound
<1>3. ASSUME NEW argv \in Commands
      PROVE  Queue(a, argv) \in Connection /\ Lives(a, Queue(a, argv))
  <2>1. Append(a.queue, argv) \in Seq(Commands)
    BY AppendProperties DEF Connection
  <2> DEFINE q == Append(a.queue, argv)
             b == Queue(a, argv)
  <2>2. b = [a EXCEPT !.queue = q]
    BY DEF Queue, Connection
  <2> HIDE DEF q, b
  <2>3. /\ b \in Connection /\ b.keys = a.keys /\ b.multi = a.multi
        /\ b.dirtyCas = a.dirtyCas /\ b.watched = a.watched
    BY <2>1, <2>2 DEF Connection, q
  <2>4. Lives(a, b)
    BY <2>3 DEF Lives, Sound
  <2>5. QED
    BY <2>3, <2>4 DEF b
<1>4. ASSUME NEW k \in WatchKeys
      PROVE  Watch(a, k) \in Connection /\ Lives(a, Watch(a, k))
  <2> DEFINE b == Watch(a, k)
  <2>1. /\ b \in Connection /\ b.keys = a.keys /\ b.multi = a.multi
        /\ b.dirtyCas = a.dirtyCas /\ b.watched = a.watched \cup {k}
    BY DEF Watch, Connection
  <2> HIDE DEF b
  <2>2. Lives(a, b)
    BY <2>1 DEF Lives, Sound
  <2>3. QED
    BY <2>1, <2>2 DEF b
<1>5. /\ Unwatched(a) \in Connection
      /\ Unwatched(a).multi = a.multi /\ Unwatched(a).queue = a.queue
      /\ Unwatched(a).keys = a.keys /\ Unwatched(a).dirtyCas = a.dirtyCas
      /\ Unwatched(a).watched = {}
  BY DEF Unwatched, Connection
<1>6. /\ Left(a) \in Connection /\ Left(a).keys = a.keys /\ Left(a).watched = a.watched
      /\ Left(a).multi = FALSE /\ Left(a).dirtyCas = FALSE
  <2>1. <<>> \in Seq(Commands)
    OBVIOUS
  <2>2. QED
    BY <2>1 DEF Left, Connection
<1>7. QED
  BY <1>1, <1>2, <1>3, <1>4, <1>5, <1>6

LEMMA LeavingIs ==
  ASSUME NEW a \in Connection
  PROVE  Unwatched(a) \in Connection /\ Left(a) \in Connection
BY ConnectionsAre

LEMMA LeaveEdits ==
  ASSUME NEW s, Kind(s), NEW c \in Clients
  PROVE  /\ unwatchAllKeys(s, c) = With(s, c, Unwatched(s.client[c]))
         /\ LeaveMulti(s, c) = With(s, c, Left(s.client[c]))
BY DEF unwatchAllKeys, LeaveMulti, With, Unwatched, Left, Kind, Servers

Queueing(s, c, argv) == [s EXCEPT !.client[c].queue = Append(@, argv)]
Watching(s, c, k) == [s EXCEPT !.client[c].watched = @ \cup {k}]

LEMMA ClientEdits ==
  ASSUME NEW s, Kind(s), NEW c \in Clients
  PROVE  [s EXCEPT !.client[c].multi = TRUE] = With(s, c, Multi(s.client[c]))
BY DEF With, Multi, Kind, Servers

LEMMA QueueingIs ==
  ASSUME NEW s, Kind(s), NEW c \in Clients, NEW argv
  PROVE  Queueing(s, c, argv) = With(s, c, Queue(s.client[c], argv))
BY DEF With, Queue, Queueing, Kind, Servers

LEMMA WatchingIs ==
  ASSUME NEW s, Kind(s), NEW c \in Clients, NEW k
  PROVE  Watching(s, c, k) = With(s, c, Watch(s.client[c], k))
BY DEF With, Watch, Watching, Kind, Servers

-----------------------------------------------------------------------------
LEMMA EditStep ==
  ASSUME NEW s, Kind(s), NEW c \in Clients, NEW a \in Connection, Lives(s.client[c], a)
  PROVE  Steps(s, With(s, c, a))
<1> DEFINE t == With(s, c, a)
<1>1. /\ Kind(t) /\ t.db = s.db /\ t.replica = s.replica /\ t.blocking = s.blocking
      /\ t.client[c] = a /\ \A d \in Clients \ {c} : t.client[d] = s.client[d]
  BY WithIs
<1> HIDE DEF t
<1>2. Fewer(s, t)
  BY <1>1 DEF Fewer
<1>3. Steps(s, t)
  BY <1>1, <1>2, QuietStep
<1>4. QED
  BY <1>3 DEF t

(* A transaction is left, aborted or discarded.                              *)
LEMMA LeaveStep ==
  ASSUME NEW s, Kind(s), NEW c \in Clients
  PROVE  /\ Steps(s, LeaveMulti(unwatchAllKeys(s, c), c))
         /\ Steps(s, unwatchAllKeys(LeaveMulti(s, c), c))
<1> DEFINE a == s.client[c]
           u == unwatchAllKeys(s, c)
           v == LeaveMulti(s, c)
<1>1. a \in Connection
  BY DEF Kind, Servers
<1>2. u = With(s, c, Unwatched(a)) /\ v = With(s, c, Left(a))
  BY LeaveEdits
<1>3. Unwatched(a) \in Connection /\ Left(a) \in Connection
  BY <1>1, ConnectionsAre
<1> HIDE DEF a, u, v
<1>4. /\ Kind(u) /\ u.db = s.db /\ u.replica = s.replica /\ u.blocking = s.blocking
      /\ u.client[c] = Unwatched(a) /\ \A d \in Clients \ {c} : u.client[d] = s.client[d]
  BY <1>2, <1>3, WithIs
<1>5. /\ Kind(v) /\ v.db = s.db /\ v.replica = s.replica /\ v.blocking = s.blocking
      /\ v.client[c] = Left(a) /\ \A d \in Clients \ {c} : v.client[d] = s.client[d]
  BY <1>2, <1>3, WithIs
<1> DEFINE x == LeaveMulti(u, c)
           y == unwatchAllKeys(v, c)
<1>6. x = With(u, c, Left(Unwatched(a))) /\ Left(Unwatched(a)) \in Connection
  BY <1>3, <1>4, LeaveEdits, LeavingIs
<1>7. y = With(v, c, Unwatched(Left(a))) /\ Unwatched(Left(a)) \in Connection
  BY <1>3, <1>5, LeaveEdits, LeavingIs
<1>8. Lives(a, Left(Unwatched(a))) /\ Lives(a, Unwatched(Left(a)))
  BY <1>1, <1>3, ConnectionsAre DEF Lives, Sound
<1> HIDE DEF x, y
<1>9. /\ Kind(x) /\ x.db = s.db /\ x.replica = s.replica /\ x.blocking = s.blocking
      /\ x.client[c] = Left(Unwatched(a)) /\ \A d \in Clients \ {c} : x.client[d] = s.client[d]
  BY <1>4, <1>6, WithIs
<1>10. /\ Kind(y) /\ y.db = s.db /\ y.replica = s.replica /\ y.blocking = s.blocking
       /\ y.client[c] = Unwatched(Left(a)) /\ \A d \in Clients \ {c} : y.client[d] = s.client[d]
  BY <1>5, <1>7, WithIs
<1>11. Fewer(s, x) /\ Fewer(s, y)
  BY <1>9, <1>10 DEF Fewer
<1>12. Steps(s, x)
  BY <1>8, <1>9, <1>11, QuietStep DEF a
<1>13. Steps(s, y)
  BY <1>8, <1>10, <1>11, QuietStep DEF a
<1>14. QED
  BY <1>12, <1>13 DEF x, y, u, v

(* A transaction is executed.                                                *)
LEMMA ExecStep ==
  ASSUME NEW s, Kind(s), NEW c \in Clients, s.client[c].multi, ~s.client[c].dirtyCas
  PROVE  Steps(s, LeaveMulti(AllCalls(unwatchAllKeys(s, c), s.client[c].queue, c), c))
<1> DEFINE a == s.client[c]
           u == unwatchAllKeys(s, c)
           t == AllCalls(u, a.queue, c)
           x == LeaveMulti(t, c)
<1>1. a \in Connection /\ a.queue \in Seq(Commands)
  BY DEF Kind, Servers, Connection
<1>2. u = With(s, c, Unwatched(a)) /\ Unwatched(a) \in Connection
  BY <1>1, LeaveEdits, LeavingIs
<1>3. a.multi /\ ~a.dirtyCas
  OBVIOUS
<1> HIDE DEF a, u
<1>4. /\ Kind(u) /\ u.db = s.db /\ u.replica = s.replica /\ u.blocking = s.blocking
      /\ u.client[c] = Unwatched(a) /\ \A d \in Clients \ {c} : u.client[d] = s.client[d]
  BY <1>2, WithIs
<1>5. Kind(t) /\ Moves(u, t, TargetKeys) /\ Preserves(u, t)
  BY <1>1, <1>4, CallsAre
<1> DEFINE b == t.client[c]
<1>6. b \in Connection
  BY <1>5 DEF Kind, Servers
<1>7. x = With(t, c, Left(b)) /\ Left(b) \in Connection
  BY <1>5, <1>6, LeaveEdits, LeavingIs
<1> HIDE DEF t, x
<1>8. /\ Kind(x) /\ x.db = t.db /\ x.replica = t.replica /\ x.blocking = t.blocking
      /\ x.client[c] = Left(b) /\ \A d \in Clients \ {c} : x.client[d] = t.client[d]
  BY <1>5, <1>7, WithIs
<1>9. Steps(u, t)
  BY <1>4, <1>5, CallStep
<1>10. Lives(a, Left(b))
  <2>1. Reaction(Unwatched(a), b)
    BY <1>4, <1>5 DEF Moves
  <2>2. a.keys = <<>> => b.keys = <<>>
    <3>1. Unwatched(a).multi /\ Unwatched(a).keys = a.keys
      BY <1>1, <1>3, ConnectionsAre
    <3>2. QED
      BY <2>1, <3>1 DEF Reaction
  <2>3. QED
    BY <1>3, <1>6, <2>2, ConnectionsAre DEF Lives, Sound
<1>11. Left(b).watched = {}
  <2>1. Reaction(Unwatched(a), b)
    BY <1>4, <1>5 DEF Moves
  <2>2. b.watched = {}
    BY <1>1, <2>1, ConnectionsAre DEF Reaction
  <2>3. QED
    BY <1>6, <2>2, ConnectionsAre
<1>12. Preserves(s, x)
  BY <1>4, <1>5, <1>8 DEF Preserves, Follows, Sleepers
<1>13. \A d \in Clients : Lives(s.client[d], x.client[d])
  BY <1>4, <1>8, <1>9, <1>10 DEF Steps, a
<1>14. ASSUME NEW d \in Clients, NEW k \in s.client[d].watched \ TargetKeys, x.db[k] # s.db[k]
       PROVE  x.client[d].dirtyCas \/ k \notin x.client[d].watched
  BY <1>4, <1>8, <1>9, <1>11, <1>14 DEF Steps
<1>15. Steps(s, x)
  BY <1>8, <1>12, <1>13, <1>14 DEF Steps
<1>16. QED
  BY <1>15 DEF x, t, u, a

(* A client stops waiting.                                                   *)
LEMMA TimeoutStep ==
  ASSUME NEW s, Kind(s), NEW c \in Clients
  PROVE  Steps(s, unblockClientWaitingData(s, c))
<1> DEFINE t == unblockClientWaitingData(s, c)
<1>1. /\ t \in Servers /\ t.db = s.db /\ t.replica = s.replica
      /\ \A d \in Clients \ {c} : t.client[d] = s.client[d]
      /\ t.client[c] = Awake(s.client[c]) /\ Fewer(s, t)
  BY UnblockIs DEF Kind
<1>2. s.client[c] \in Connection
  BY DEF Kind, Servers
<1>3. Lives(s.client[c], Awake(s.client[c]))
  BY <1>2, AwakeIs DEF Lives, Sound
<1> HIDE DEF t
<1>4. Kind(t)
  BY <1>1 DEF Kind
<1>5. Steps(s, t)
  BY <1>1, <1>3, <1>4, QuietStep
<1>6. QED
  BY <1>5 DEF t

(* A client is gone, and another has its place.                              *)
LEMMA FreeStep ==
  ASSUME NEW s, Kind(s), NEW c \in Clients
  PROVE  Steps(s, [unwatchAllKeys(unblockClientWaitingData(s, c), c) EXCEPT !.client[c] = createClient])
<1> DEFINE t == unblockClientWaitingData(s, c)
           u == unwatchAllKeys(t, c)
           x == [u EXCEPT !.client[c] = createClient]
<1>1. /\ t \in Servers /\ t.db = s.db /\ t.replica = s.replica
      /\ \A d \in Clients \ {c} : t.client[d] = s.client[d]
      /\ Fewer(s, t)
  BY UnblockIs DEF Kind
<1> HIDE DEF t
<1>2. Kind(t) /\ t.client[c] \in Connection
  BY <1>1 DEF Kind, Servers
<1>3. u = With(t, c, Unwatched(t.client[c])) /\ Unwatched(t.client[c]) \in Connection
  BY <1>2, LeaveEdits, LeavingIs
<1> HIDE DEF u
<1>4. /\ Kind(u) /\ u.db = t.db /\ u.replica = t.replica /\ u.blocking = t.blocking
      /\ \A d \in Clients \ {c} : u.client[d] = t.client[d]
  BY <1>2, <1>3, WithIs
<1>5. x = With(u, c, createClient)
  BY DEF With
<1> HIDE DEF x
<1>6. /\ Kind(x) /\ x.db = u.db /\ x.replica = u.replica /\ x.blocking = u.blocking
      /\ x.client[c] = createClient /\ \A d \in Clients \ {c} : x.client[d] = u.client[d]
  BY <1>4, <1>5, CreatedIs, WithIs
<1>7. Fewer(s, x) /\ Lives(s.client[c], createClient)
  BY <1>1, <1>4, <1>6, CreatedIs DEF Fewer, Lives, Sound
<1>8. Steps(s, x)
  BY <1>1, <1>4, <1>6, <1>7, QuietStep
<1>9. QED
  BY <1>8 DEF x, u, t

-----------------------------------------------------------------------------
(* Every action is such a step. *)

Bounded == \A k \in Keys : Len(db[k].items) <= MaxLength

LEMMA ServerIs ==
  /\ Server.db = db /\ Server.client = client /\ Server.blocking = blocking
  /\ Server.replica = replica /\ Server.argv = NoCommand /\ Server.dirty = 0
BY DEF Server

LEMMA NextSteps ==
  ASSUME Kind(Server), Next
  PROVE  \E t : Steps(Server, t) /\ Become(t)
<1> DEFINE s == Server
<1>0. s.client = client /\ \A c \in Clients : s.client[c] \in Connection
  BY ServerIs DEF Kind, Servers
<1>1. ASSUME NEW c \in Clients, Execute(c)
      PROVE  \E t : Steps(s, t) /\ Become(t)
  <2>1. PICK argv \in Commands : Become(call(s, c, argv))
    BY <1>1 DEF Execute
  <2>2. Steps(s, call(s, c, argv))
    BY CallIs, CallStep
  <2>3. QED
    BY <2>1, <2>2
<1>2. ASSUME NEW c \in Clients, Timeout(c)
      PROVE  \E t : Steps(s, t) /\ Become(t)
  BY <1>2, TimeoutStep DEF Timeout
<1>3. ASSUME NEW c \in Clients, freeClient(c)
      PROVE  \E t : Steps(s, t) /\ Become(t)
  BY <1>3, FreeStep DEF freeClient
<1>4. ASSUME NEW c \in Clients, multiCommand(c)
      PROVE  \E t : Steps(s, t) /\ Become(t)
  <2> DEFINE t == With(s, c, Multi(s.client[c]))
  <2>1. Become(t)
    BY <1>4, ClientEdits DEF multiCommand
  <2>2. s.client[c] \in Connection /\ s.client[c].keys = <<>>
    BY <1>0, <1>4 DEF multiCommand, Blocked
  <2>3. Steps(s, t)
    BY <2>2, ConnectionsAre, EditStep
  <2>4. QED
    BY <2>1, <2>3
<1>5. ASSUME NEW c \in Clients, queueMultiCommand(c)
      PROVE  \E t : Steps(s, t) /\ Become(t)
  <2>1. PICK argv \in Commands : Become(Queueing(s, c, argv))
    BY <1>5 DEF queueMultiCommand, Queueing
  <2> DEFINE t == With(s, c, Queue(s.client[c], argv))
  <2>2. Become(t)
    <3>1. t = Queueing(s, c, argv)
      BY QueueingIs
    <3> HIDE DEF s, t
    <3>2. QED
      BY <2>1, <3>1 DEF Become
  <2>3. Steps(s, t)
    BY <1>0, ConnectionsAre, EditStep
  <2>4. QED
    BY <2>2, <2>3
<1>6. ASSUME NEW c \in Clients, watchCommand(c)
      PROVE  \E t : Steps(s, t) /\ Become(t)
  <2>1. PICK k \in WatchKeys : Become(Watching(s, c, k))
    BY <1>6 DEF watchCommand, Watching
  <2> DEFINE t == With(s, c, Watch(s.client[c], k))
  <2>2. Become(t)
    <3>1. t = Watching(s, c, k)
      BY WatchingIs
    <3> HIDE DEF s, t
    <3>2. QED
      BY <2>1, <3>1 DEF Become
  <2>3. Steps(s, t)
    BY <1>0, ConnectionsAre, EditStep
  <2>4. QED
    BY <2>2, <2>3
<1>7. ASSUME NEW c \in Clients, discardCommand(c)
      PROVE  \E t : Steps(s, t) /\ Become(t)
  BY <1>7, LeaveStep DEF discardCommand
<1>8. ASSUME NEW c \in Clients, execCommand(c)
      PROVE  \E t : Steps(s, t) /\ Become(t)
  <2>1. CASE client[c].dirtyCas /\ Become(LeaveMulti(unwatchAllKeys(s, c), c))
    BY <2>1, LeaveStep
  <2> DEFINE t == LeaveMulti(AllCalls(unwatchAllKeys(s, c), client[c].queue, c), c)
  <2>2. CASE ~client[c].dirtyCas /\ Become(t)
    <3>1. s.client[c].multi /\ ~s.client[c].dirtyCas
      BY <1>0, <1>8, <2>2 DEF execCommand
    <3>2. Steps(s, LeaveMulti(AllCalls(unwatchAllKeys(s, c), s.client[c].queue, c), c))
      BY <3>1, ExecStep
    <3>3. QED
      BY <1>0, <2>2, <3>2
  <2>3. QED
    BY <1>8, <2>1, <2>2 DEF execCommand, AllCalls
<1>9. Transactors \subseteq Clients
  BY UsageAssumption
<1>10. QED
  BY <1>1, <1>2, <1>3, <1>4, <1>5, <1>6, <1>7, <1>8, <1>9 DEF Next

(* The server that a step becomes.                                           *)
LEMMA BecomeIs ==
  ASSUME NEW t, Kind(t), Become(t)
  PROVE  /\ Kind(Server)' /\ Bounded'
         /\ Sleepers(t) => Sleepers(Server)'
         /\ Follows(t) => Follows(Server)'
<1>1. /\ Server.db' = t.db /\ Server.client' = t.client /\ Server.blocking' = t.blocking
      /\ Server.replica' = t.replica /\ Bounded'
  BY DEF Become, Server, Bounded
<1>2. Server' \in Servers
  BY DEF Become, Server, Servers, Kind
<1>3. Kind(Server)'
  BY <1>1, <1>2 DEF Kind
<1>4. QED
  BY <1>1, <1>3 DEF Sleepers, Follows

-----------------------------------------------------------------------------
(* The inductive invariant: the types, no empty list, and for each client    *)
(* that what it has marked has a cause, and that it does not sleep with a    *)
(* transaction begun.                                                        *)

IInv == Kind(Server) /\ Bounded /\ \A c \in Clients : Sound(client[c])

LEMMA InitIInv ==
  ASSUME Init
  PROVE  IInv /\ Follows(Server)
<1>1. <<>> \in Seq(Clients) /\ \A k \in Keys : Nothing \in Item /\ Nothing # List(<<>>)
  BY Items
<1>2. /\ db = [k \in Keys |-> Nothing] /\ replica = db
      /\ client = [c \in Clients |-> createClient] /\ blocking = [k \in Keys |-> <<>>]
  BY DEF Init
<1>3. db \in Data /\ Proper(db)
  BY <1>1, <1>2 DEF Data, Proper
<1>4. client \in [Clients -> Connection] /\ blocking \in [Keys -> Seq(Clients)]
  BY <1>1, <1>2, CreatedIs
<1>5. Server \in Servers
  BY <1>2, <1>3, <1>4 DEF Server, Servers
<1>6. Kind(Server)
  BY <1>2, <1>3, <1>5, ServerIs DEF Kind
<1>7. Bounded
  BY <1>2, UsageAssumption DEF Bounded, Nothing
<1>8. \A c \in Clients : Sound(client[c])
  BY <1>2, CreatedIs DEF Sound
<1>9. Follows(Server)
  BY <1>2, ServerIs DEF Follows, Sleepers
<1>10. QED
  BY <1>6, <1>7, <1>8, <1>9 DEF IInv

LEMMA NextIInv ==
  ASSUME IInv, [Next]_vars
  PROVE  /\ IInv'
         /\ \A c \in Clients : client[c].multi => client'[c].keys = <<>>
         /\ \A c \in Clients : \A k \in client[c].watched \ TargetKeys :
              db'[k] # db[k] => client'[c].dirtyCas \/ k \notin client'[c].watched
         /\ WaitKeys \cap TargetKeys = {} => (Sleepers(Server) => Sleepers(Server)')
         /\ WaitKeys \cap (TargetKeys \cup BatchKeys) = {} => (Follows(Server) => Follows(Server)')
<1>1. CASE Next
  <2>1. PICK t : Steps(Server, t) /\ Become(t)
    BY <1>1, NextSteps DEF IInv
  <2>2. Kind(t) /\ Preserves(Server, t)
    BY <2>1 DEF Steps
  <2>3. /\ \A d \in Clients : Lives(client[d], client'[d])
        /\ \A d \in Clients : \A k \in client[d].watched \ TargetKeys :
             db'[k] # db[k] => client'[d].dirtyCas \/ k \notin client'[d].watched
    BY <2>1, ServerIs DEF Steps, Become
  <2>4. \A d \in Clients : Sound(client'[d]) /\ (client[d].multi => client'[d].keys = <<>>)
    BY <2>3 DEF Lives, IInv
  <2>5. /\ Kind(Server)' /\ Bounded'
        /\ Sleepers(t) => Sleepers(Server)'
        /\ Follows(t) => Follows(Server)'
    BY <2>1, <2>2, BecomeIs
  <2>6. IInv'
    BY <2>4, <2>5 DEF IInv
  <2>7. QED
    BY <2>2, <2>3, <2>4, <2>5, <2>6 DEF Preserves
<1>2. CASE UNCHANGED vars
  <2>1. db' = db /\ client' = client /\ blocking' = blocking /\ replica' = replica
    BY <1>2 DEF vars
  <2>2. Server' = Server
    BY <2>1 DEF Server
  <2>3. Kind(Server)' /\ Bounded' /\ (Sleepers(Server) => Sleepers(Server)')
        /\ (Follows(Server) => Follows(Server)')
    BY <2>1, <2>2 DEF IInv, Kind, Sleepers, Follows, Bounded
  <2>4. \A c \in Clients : Sound(client'[c]) /\ (client[c].multi => client'[c].keys = <<>>)
    BY <2>1 DEF IInv, Sound
  <2>5. QED
    BY <2>1, <2>3, <2>4 DEF IInv
<1>3. QED
  BY <1>1, <1>2

(* Every state of the server satisfies it.                                   *)
LEMMA Invariance == Spec => []IInv
<1>1. Init => IInv
  BY InitIInv
<1>2. IInv /\ [Next]_vars => IInv'
  BY NextIInv
<1>3. QED
  BY <1>1, <1>2, PTL DEF Spec

(* No command leaves an empty list behind, whoever waits or watches, and     *)
(* the queues, transactions and watched keys have their types.               *)
THEOREM Typing == Spec => []TypeOK
<1>1. IInv => TypeOK
  <2> SUFFICES ASSUME IInv PROVE TypeOK
    OBVIOUS
  <2>1. /\ db \in Data /\ Proper(db) /\ replica \in Data
        /\ client \in [Clients -> Connection] /\ blocking \in [Keys -> Seq(Clients)]
    <3>1. Server \in Servers /\ Proper(Server.db)
      BY DEF IInv, Kind
    <3>2. QED
      BY <3>1, ServerIs DEF Servers
  <2>2. ASSUME NEW k \in Keys
        PROVE  db[k] \in Objects
    <3>1. db[k] \in Item /\ db[k] # List(<<>>) /\ Len(db[k].items) <= MaxLength
      BY <2>1 DEF Data, Proper, IInv, Bounded
    <3>2. CASE db[k].type # "list"
      <4>1. db[k] \in {Nothing, Text}
        BY <3>1, <3>2, Items
      <4>2. QED
        BY <4>1 DEF Objects, Nothing, Text
    <3>3. CASE db[k].type = "list"
      <4> DEFINE items == db[k].items
                 m == Len(items)
      <4>1. items \in Seq(Values) /\ db[k] = List(items) /\ items # <<>>
        BY <3>1, <3>3, Items
      <4>2. m \in 0..MaxLength /\ items \in [1..m -> Values]
        BY <3>1, <4>1, UsageAssumption
      <4>3. items \in BoundedSeq(Values, MaxLength)
        BY <4>2 DEF BoundedSeq, SeqOf
      <4>4. QED
        BY <4>1, <4>3 DEF Objects
    <3>4. QED
      BY <3>2, <3>3
  <2>3. ASSUME NEW o \in Item
        PROVE  o \in [type : {"none", "string", "list"}, items : Seq(Values)]
    <3>1. CASE o.type # "list"
      <4>1. o \in {Nothing, Text} /\ <<>> \in Seq(Values)
        BY <2>3, <3>1, Items
      <4>2. {Nothing, Text} \subseteq [type : {"none", "string", "list"}, items : Seq(Values)]
        BY <4>1 DEF Nothing, Text
      <4>3. QED
        BY <4>1, <4>2
    <3>2. CASE o.type = "list"
      <4>1. o = List(o.items) /\ o.items \in Seq(Values)
        BY <2>3, <3>2, Items
      <4>2. \A items \in Seq(Values) :
              List(items) \in [type : {"none", "string", "list"}, items : Seq(Values)]
        BY DEF List
      <4>3. QED
        BY <4>1, <4>2
    <3>3. QED
      BY <3>1, <3>2
  <2>4. QED
    BY <2>1, <2>2, <2>3 DEF TypeOK, Connection, Data
<1>2. QED
  BY <1>1, Invariance, PTL

(* A transaction is aborted only for a key its client watches: EXEC,         *)
(* DISCARD, UNWATCH and the loss of the connection take the flag with them.  *)
THEOREM AbortsHaveCauses == Spec => []AbortHasACause
<1>1. IInv => AbortHasACause
  BY DEF IInv, AbortHasACause, Sound
<1>2. QED
  BY <1>1, Invariance, PTL

(* No command of a transaction puts its client to sleep, nor does the        *)
(* command of another client.                                                *)
THEOREM TransactionsNeverBlock == Spec => ExecNeverBlocks
<1>1. IInv /\ [Next]_vars => [\A c \in Clients : client[c].multi => ~Blocked(c)']_vars
  BY NextIInv DEF Blocked
<1>2. QED
  BY <1>1, Invariance, PTL DEF Spec, ExecNeverBlocks

(* Where no watched key is written by RPOPLPUSH, BRPOPLPUSH or RENAME:       *)
(* whatever command changes a key, of whichever client, on behalf of         *)
(* whichever waiting client, all who watch it are marked.                    *)
THEOREM WatchersAreTold ==
  ASSUME WatchKeys \cap TargetKeys = {}
  PROVE  Spec => WatchedChangeIsNoticed
<1>1. IInv => \A c \in Clients : client[c].watched \subseteq WatchKeys
  <2> SUFFICES ASSUME IInv PROVE \A c \in Clients : client[c].watched \subseteq WatchKeys
    OBVIOUS
  <2>1. client \in [Clients -> Connection]
    BY ServerIs DEF IInv, Kind, Servers
  <2>2. QED
    BY <2>1 DEF Connection
<1>2. IInv /\ [Next]_vars =>
        [\A c \in Clients : \A k \in client[c].watched :
           db'[k] # db[k] => client'[c].dirtyCas \/ k \notin client'[c].watched]_vars
  BY <1>1, NextIInv
<1>3. QED
  BY <1>2, Invariance, PTL DEF Spec, WatchedChangeIsNoticed

(* Where no key that is waited on is the target of a transfer: whatever      *)
(* order pushes, pops, errors, timeouts and transactions come in, nobody     *)
(* sleeps on a list.                                                         *)
THEOREM NobodySleepsOnAList ==
  ASSUME WaitKeys \cap TargetKeys = {}
  PROVE  Spec => []NobodyWaitsForAvailable
<1>1. Init => Sleepers(Server)
  BY InitIInv DEF Follows
<1>2. IInv /\ Sleepers(Server) /\ [Next]_vars => Sleepers(Server)'
  BY NextIInv
<1>3. Sleepers(Server) => NobodyWaitsForAvailable
  BY ServerIs DEF Sleepers, NobodyWaitsForAvailable
<1>4. QED
  BY <1>1, <1>2, <1>3, Invariance, PTL DEF Spec

(* Where, besides, nobody waits on a key that several elements are pushed    *)
(* on at once: whatever the clients do, a slave in sync that executes what   *)
(* it is sent has the dataset of its master.                                 *)
THEOREM TheReplicaFollows ==
  ASSUME WaitKeys \cap (TargetKeys \cup BatchKeys) = {}
  PROVE  Spec => []ReplicaFollows
<1>1. Init => Follows(Server)
  BY InitIInv
<1>2. IInv /\ Follows(Server) /\ [Next]_vars => Follows(Server)'
  BY NextIInv
<1>3. Follows(Server) => ReplicaFollows
  BY ServerIs DEF Follows, ReplicaFollows
<1>4. QED
  BY <1>1, <1>2, <1>3, Invariance, PTL DEF Spec
=============================================================================
