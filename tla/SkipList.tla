------------------------------ MODULE SkipList ------------------------------
(***************************************************************************)
(* The two encodings of a sorted set in t_zset.c: the skip list (zsl...)   *)
(* and the list of pairs in a ziplist (zzl...), which go through the same  *)
(* operations here.                                                        *)
(*                                                                         *)
(* An element is its place in the order of bytes, and a node of the skip   *)
(* list is the element it holds; 0 is the header.  A span is the number of *)
(* nodes that a forward pointer passes.                                    *)
(***************************************************************************)
EXTENDS Integers, Sequences, FiniteSets, SequencesExt

CONSTANTS MaxElement, Scores,
          MaxLevel \* ZSKIPLIST_MAXLEVEL

(* What the module needs of its constants. *)
SkipListAssumption ==
  /\ MaxElement \in Nat /\ Scores \subseteq Int
  /\ MaxLevel \in Nat \ {0}

Elements == 1..MaxElement
Levels == 1..MaxLevel
Header == 0
NoNode == -1

VARIABLES zsl,  \* the skip list: next, span, back, score, tail, level, length
          zl,   \* the ziplist, as the pairs in it
          reply \* whether the element was there

vars == <<zsl, zl, reply>>

NoLinks == [i \in Levels |-> NoNode]
NoSpans == [i \in Levels |-> 0]

(* zslCreate                                                                 *)
zslCreate ==
  [next |-> [n \in {Header} \cup Elements |-> NoLinks],
   span |-> [n \in {Header} \cup Elements |-> NoSpans],
   back |-> [n \in Elements |-> NoNode],
   score |-> [n \in Elements |-> 0],
   tail |-> NoNode, level |-> 1, length |-> 0]

-----------------------------------------------------------------------------
(* Searching: from the top level down, forward while Before holds of the     *)
(* next node and of the number of nodes passed with it.                      *)

Search(z, Before(_, _)) ==
  LET from[i \in Levels, n \in {Header} \cup Elements, rank \in 0..MaxElement] ==
        LET m == z.next[n][i]
            passed == rank + z.span[n][i]
        IN  IF m # NoNode /\ Before(m, passed) THEN from[i, m, passed]
            ELSE [node |-> n, rank |-> rank]
      at[i \in Levels] ==
        IF i = z.level THEN from[i, Header, 0] ELSE from[i, at[i + 1].node, at[i + 1].rank]
  IN  [i \in 1..z.level |-> at[i]]

Below(z, m, score, e) == z.score[m] < score \/ (z.score[m] = score /\ m < e)

(* update[] and rank[] of zslInsert and zslDelete.                           *)
Place(z, score, e) == Search(z, LAMBDA m, passed : Below(z, m, score, e))

First(z) == z.next[Header][1]

InOrder(z) ==
  LET after[n \in {Header} \cup Elements] ==
        IF z.next[n][1] = NoNode THEN <<>> ELSE <<z.next[n][1]>> \o after[z.next[n][1]]
  IN  after[Header]

-----------------------------------------------------------------------------
(* Insertion and deletion in the skip list *)

(* height is what zslRandomLevel drew.                                       *)
zslInsert(z, score, e, height) ==
  LET found == Place(z, score, e)
      level == IF height > z.level THEN height ELSE z.level
      update == [i \in 1..level |-> IF i > z.level THEN Header ELSE found[i].node]
      rank == [i \in 1..level |-> IF i > z.level THEN 0 ELSE found[i].rank]
      old(i) == IF i > z.level THEN z.length ELSE z.span[update[i]][i]
      crossed(i) == rank[1] - rank[i]
      Linked(i, n) == i <= height /\ n = update[i]
      Passed(i, n) == i \in height + 1..level /\ n = update[i]
      succ == z.next[update[1]][1]
  IN  [z EXCEPT
        !.next = [n \in DOMAIN @ |-> [i \in Levels |->
           IF Linked(i, n) THEN e
           ELSE IF n = e /\ i <= height THEN z.next[update[i]][i] ELSE @[n][i]]],
        !.span = [n \in DOMAIN @ |-> [i \in Levels |->
           IF Linked(i, n) THEN crossed(i) + 1
           ELSE IF Passed(i, n) THEN @[n][i] + 1
           ELSE IF n = e /\ i <= height THEN old(i) - crossed(i) ELSE @[n][i]]],
        !.back = [n \in Elements |->
           IF n = e THEN (IF update[1] = Header THEN NoNode ELSE update[1])
           ELSE IF n = succ THEN e ELSE @[n]],
        !.score[e] = score,
        !.tail = IF succ = NoNode THEN e ELSE @,
        !.level = level,
        !.length = @ + 1]

(* zslDeleteNode, for the node after update[1], and zslFreeNode.             *)
zslDeleteNode(z, x, update) ==
  LET Linked(i, n) == i <= z.level /\ n = update[i] /\ z.next[n][i] = x
      Passed(i, n) == i <= z.level /\ n = update[i] /\ z.next[n][i] # x
      links == [n \in DOMAIN z.next |-> [i \in Levels |->
                  IF Linked(i, n) THEN z.next[x][i] ELSE z.next[n][i]]]
      used == {i \in 2..z.level : links[Header][i] # NoNode}
      succ == z.next[x][1]
  IN  [z EXCEPT
        !.next = [links EXCEPT ![x] = NoLinks],
        !.span = [n \in DOMAIN @ |-> [i \in Levels |->
           IF n = x THEN 0
           ELSE IF Linked(i, n) THEN @[n][i] + @[x][i] - 1
           ELSE IF Passed(i, n) THEN @[n][i] - 1 ELSE @[n][i]]],
        !.back = [n \in Elements |->
           IF n = x THEN NoNode ELSE IF n = succ THEN @[x] ELSE @[n]],
        !.score[x] = 0,
        !.tail = IF succ = NoNode THEN z.back[x] ELSE @,
        !.level = CHOOSE l \in {1} \cup used : \A i \in used : i <= l,
        !.length = @ - 1]

Nodes(search) == [i \in DOMAIN search |-> search[i].node]

zslDelete(z, score, e) ==
  LET update == Nodes(Place(z, score, e))
      x == z.next[update[1]][1]
  IN  IF x = e /\ z.score[x] = score THEN zslDeleteNode(z, x, update) ELSE z

(* The nodes after update[1] go while In holds of them and of their number.  *)
DeleteWhile(z0, update, In(_, _, _)) ==
  LET Del(z, k) ==
        LET x == z.next[update[1]][1]
        IN  IF x # NoNode /\ z.length = z0.length - (k - 1) /\ In(z, x, k)
            THEN zslDeleteNode(z, x, update) ELSE z
  IN  FoldLeft(Del, z0, [k \in 1..z0.length |-> k])

GteMin(x, range) == IF range.minex THEN x > range.min ELSE x >= range.min
LteMax(x, range) == IF range.maxex THEN x < range.max ELSE x <= range.max

zslDeleteRangeByScore(z, range) ==
  DeleteWhile(z, Nodes(Search(z, LAMBDA m, passed : ~GteMin(z.score[m], range))),
              LAMBDA y, x, k : LteMax(y.score[x], range))

(* Ranks from 1.                                                             *)
zslDeleteRangeByRank(z, start, end) ==
  LET found == Search(z, LAMBDA m, passed : passed < start)
  IN  DeleteWhile(z, Nodes(found), LAMBDA y, x, k : found[1].rank + k <= end)

-----------------------------------------------------------------------------
(* Questions to the skip list *)

zslIsInRange(z, range) ==
  /\ range.min < range.max \/ (range.min = range.max /\ ~range.minex /\ ~range.maxex)
  /\ z.tail # NoNode /\ GteMin(z.score[z.tail], range)
  /\ First(z) # NoNode /\ LteMax(z.score[First(z)], range)

zslFirstInRange(z, range) ==
  LET x == z.next[Search(z, LAMBDA m, passed : ~GteMin(z.score[m], range))[1].node][1]
  IN  IF ~zslIsInRange(z, range) THEN NoNode
      ELSE IF LteMax(z.score[x], range) THEN x ELSE NoNode

zslLastInRange(z, range) ==
  LET x == Search(z, LAMBDA m, passed : LteMax(z.score[m], range))[1].node
  IN  IF ~zslIsInRange(z, range) THEN NoNode
      ELSE IF GteMin(z.score[x], range) THEN x ELSE NoNode

(* The first level, from the top, at which the search stops at the element.  *)
zslGetRank(z, score, e) ==
  LET found == Search(z, LAMBDA m, passed : Below(z, m, score, e) \/ (z.score[m] = score /\ m = e))
      there == {i \in DOMAIN found : found[i].node = e}
  IN  IF there = {} THEN 0 ELSE found[CHOOSE i \in there : \A j \in there : j <= i].rank

zslGetElementByRank(z, rank) ==
  LET found == Search(z, LAMBDA m, passed : passed <= rank)
      there == {i \in DOMAIN found : found[i].rank = rank}
  IN  IF there = {} THEN NoNode ELSE found[CHOOSE i \in there : \A j \in there : j <= i].node

-----------------------------------------------------------------------------
(* The ziplist: pairs, looked at from the first *)

Pair(e, score) == [element |-> e, score |-> score]

FirstIndex(list, Is(_)) ==
  LET some == {i \in DOMAIN list : Is(list[i])}
  IN  IF some = {} THEN 0 ELSE CHOOSE i \in some : \A j \in some : i <= j

zzlFind(list, e) == FirstIndex(list, LAMBDA p : p.element = e)
zzlDelete(list, i) == RemoveAt(list, i)

(* Mutation: equal scores keep the order of insertion.                       *)
zzlInsert_Last(list, e, score) ==
  LET i == FirstIndex(list, LAMBDA p : p.score > score)
  IN  IF i = 0 THEN Append(list, Pair(e, score)) ELSE InsertAt(list, i, Pair(e, score))

zzlInsert(list, e, score) ==
  LET i == FirstIndex(list, LAMBDA p : p.score > score \/ (p.score = score /\ p.element > e))
  IN  IF i = 0 THEN Append(list, Pair(e, score)) ELSE InsertAt(list, i, Pair(e, score))

zzlIsInRange(list, range) ==
  /\ range.min < range.max \/ (range.min = range.max /\ ~range.minex /\ ~range.maxex)
  /\ list # <<>>
  /\ GteMin(Last(list).score, range) /\ LteMax(Head(list).score, range)

zzlFirstInRange(list, range) ==
  LET i == FirstIndex(list, LAMBDA p : GteMin(p.score, range))
  IN  IF zzlIsInRange(list, range) /\ LteMax(list[i].score, range) THEN i ELSE 0

(* From the last pair back.                                                  *)
zzlLastInRange(list, range) ==
  LET i == Len(list) + 1 - FirstIndex(Reverse(list), LAMBDA p : LteMax(p.score, range))
  IN  IF zzlIsInRange(list, range) /\ GteMin(list[i].score, range) THEN i ELSE 0

zzlDeleteRangeByScore(list, range) ==
  LET first == zzlFirstInRange(list, range)
      stay == {i \in DOMAIN list : i > first /\ ~LteMax(list[i].score, range)}
      next == IF stay = {} THEN Len(list) + 1 ELSE CHOOSE i \in stay : \A j \in stay : i <= j
  IN  IF first = 0 THEN list
      ELSE SubSeq(list, 1, first - 1) \o SubSeq(list, next, Len(list))

(* ziplistDeleteRange stops at the end of the list.                          *)
zzlDeleteRangeByRank(list, start, end) ==
  SubSeq(list, 1, start - 1) \o SubSeq(list, end + 1, Len(list))

-----------------------------------------------------------------------------
(* The commands, on both encodings *)

Ranges == [min : Scores, max : Scores, minex : BOOLEAN, maxex : BOOLEAN]

(* zaddGenericCommand: an element whose score changes is taken out and put   *)
(* in again.                                                                 *)
zadd(e, score, height) ==
  LET i == zzlFind(zl, e)
      known == i # 0
      old == zl[i].score
  IN  /\ reply' = known
      /\ IF known /\ old = score THEN UNCHANGED <<zsl, zl>>
         ELSE /\ zsl' = zslInsert(IF known THEN zslDelete(zsl, old, e) ELSE zsl, score, e, height)
              /\ zl' = zzlInsert(IF known THEN zzlDelete(zl, i) ELSE zl, e, score)

zrem(e) ==
  LET i == zzlFind(zl, e)
  IN  /\ reply' = (i # 0)
      /\ zsl' = IF i = 0 THEN zsl ELSE zslDelete(zsl, zl[i].score, e)
      /\ zl' = IF i = 0 THEN zl ELSE zzlDelete(zl, i)

zremrangebyscore(range) ==
  /\ zsl' = zslDeleteRangeByScore(zsl, range)
  /\ zl' = zzlDeleteRangeByScore(zl, range)
  /\ reply' = (zl' # zl)

zremrangebyrank(start, end) ==
  /\ start <= end /\ end <= Len(zl)
  /\ zsl' = zslDeleteRangeByRank(zsl, start, end)
  /\ zl' = zzlDeleteRangeByRank(zl, start, end)
  /\ reply' = TRUE

Init == zsl = zslCreate /\ zl = <<>> /\ reply = FALSE

Next ==
  \/ \E e \in Elements, score \in Scores, height \in Levels : zadd(e, score, height)
  \/ \E e \in Elements : zrem(e)
  \/ \E range \in Ranges : zremrangebyscore(range)
  \/ \E start, end \in Elements : zremrangebyrank(start, end)

Spec == Init /\ [][Next]_vars

-----------------------------------------------------------------------------
(* Properties *)

Ordered == InOrder(zsl)

(* Every forward pointer leads to the next node as high as its level, and    *)
(* its span is the distance: ranks are sums of spans, and one that is off by *)
(* one stays wrong for good.                                                 *)
SpansRight ==
  LET place == [n \in {Header} \cup Elements |->
                  IF n = Header THEN 0 ELSE SelectInSeq(Ordered, LAMBDA m : m = n)]
      listed == {Header} \cup ToSet(Ordered)
  IN  \A n \in listed, i \in 1..zsl.level :
        zsl.next[n][i] # NoNode =>
          /\ zsl.next[n][i] \in listed
          /\ zsl.span[n][i] = place[zsl.next[n][i]] - place[n]

(* The two encodings of a sorted set are the same sorted set: same order,    *)
(* ranks and range limits, by pointers and spans in one and by position in   *)
(* the other, so that converting one to the other changes no answer.         *)
EncodingsAgree ==
  /\ SpansRight
  /\ Ordered = [i \in DOMAIN zl |-> zl[i].element]
  /\ zsl.length = Len(zl)
  /\ zsl.tail = IF zl = <<>> THEN NoNode ELSE Last(Ordered)
  /\ \A i \in DOMAIN zl :
       LET e == zl[i].element
       IN  /\ zsl.score[e] = zl[i].score
           /\ zsl.back[e] = IF i = 1 THEN NoNode ELSE Ordered[i - 1]
           /\ zslGetRank(zsl, zl[i].score, e) = i
           /\ zslGetElementByRank(zsl, i) = e
  /\ \A range \in Ranges :
       LET At(i) == IF i = 0 THEN NoNode ELSE zl[i].element
       IN  /\ zslFirstInRange(zsl, range) = At(zzlFirstInRange(zl, range))
           /\ zslLastInRange(zsl, range) = At(zzlLastInRange(zl, range))

M == INSTANCE AbstractMap
       WITH Keys <- Elements, Items <- Scores, map <- [e \in ToSet(Ordered) |-> zsl.score[e]]

(* A sorted set maps elements to scores, as its dictionary does.             *)
SkipListImplementsMap == M!Spec
=============================================================================
