----------------------------- MODULE SortedSets -----------------------------
(***************************************************************************)
(* The commands on sorted sets that change the key space (t_zset.c), and   *)
(* SORT (sort.c).                                                          *)
(*                                                                         *)
(* A sorted set is the function of its scores: what its two encodings do   *)
(* is the subject of SkipList and Ziplist.  A score is an integer; those   *)
(* beyond MaxScore stand for the infinities, NaN is what adding the two    *)
(* makes.  A finite sum beyond MaxScore is rounded to it.                  *)
(***************************************************************************)
EXTENDS Sets

CONSTANTS MaxScore,   \* the greatest finite score
          MaxZiplist, \* zset-max-ziplist-entries
          Collation   \* Elements in the order of their bytes

ASSUME SortedSetsAssumption ==
  /\ MaxScore \in Nat /\ MaxZiplist \in Nat
  /\ ToSet(Collation) = Elements /\ IsInjective(Collation)

PlusInf == MaxScore + 1
MinusInf == -PlusInf
NaN == MaxScore + 2

IsInf(x) == x \in {PlusInf, MinusInf}

Bounded(x) == IF x > MaxScore THEN MaxScore ELSE IF x < -MaxScore THEN -MaxScore ELSE x

AddDouble(x, y) ==
  IF IsInf(x) /\ IsInf(y) /\ x # y THEN NaN
  ELSE IF IsInf(x) THEN x
  ELSE IF IsInf(y) THEN y
  ELSE Bounded(x + y)

MulDouble(w, x) ==
  IF IsInf(x) THEN IF w = 0 THEN NaN ELSE IF w > 0 THEN x ELSE -x
  ELSE Bounded(w * x)

NotNaN(x) == IF x = NaN THEN 0 ELSE x

-----------------------------------------------------------------------------
(* Sorted sets *)

AZset(enc, scores) == [type |-> "zset", enc |-> enc, scores |-> scores]

createZset(e) ==
  AZset(IF MaxZiplist = 0 \/ e \in Long THEN "skiplist" ELSE "ziplist", <<>>)

(* A ziplist is converted by a new element that is one too many or too long. *)
zsetInsert(zset, e, score) ==
  LET scores == Field(zset.scores, e, score)
      fits == Cardinality(DOMAIN scores) <= MaxZiplist /\ e \notin Long
  IN  AZset(IF zset.enc = "ziplist" /\ fits THEN "ziplist" ELSE "skiplist", scores)

ZsetAt(s, p, e) == IF Present(s, p) THEN s.dict[p] ELSE createZset(e)
NoZset(s, p) == s.dict[p].type \notin {"none", "zset"}

(* One score of ZADD or ZINCRBY: a score that does not change is no change.  *)
AddScore(s, p, e, score) ==
  LET zset == s.dict[p]
  IN  IF e \notin DOMAIN zset.scores THEN Changed(s, p, zsetInsert(zset, e, score), 1)
      ELSE IF zset.scores[e] = score THEN s
      ELSE Changed(s, p, AZset(zset.enc, Field(zset.scores, e, score)), 1)

zaddCommand(s0, c) ==
  LET s == lookupKeyWrite(s0, c.key)
      AddPair(t, pair) == AddScore(t, c.key, pair.member, pair.score)
  IN  IF NoZset(s, c.key) THEN s
      ELSE FoldLeft(AddPair, dbAdd(s, c.key, ZsetAt(s, c.key, c.pairs[1].member)), c.pairs)

zincrbyCommand(s0, c) ==
  LET s == lookupKeyWrite(s0, c.key)
      zset == ZsetAt(s, c.key, c.member)
      known == c.member \in DOMAIN zset.scores
      score == IF known THEN AddDouble(c.score, zset.scores[c.member]) ELSE c.score
  IN  IF NoZset(s, c.key) \/ score = NaN THEN s
      ELSE AddScore(dbAdd(s, c.key, zset), c.key, c.member, score)

(* ZREM, ZREMRANGEBYSCORE, ZREMRANGEBYRANK, once they know what goes.        *)
RemoveScores(s, p, gone) ==
  LET zset == s.dict[p]
      left == [e \in DOMAIN zset.scores \ gone |-> zset.scores[e]]
  IN  IF gone = {} THEN s
      ELSE DeleteIf(left = <<>>, Changed(s, p, AZset(zset.enc, left), Cardinality(gone)), p)

zremCommand(s0, c) ==
  LET s == lookupKeyWrite(s0, c.key)
  IN  IF ~Present(s, c.key) \/ NoZset(s, c.key) THEN s
      ELSE RemoveScores(s, c.key, DOMAIN s.dict[c.key].scores \cap ToSet(c.members))

(* zslParseRange: min and max may each be exclusive.                         *)
InRange(x, range) ==
  /\ IF range.minex THEN x > range.min ELSE x >= range.min
  /\ IF range.maxex THEN x < range.max ELSE x <= range.max

zremrangebyscoreCommand(s0, c) ==
  LET s == lookupKeyWrite(s0, c.key)
      scores == s.dict[c.key].scores
  IN  IF ~Present(s, c.key) \/ NoZset(s, c.key) THEN s
      ELSE RemoveScores(s, c.key, {e \in DOMAIN scores : InRange(scores[e], c.range)})

Position(e) == CHOOSE i \in DOMAIN Collation : Collation[i] = e
Before(scores, e, f) ==
  scores[e] < scores[f] \/ (scores[e] = scores[f] /\ Position(e) < Position(f))
RankOf(scores, e) == Cardinality({f \in DOMAIN scores : Before(scores, f, e)})

(* ZREMRANGEBYRANK, ZRANGE: the ranks from start to end, negative ones from  *)
(* the highest.                                                              *)
SanitizedRanks(start, end, len) ==
  LET from == IF start >= 0 THEN start ELSE IF len + start < 0 THEN 0 ELSE len + start
      to == IF end < 0 THEN len + end ELSE end
  IN  IF from > to \/ from >= len THEN {}
      ELSE from..(IF to >= len THEN len - 1 ELSE to)

zremrangebyrankCommand(s0, c) ==
  LET s == lookupKeyWrite(s0, c.key)
      scores == s.dict[c.key].scores
      ranks == SanitizedRanks(c.start, c.end, Cardinality(DOMAIN scores))
  IN  IF ~Present(s, c.key) \/ NoZset(s, c.key) THEN s
      ELSE RemoveScores(s, c.key, {e \in DOMAIN scores : RankOf(scores, e) \in ranks})

(* zunionInterAggregate: the convention is that a sum that is NaN is 0; a    *)
(* NaN is neither less nor greater than the target, which stays.             *)
Aggregate(kind, x, y) ==
  CASE kind = "sum" -> NotNaN(AddDouble(x, y))
    [] kind = "min" -> IF y # NaN /\ y < x THEN y ELSE x
    [] kind = "max" -> IF y # NaN /\ y > x THEN y ELSE x

(* A source of ZUNIONSTORE: a sorted set, or a set whose scores are 1.       *)
ScoresAt(s, p) ==
  CASE s.dict[p].type = "zset" -> s.dict[p].scores
    [] s.dict[p].type = "set" -> [e \in s.dict[p].members |-> 1]
    [] OTHER -> <<>>

(* Smallest source first; the weight of a score applies before it is added.  *)
ZunionScore(sources, weights, kind, e) ==
  LET Add(acc, i) ==
        IF e \notin DOMAIN sources[i] THEN acc
        ELSE LET x == MulDouble(weights[i], sources[i][e])
             IN  IF acc.some THEN [acc EXCEPT !.score = Aggregate(kind, @, x)]
                 ELSE [some |-> TRUE, score |-> NotNaN(x)]
      Smaller(i, j) == Cardinality(DOMAIN sources[i]) < Cardinality(DOMAIN sources[j])
      order == SetToSortSeq(DOMAIN sources, LAMBDA i, j : Smaller(i, j) \/ (~Smaller(j, i) /\ i < j))
  IN  FoldLeft(Add, [some |-> FALSE, score |-> 0], order).score

(* A result in limits is a ziplist, whatever its sources are.                *)
zunionInterGenericCommand(s0, c, union) ==
  LET s == LookupAll(s0, c.keys)
      sources == [i \in DOMAIN c.keys |-> ScoresAt(s, c.keys[i])]
      everywhere == {e \in Elements : \A i \in DOMAIN sources : e \in DOMAIN sources[i]}
      somewhere == UNION {DOMAIN sources[i] : i \in DOMAIN sources}
      members == IF union THEN somewhere ELSE everywhere
      scores == [e \in members |-> ZunionScore(sources, c.weights, c.aggregate, e)]
      fits == Cardinality(members) <= MaxZiplist /\ members \cap Long = {}
      cleared == IF Present(s, c.key) THEN Changed(dbDelete(s, c.key), c.key, NoValue, 1) ELSE s
  IN  IF \E i \in DOMAIN c.keys : s.dict[c.keys[i]].type \notin {"none", "zset", "set"} THEN s
      ELSE IF members = {} THEN cleared
      ELSE Changed(cleared, c.key, AZset(IF fits THEN "ziplist" ELSE "skiplist", scores), 1)

(* Elements that a command adds are short; those ZINCRBY finds stay.         *)
ZsetFits(v) ==
  v.enc = "ziplist" => Cardinality(DOMAIN v.scores) <= MaxZiplist /\ DOMAIN v.scores \cap Long = {}

-----------------------------------------------------------------------------
(* SORT *)

AList(items) == [type |-> "list", items |-> items]

Sortable(s, p) == s.dict[p].type \in {"none", "set", "zset", "list"}

(* The order in which a hash table is walked depends on its past: that of a  *)
(* slave differs from that of its master.                                    *)
Walk(s, members) ==
  IF s.role = "master" THEN SelectSeq(Collation, LAMBDA e : e \in members)
  ELSE SelectSeq(Reverse(Collation), LAMBDA e : e \in members)

Unsorted(s, p) ==
  CASE s.dict[p].type = "set" -> Walk(s, s.dict[p].members)
    [] s.dict[p].type = "zset" -> Walk(s, DOMAIN s.dict[p].scores)
    [] s.dict[p].type = "list" -> s.dict[p].items
    [] OTHER -> <<>>

(* ALPHA, or BY a pattern without a star, which leaves the order alone.      *)
Sorted(items, c) ==
  IF c.nosort THEN items
  ELSE SortSeq(items, LAMBDA e, f : IF c.desc THEN Position(f) < Position(e)
                                    ELSE Position(e) < Position(f))

(* LIMIT: an offset past the end selects nothing, a negative count all.      *)
Limited(items, start0, count) ==
  LET len == Len(items)
      start == IF start0 < 0 THEN 0 ELSE start0
      end == IF count < 0 THEN len - 1 ELSE start + count - 1
  IN  IF start >= len THEN <<>>
      ELSE SubSeq(items, start + 1, (IF end >= len THEN len - 1 ELSE end) + 1)

(* A sorted set is converted to a skip list even when nothing is stored.  An *)
(* empty result leaves the destination as it is.                             *)
sortCommand(s0, c) ==
  LET s == lookupKeyRead(s0, c.key)
      items == Limited(Sorted(Unsorted(s, c.key), c), c.start, c.count)
      converted == IF s.dict[c.key].type # "zset" THEN s
                   ELSE dbAdd(s, c.key, AZset("skiplist", s.dict[c.key].scores))
  IN  IF ~Sortable(s, c.key) THEN s
      ELSE IF ~c.store \/ items = <<>> THEN converted
      ELSE [setKey(converted, c.to, AList(items)) EXCEPT !.dirty = @ + Len(items)]
=============================================================================
