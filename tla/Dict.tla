-------------------------------- MODULE Dict --------------------------------
(***************************************************************************)
(* dict.c: a hash table that is rehashed a bucket at a time by whoever     *)
(* uses it, and safe iterators, which hold the rehashing back.             *)
(*                                                                         *)
(* A dict is a record of two tables, the index of the next bucket to move, *)
(* or -1, and the number of safe iterators.  A table is a size, the number *)
(* of entries used and a function from 0..size-1 to chains of entries.     *)
(***************************************************************************)
EXTENDS Integers, Sequences, FiniteSets, SequencesExt

CONSTANTS Keys, Vals,
          Hash,       \* the hash of every key
          InitialSize, \* DICT_HT_INITIAL_SIZE
          ForceRatio, \* dict_force_resize_ratio
          MinFill,    \* REDIS_HT_MINFILL, percent
          NoKey       \* no entry

(* What the module needs of its constants. *)
DictAssumption ==
  /\ \A k \in Keys : Hash[k] \in Nat
  /\ NoKey \notin Keys
  /\ InitialSize \in Nat \ {0} /\ ForceRatio \in Nat /\ MinFill \in 0..100

VARIABLES dict,
          canResize, \* dict_can_resize: no child is saving
          iter,      \* the safe iterator: open, started, table, index, entry, next
          seen,      \* the keys it has returned
          stayed,    \* the keys that have been there since it started
          reply

vars == <<dict, canResize, iter, seen, stayed, reply>>

-----------------------------------------------------------------------------
Table(size) == [size |-> size, used |-> 0, bucket |-> [i \in 0..size - 1 |-> <<>>]]
NoTable == Table(0)

dictCreate == [ht |-> <<NoTable, NoTable>>, rehashidx |-> -1, iterators |-> 0]

dictIsRehashing(d) == d.rehashidx # -1

(* The powers of two from DICT_HT_INITIAL_SIZE on.                           *)
_dictNextPower(size) ==
  LET power[i \in Nat] == IF i >= size THEN i ELSE power[2 * i] IN power[InitialSize]

dictExpand(d, size) ==
  LET n == Table(_dictNextPower(size))
  IN  IF dictIsRehashing(d) \/ d.ht[1].used > size THEN d
      ELSE IF d.ht[1].size = 0 THEN [d EXCEPT !.ht[1] = n]
      ELSE [d EXCEPT !.ht[2] = n, !.rehashidx = 0]

Index(table, k) == Hash[k] % table.size

(* Every entry of a chain goes to the head of a chain of the new table.      *)
MoveChain(table, chain) ==
  LET Move(t, de) ==
        [t EXCEPT !.bucket[Index(t, de.key)] = <<de>> \o @, !.used = @ + 1]
  IN  FoldLeft(Move, table, chain)

dictRehash1(d) ==
  LET old == d.ht[1]
      full == {i \in d.rehashidx..old.size - 1 : old.bucket[i] # <<>>}
      idx == CHOOSE i \in full : \A j \in full : i <= j
  IN  IF ~dictIsRehashing(d) THEN d
      ELSE IF old.used = 0
      THEN [d EXCEPT !.ht = <<d.ht[2], NoTable>>, !.rehashidx = -1]
      ELSE [d EXCEPT !.ht = <<[old EXCEPT !.bucket[idx] = <<>>, !.used = @ - Len(old.bucket[idx])],
                              MoveChain(d.ht[2], old.bucket[idx])>>,
                     !.rehashidx = idx + 1]

(* Mutation: buckets move under a safe iterator.                             *)
_dictRehashStep_Always(d) == dictRehash1(d)

_dictRehashStep(d) == IF d.iterators = 0 THEN dictRehash1(d) ELSE d

_dictExpandIfNeeded(d, can) ==
  LET t == d.ht[1]
      crowded == t.used >= t.size /\ (can \/ t.used \div t.size > ForceRatio)
  IN  IF dictIsRehashing(d) THEN d
      ELSE IF t.size = 0 THEN dictExpand(d, InitialSize)
      ELSE IF crowded THEN dictExpand(d, 2 * (IF t.size > t.used THEN t.size ELSE t.used))
      ELSE d

Chain(table, k) == IF table.size = 0 THEN <<>> ELSE table.bucket[Index(table, k)]
Has(table, k) == \E i \in DOMAIN Chain(table, k) : Chain(table, k)[i].key = k

(* The tables that a lookup goes through.                                    *)
Looked(d) == IF dictIsRehashing(d) THEN {1, 2} ELSE {1}
TablesOf(d, k) == {t \in Looked(d) : Has(d.ht[t], k)}

Entry(k, v) == [key |-> k, val |-> v]

(* Mutation: new entries go to the table that is emptied.                    *)
dictAdd_OldTable(d0, k, v, can) ==
  LET d == _dictExpandIfNeeded(_dictRehashStep(d0), can)
  IN  IF TablesOf(d, k) # {} THEN d
      ELSE [d EXCEPT !.ht[1].bucket[Index(d.ht[1], k)] = <<Entry(k, v)>> \o @,
                     !.ht[1].used = @ + 1]

dictAdd(d0, k, v, can) ==
  LET d == _dictExpandIfNeeded(_dictRehashStep(d0), can)
      t == IF dictIsRehashing(d) THEN 2 ELSE 1
  IN  IF TablesOf(d, k) # {} THEN d
      ELSE [d EXCEPT !.ht[t].bucket[Index(d.ht[t], k)] = <<Entry(k, v)>> \o @,
                     !.ht[t].used = @ + 1]

(* The addition that fails is followed by a lookup, which is another step.   *)
dictReplace(d0, k, v, can) ==
  LET known == TablesOf(_dictExpandIfNeeded(_dictRehashStep(d0), can), k) # {}
      d == IF known THEN _dictRehashStep(dictAdd(d0, k, v, can)) ELSE dictAdd(d0, k, v, can)
      t == CHOOSE u \in TablesOf(d, k) : TRUE
      Set(de) == IF de.key = k THEN Entry(k, v) ELSE de
  IN  [d EXCEPT !.ht[t].bucket[Index(d.ht[t], k)] = [i \in DOMAIN @ |-> Set(@[i])]]

dictDelete(d0, k) ==
  LET d == IF d0.ht[1].size = 0 THEN d0 ELSE _dictRehashStep(d0)
      t == CHOOSE u \in TablesOf(d, k) : TRUE
  IN  IF TablesOf(d, k) = {} THEN d
      ELSE [d EXCEPT !.ht[t].bucket[Index(d.ht[t], k)] = SelectSeq(@, LAMBDA de : de.key # k),
                     !.ht[t].used = @ - 1]

dictFind(d) == IF d.ht[1].size = 0 THEN d ELSE _dictRehashStep(d)

-----------------------------------------------------------------------------
(* Iterators *)

NoIterator ==
  [open |-> FALSE, started |-> FALSE, table |-> 1, index |-> -1, entry |-> NoKey, next |-> NoKey]

(* The first entry of the buckets after place <<table, index>>, or none.     *)
NextBucket(d, table, index) ==
  LET here == {i \in index + 1..d.ht[table].size - 1 : d.ht[table].bucket[i] # <<>>}
      there == IF table = 1 /\ dictIsRehashing(d)
               THEN {i \in 0..d.ht[2].size - 1 : d.ht[2].bucket[i] # <<>>} ELSE {}
      First(s) == CHOOSE i \in s : \A j \in s : i <= j
  IN  IF here # {} THEN <<table, First(here)>>
      ELSE IF there # {} THEN <<2, First(there)>>
      ELSE <<table, d.ht[table].size>>

KeyAfter(chain, k) ==
  LET i == SelectInSeq(chain, LAMBDA de : de.key = k)
  IN  IF i = Len(chain) THEN NoKey ELSE chain[i + 1].key

(* dictNext: the chain is followed by the pointer kept from the last call.   *)
(* Callers stop when there is no entry.                                      *)
dictNext ==
  LET place == NextBucket(dict, iter.table, iter.index)
      chain == dict.ht[place[1]].bucket[place[2]]
      end == place[2] = dict.ht[place[1]].size
      along == iter.next # NoKey
      key == IF along THEN iter.next ELSE IF end THEN NoKey ELSE chain[1].key
      in == IF along THEN dict.ht[iter.table].bucket[iter.index] ELSE chain
  IN  /\ iter.open /\ (iter.started => iter.entry # NoKey)
      /\ iter' = [iter EXCEPT
                   !.started = TRUE,
                   !.table = IF along THEN @ ELSE place[1],
                   !.index = IF along THEN @ ELSE place[2],
                   !.entry = key,
                   !.next = IF key = NoKey THEN NoKey ELSE KeyAfter(in, key)]
      /\ dict' = IF iter.started THEN dict ELSE [dict EXCEPT !.iterators = @ + 1]
      /\ seen' = IF key = NoKey THEN seen ELSE Append(seen, key)
      /\ stayed' = IF iter.started THEN stayed ELSE {k \in Keys : TablesOf(dict, k) # {}}
      /\ UNCHANGED <<canResize, reply>>

dictGetSafeIterator ==
  /\ ~iter.open
  /\ iter' = [NoIterator EXCEPT !.open = TRUE]
  /\ seen' = <<>>
  /\ stayed' = {}
  /\ UNCHANGED <<dict, canResize, reply>>

dictReleaseIterator ==
  /\ iter.open
  /\ iter' = NoIterator
  /\ dict' = IF iter.started THEN [dict EXCEPT !.iterators = @ - 1] ELSE dict
  /\ seen' = <<>>
  /\ stayed' = {}
  /\ UNCHANGED <<canResize, reply>>

-----------------------------------------------------------------------------
(* What the server does with a dict *)

Known(k) == TablesOf(dict, k) # {}

Add(k, v) ==
  /\ dict' = dictAdd(dict, k, v, canResize)
  /\ reply' = Known(k)
  /\ UNCHANGED <<canResize, iter, seen, stayed>>

Replace(k, v) ==
  /\ dict' = dictReplace(dict, k, v, canResize)
  /\ reply' = Known(k)
  /\ UNCHANGED <<canResize, iter, seen, stayed>>

(* Under an iterator only the entry it has just returned may go.             *)
Delete(k) ==
  /\ iter.started => k = iter.entry
  /\ dict' = dictDelete(dict, k)
  /\ reply' = Known(k)
  /\ stayed' = stayed \ {k}
  /\ UNCHANGED <<canResize, iter, seen>>

Find(k) ==
  /\ dict' = dictFind(dict)
  /\ reply' = Known(k)
  /\ UNCHANGED <<canResize, iter, seen, stayed>>

(* tryResizeHashTables: too few entries for its size, and no child.          *)
Resize ==
  LET size == dict.ht[1].size + dict.ht[2].size
      used == dict.ht[1].used + dict.ht[2].used
      minimal == IF dict.ht[1].used < InitialSize THEN InitialSize ELSE dict.ht[1].used
  IN  /\ ~iter.open
      /\ used # 0 /\ size > InitialSize /\ (used * 100) \div size < MinFill
      /\ canResize /\ ~dictIsRehashing(dict)
      /\ dict' = dictExpand(dict, minimal)
      /\ UNCHANGED <<canResize, iter, seen, stayed, reply>>

(* incrementallyRehash: a batch of buckets from the cron, when no command    *)
(* iterates; the batch of a hundred is one bucket or the whole table here.   *)
Rehash(batch) ==
  /\ ~iter.open
  /\ dictIsRehashing(dict)
  /\ dict' = FoldLeft(LAMBDA d, i : dictRehash1(d), dict, [i \in 1..batch |-> i])
  /\ UNCHANGED <<canResize, iter, seen, stayed, reply>>

(* updateDictResizePolicy: a child has started or ended.                     *)
ResizePolicy ==
  /\ ~iter.open
  /\ canResize' = ~canResize
  /\ UNCHANGED <<dict, iter, seen, stayed, reply>>

Init ==
  /\ dict = dictCreate /\ canResize = TRUE
  /\ iter = NoIterator /\ seen = <<>> /\ stayed = {}
  /\ reply = FALSE

Next ==
  \/ \E k \in Keys, v \in Vals : Add(k, v) \/ Replace(k, v)
  \/ \E k \in Keys : Delete(k) \/ Find(k)
  \/ Resize
  \/ \E batch \in {1, dict.ht[1].size + 1} : Rehash(batch)
  \/ ResizePolicy
  \/ dictGetSafeIterator
  \/ dictNext
  \/ dictReleaseIterator

Spec == Init /\ [][Next]_vars

-----------------------------------------------------------------------------
(* Properties *)

Entries(t) == {<<u, i, j>> \in {t} \X (0..dict.ht[t].size - 1) \X (1..Cardinality(Keys)) :
                 j <= Len(dict.ht[t].bucket[i])}
At(e) == dict.ht[e[1]].bucket[e[2]][e[3]]

(* However far a rehashing has come, every key has one entry, in the one     *)
(* chain where lookups of either table search for it, nothing is left behind *)
(* the rehash index, and the counts that end the rehashing are right.        *)
EveryKeyHasItsBucket ==
  LET entries == Entries(1) \cup Entries(2)
  IN  /\ \A e \in entries : Hash[At(e).key] % dict.ht[e[1]].size = e[2]
      /\ \A e, f \in entries : At(e).key = At(f).key => e = f
      /\ \A t \in {1, 2} : dict.ht[t].used = Cardinality(Entries(t))
      /\ dictIsRehashing(dict) => \A e \in Entries(1) : e[2] >= dict.rehashidx
      /\ ~dictIsRehashing(dict) => dict.ht[2].size = 0

(* A safe iterator that has come to the end has returned every key that was  *)
(* there all the time, and none twice: KEYS, dumps and rewrites are          *)
(* complete although lookups and additions go on and a resize may begin.     *)
IteratorsSeeAll ==
  /\ \A i, j \in DOMAIN seen : seen[i] = seen[j] /\ seen[i] \in stayed => i = j
  /\ iter.started /\ iter.entry = NoKey => stayed \subseteq ToSet(seen)

Stored == {At(e) : e \in Entries(1) \cup Entries(2)}

M == INSTANCE AbstractMap
       WITH Items <- Vals,
            map <- LET stored == Stored
                   IN  [k \in {de.key : de \in stored} |-> (CHOOSE de \in stored : de.key = k).val]

(* Whatever is being rehashed, a dict is a map.                              *)
DictImplementsMap == M!Spec
=============================================================================
