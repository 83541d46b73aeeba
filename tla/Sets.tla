-------------------------------- MODULE Sets --------------------------------
(***************************************************************************)
(* Sets (t_set.c) and hashes (t_hash.c), their commands and encodings.     *)
(*                                                                         *)
(* Members of sets, fields and values of hashes are elements.  Some of     *)
(* them read as integers, in which case HINCRBY makes an element of the    *)
(* next one, and some are longer than the compact encodings allow.         *)
(***************************************************************************)
EXTENDS KeySpace, FiniteSetsExt

CONSTANTS Elements,   \* strings
          Integers64, \* Elements that read as integers, smallest first
          Long,       \* Elements longer than hash-max-zipmap-value and
                      \* zset-max-ziplist-value
          MaxIntset,  \* set-max-intset-entries
          MaxZipmap   \* hash-max-zipmap-entries

ASSUME SetsAssumption ==
  /\ ToSet(Integers64) \subseteq Elements /\ IsInjective(Integers64)
  /\ Long \subseteq Elements
  /\ MaxIntset \in Nat /\ MaxZipmap \in Nat

IsInteger(e) == e \in ToSet(Integers64)

-----------------------------------------------------------------------------
(* Sets *)

ASet(enc, members) == [type |-> "set", enc |-> enc, members |-> members]

setTypeCreate(e) == ASet(IF IsInteger(e) THEN "intset" ELSE "ht", {})
createIntsetObject == ASet("intset", {})

(* Mutation: an intset takes any member that there is room for.              *)
setTypeAdd_AnyMember(set, e) ==
  LET members == set.members \cup {e}
      stays == e \in set.members \/ Cardinality(members) <= MaxIntset
  IN  ASet(IF set.enc = "intset" /\ stays THEN "intset" ELSE "ht", members)

(* An intset becomes a hash table at its first member that is no integer,    *)
(* and when it has too many.                                                 *)
setTypeAdd(set, e) ==
  LET members == set.members \cup {e}
      stays == IsInteger(e) /\ (e \in set.members \/ Cardinality(members) <= MaxIntset)
  IN  ASet(IF set.enc = "intset" /\ stays THEN "intset" ELSE "ht", members)

setTypeRemove(set, e) == [set EXCEPT !.members = @ \ {e}]

MembersAt(s, p) == IF Present(s, p) THEN s.dict[p].members ELSE {}
NoSet(s, p) == s.dict[p].type \notin {"none", "set"}

saddCommand(s0, c) ==
  LET s == lookupKeyWrite(s0, c.key)
      old == IF Present(s, c.key) THEN s.dict[c.key] ELSE setTypeCreate(c.members[1])
      new == FoldLeft(setTypeAdd, old, c.members)
      added == Cardinality(new.members \ old.members)
  IN  IF NoSet(s, c.key) THEN s
      ELSE IF added = 0 THEN dbAdd(s, c.key, new)
      ELSE Changed(s, c.key, new, added)

(* Mutation: an emptied set stays.                                           *)
sremCommand_KeepsEmpty(s0, c) ==
  LET s == lookupKeyWrite(s0, c.key)
      gone == MembersAt(s, c.key) \cap ToSet(c.members)
      left == [s.dict[c.key] EXCEPT !.members = @ \ gone]
  IN  IF ~Present(s, c.key) \/ NoSet(s, c.key) THEN s
      ELSE IF gone = {} THEN s
      ELSE Changed(s, c.key, left, Cardinality(gone))

sremCommand(s0, c) ==
  LET s == lookupKeyWrite(s0, c.key)
      gone == MembersAt(s, c.key) \cap ToSet(c.members)
      left == [s.dict[c.key] EXCEPT !.members = @ \ gone]
  IN  IF ~Present(s, c.key) \/ NoSet(s, c.key) THEN s
      ELSE IF gone = {} THEN s
      ELSE DeleteIf(left.members = {}, Changed(s, c.key, left, Cardinality(gone)), c.key)

(* Both keys are signalled and the change is counted before the destination  *)
(* is written.                                                               *)
smoveCommand(s0, c) ==
  LET s == lookupKeyWrite(lookupKeyWrite(s0, c.key), c.to)
      src == setTypeRemove(s.dict[c.key], c.member)
      taken == DeleteIf(src.members = {}, Changed(s, c.key, src, 1), c.key)
      dst == IF Present(s, c.to) THEN s.dict[c.to] ELSE setTypeCreate(c.member)
  IN  IF ~Present(s, c.key) \/ NoSet(s, c.key) \/ NoSet(s, c.to) THEN s
      ELSE IF c.key = c.to \/ c.member \notin MembersAt(s, c.key) THEN s
      ELSE Changed(taken, c.to, setTypeAdd(dst, c.member),
                   IF c.member \in dst.members THEN 0 ELSE 1)

(* A random member, which the propagated command names.                      *)
spopCommand(s0, c) ==
  LET s == lookupKeyWrite(s0, c.key)
      left == setTypeRemove(s.dict[c.key], c.member)
      argv == [op |-> "SREM", key |-> c.key, members |-> <<c.member>>]
  IN  IF ~Present(s, c.key) \/ NoSet(s, c.key) \/ c.member \notin MembersAt(s, c.key) THEN s
      ELSE DeleteIf(left.members = {},
                    rewriteClientCommandVector(Changed(s, c.key, left, 1), argv), c.key)

(* The result takes the place of whatever was at the destination; an empty   *)
(* one is no key.                                                            *)
StoreSet(s, p, set) ==
  LET stored == IF set.members = {} THEN dbDelete(s, p) ELSE dbAdd(dbDelete(s, p), p, set)
  IN  [signalModifiedKey(stored, p) EXCEPT !.dirty = @ + 1]

AddAll(set, members) == FoldLeft(setTypeAdd, set, SetToSeq(members))

(* A key that does not exist ends the command at once: those after it are    *)
(* not looked up, and a wrong type there is not seen.                        *)
sinterstoreCommand(s0, c) ==
  LET missing == {i \in DOMAIN c.keys : ~Present(LookupAll(s0, c.keys), c.keys[i])}
      last == IF missing = {} THEN Len(c.keys) ELSE Min(missing)
      s == LookupAll(s0, SubSeq(c.keys, 1, last))
      inter == {e \in Elements : \A i \in DOMAIN c.keys : e \in MembersAt(s, c.keys[i])}
      gone == signalModifiedKey(dbDelete(s, c.key), c.key)
  IN  IF \E i \in 1..last : NoSet(s, c.keys[i]) THEN s
      ELSE IF missing = {} THEN StoreSet(s, c.key, AddAll(createIntsetObject, inter))
      ELSE IF Present(s, c.key) THEN [gone EXCEPT !.dirty = @ + 1]
      ELSE s

(* SUNIONSTORE and SDIFFSTORE.                                               *)
sunionDiffGenericCommand(s0, c, union) ==
  LET s == LookupAll(s0, c.keys)
      others == UNION {MembersAt(s, c.keys[i]) : i \in 2..Len(c.keys)}
      first == MembersAt(s, c.keys[1])
      added == AddAll(createIntsetObject, IF union THEN first \cup others ELSE first)
  IN  IF \E i \in DOMAIN c.keys : NoSet(s, c.keys[i]) THEN s
      ELSE StoreSet(s, c.key, [added EXCEPT !.members = IF union THEN @ ELSE @ \ others])

SetFits(v) ==
  v.enc = "intset" => Cardinality(v.members) <= MaxIntset /\ \A e \in v.members : IsInteger(e)

-----------------------------------------------------------------------------
(* Hashes *)

AHash(enc, fields) == [type |-> "hash", enc |-> enc, fields |-> fields]
createHashObject == AHash("zipmap", <<>>)

Field(fields, f, v) == [g \in DOMAIN fields \cup {f} |-> IF g = f THEN v ELSE fields[g]]

hashTypeTryConversion(hash, args) ==
  IF args \cap Long # {} THEN AHash("ht", hash.fields) ELSE hash

hashTypeSet(hash, f, v) ==
  LET fields == Field(hash.fields, f, v)
      fits == Cardinality(DOMAIN fields) <= MaxZipmap
  IN  AHash(IF hash.enc = "zipmap" /\ fits THEN "zipmap" ELSE "ht", fields)

HashAt(s, p) == IF Present(s, p) THEN s.dict[p] ELSE createHashObject
NoHash(s, p) == s.dict[p].type \notin {"none", "hash"}

(* HSET, HMSET: the change is counted and signalled even if there is none.   *)
hmsetCommand(s0, c) ==
  LET s == lookupKeyWrite(s0, c.key)
      args == UNION {{c.pairs[i].field, c.pairs[i].value} : i \in DOMAIN c.pairs}
      SetOne(hash, pair) == hashTypeSet(hash, pair.field, pair.value)
      hash == hashTypeTryConversion(HashAt(s, c.key), args)
  IN  IF NoHash(s, c.key) THEN s
      ELSE Changed(s, c.key, FoldLeft(SetOne, hash, c.pairs), 1)

hsetnxCommand(s0, c) ==
  LET s == lookupKeyWrite(s0, c.key)
      hash == hashTypeTryConversion(HashAt(s, c.key), {c.field, c.value})
  IN  IF NoHash(s, c.key) THEN s
      ELSE IF c.field \in DOMAIN hash.fields THEN dbAdd(s, c.key, hash)
      ELSE Changed(s, c.key, hashTypeSet(hash, c.field, c.value), 1)

(* HINCRBY by one: an element after the last integer would overflow.  Its    *)
(* field is stored in a zipmap whatever its length.                          *)
hincrbyCommand(s0, c) ==
  LET s == lookupKeyWrite(s0, c.key)
      hash == HashAt(s, c.key)
      known == c.field \in DOMAIN hash.fields
      old == {i \in DOMAIN Integers64 : known /\ hash.fields[c.field] = Integers64[i]}
      new == IF known THEN Min(old) + 1 ELSE 1
  IN  IF NoHash(s, c.key) THEN s
      ELSE IF known /\ old = {} THEN s
      ELSE IF new \notin DOMAIN Integers64 THEN s
      ELSE Changed(s, c.key, hashTypeSet(hash, c.field, Integers64[new]), 1)

hdelCommand(s0, c) ==
  LET s == lookupKeyWrite(s0, c.key)
      hash == HashAt(s, c.key)
      gone == DOMAIN hash.fields \cap ToSet(c.members)
      left == AHash(hash.enc, [f \in DOMAIN hash.fields \ gone |-> hash.fields[f]])
  IN  IF ~Present(s, c.key) \/ NoHash(s, c.key) \/ gone = {} THEN s
      ELSE DeleteIf(left.fields = <<>>, Changed(s, c.key, left, Cardinality(gone)), c.key)

(* The lengths of fields are not part of it: HINCRBY does not look at them.  *)
HashFits(v) ==
  v.enc = "zipmap" => /\ Cardinality(DOMAIN v.fields) <= MaxZipmap
                      /\ \A f \in DOMAIN v.fields : v.fields[f] \notin Long
=============================================================================
