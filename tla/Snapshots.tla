------------------------------ MODULE Snapshots ------------------------------
(***************************************************************************)
(* How a data set is written out and read back: the commands that a        *)
(* rewritten append only file holds (aof.c), the dump (rdb.c) and the      *)
(* encodings that loading either of them chooses.                          *)
(***************************************************************************)
EXTENDS Strings, SortedSets

(* One record per command that may be in a log.                              *)
Set(p, bytes) == [op |-> "SET", key |-> p, bytes |-> bytes]
Sadd(p, e) == [op |-> "SADD", key |-> p, members |-> <<e>>]
Hset(p, f, v) == [op |-> "HSET", key |-> p, pairs |-> <<[field |-> f, value |-> v]>>]
Zadd(p, e, x) == [op |-> "ZADD", key |-> p, pairs |-> <<[member |-> e, score |-> x]>>]
Rpush(p, e) == [op |-> "RPUSH", key |-> p, value |-> e]
Expireat(p, when) == [op |-> "EXPIREAT", key |-> p, when |-> when]

rpushCommand(s0, c) ==
  LET s == lookupKeyWrite(s0, c.key)
  IN  IF s.dict[c.key].type \notin {"none", "list"} THEN s
      ELSE IF Present(s, c.key)
      THEN Changed(s, c.key, AList(Append(s.dict[c.key].items, c.value)), 1)
      ELSE Changed(s, c.key, AList(<<c.value>>), 1)

-----------------------------------------------------------------------------
(* aof.c, rewriteAppendOnlyFile *)

(* The commands that build a value, one for each of its elements.            *)
ValueCommands(p, v) ==
  CASE v.type = "none" -> <<>>
    [] v.type = "string" -> <<Set(p, v.bytes)>>
    [] v.type = "list" -> [i \in DOMAIN v.items |-> Rpush(p, v.items[i])]
    [] v.type = "set" ->
         LET members == SetToSeq(v.members)
         IN  [i \in DOMAIN members |-> Sadd(p, members[i])]
    [] v.type = "hash" ->
         LET fields == SetToSeq(DOMAIN v.fields)
         IN  [i \in DOMAIN fields |-> Hset(p, fields[i], v.fields[fields[i]])]
    [] v.type = "zset" ->
         LET members == SetToSeq(DOMAIN v.scores)
         IN  [i \in DOMAIN members |-> Zadd(p, members[i], v.scores[members[i]])]

(* Mutation: no key keeps its expire.                                        *)
KeyCommands_NoExpire(s, p, now) == ValueCommands(p, s.dict[p])

(* A key that has expired and was not deleted is written without its expire. *)
KeyCommands(s, p, now) ==
  ValueCommands(p, s.dict[p])
    \o (IF s.expires[p] # NoExpire /\ s.expires[p] >= now
        THEN <<Expireat(p, s.expires[p])>> ELSE <<>>)

rewriteAppendOnlyFile(s, now) ==
  FlattenSeq([i \in 1..Cardinality(Places) |-> KeyCommands(s, SetToSeq(Places)[i], now)])

-----------------------------------------------------------------------------
(* rdb.c *)

(* rdbSave: what has expired is left out.                                    *)
Saved(s, p, now) ==
  Present(s, p) /\ (s.expires[p] = NoExpire \/ s.expires[p] >= now)

(* rdbLoadObject: compact encodings are loaded as they are if they have not  *)
(* too many entries; the elements of the others are looked at one by one.    *)
LoadedSet(v) ==
  LET small == Cardinality(v.members) <= MaxIntset
      compact == small /\ (v.enc = "intset" \/ \A e \in v.members : IsInteger(e))
  IN  ASet(IF compact THEN "intset" ELSE "ht", v.members)

LoadedHash(v) ==
  LET elements == DOMAIN v.fields \cup {v.fields[f] : f \in DOMAIN v.fields}
      small == Cardinality(DOMAIN v.fields) <= MaxZipmap
      compact == small /\ (v.enc = "zipmap" \/ elements \cap Long = {})
  IN  AHash(IF compact THEN "zipmap" ELSE "ht", v.fields)

LoadedZset(v) ==
  LET small == Cardinality(DOMAIN v.scores) <= MaxZiplist
      compact == small /\ (v.enc = "ziplist" \/ DOMAIN v.scores \cap Long = {})
  IN  AZset(IF compact THEN "ziplist" ELSE "skiplist", v.scores)

rdbLoadObject(v) ==
  CASE v.type = "string" -> tryObjectEncoding(v.bytes)
    [] v.type = "set" -> LoadedSet(v)
    [] v.type = "hash" -> LoadedHash(v)
    [] v.type = "zset" -> LoadedZset(v)
    [] OTHER -> v

(* readSyncBulkPayload: a slave loads the dump and expires nothing.          *)
rdbLoad(s, saved) ==
  [dict |-> [p \in Places |-> IF p \in saved THEN rdbLoadObject(s.dict[p]) ELSE NoValue],
   expires |-> [p \in Places |-> IF p \in saved THEN s.expires[p] ELSE NoExpire]]
=============================================================================
