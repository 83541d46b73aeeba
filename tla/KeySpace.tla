------------------------------ MODULE KeySpace ------------------------------
(***************************************************************************)
(* The key space of redis-server (db.c) and what happens around a command: *)
(* lookups that expire keys, hooks for watchers, the count of changes, the *)
(* command that is propagated (call, rewriteClientCommandVector).          *)
(*                                                                         *)
(* A server is a record, and a command maps it to another one:             *)
(*   dict, expires   the two hash tables of every database                 *)
(*   role            master, slave, or loading its append only file        *)
(*   now             time(NULL) while the command runs                     *)
(*   argv            the command as it will be propagated                  *)
(*   log             the DELs propagated while it runs                     *)
(*   dirty           server.dirty, counted from the start of the command   *)
(*   touched         the keys signalled to their watchers                  *)
(***************************************************************************)
EXTENDS Integers, Sequences, FiniteSets, SequencesExt

CONSTANTS Places,    \* <<database, key>>
          MaxTime    \* bound on the clock

ASSUME KeySpaceAssumption ==
  /\ \A p \in Places : Len(p) = 2
  /\ MaxTime \in Nat

NoValue == [type |-> "none"]
NoExpire == -1

Database(d) == {p \in Places : p[1] = d}

Present(s, p) == s.dict[p].type # "none"
Changed(s, p, v, n) ==
  [s EXCEPT !.dict[p] = v, !.dirty = @ + n, !.touched = @ \cup {p}]

-----------------------------------------------------------------------------
(* The API of db.c *)

(* dbAdd and dbOverwrite: the expire is left alone.                          *)
dbAdd(s, p, v) == [s EXCEPT !.dict[p] = v]

(* Mutation: the expire of the key stays behind.                             *)
dbDelete_KeepsExpire(s, p) == [s EXCEPT !.dict[p] = NoValue]

dbDelete(s, p) == [s EXCEPT !.dict[p] = NoValue, !.expires[p] = NoExpire]

removeExpire(s, p) == [s EXCEPT !.expires[p] = NoExpire]
setExpire(s, p, when) == [s EXCEPT !.expires[p] = when]

(* Mutation: whoever modifies a key tells nobody.                            *)
signalModifiedKey_Silent(s, p) == s

signalModifiedKey(s, p) == [s EXCEPT !.touched = @ \cup {p}]

rewriteClientCommandVector(s, c) == [s EXCEPT !.argv = c]

IsExpired(s, p) == s.expires[p] # NoExpire /\ s.now > s.expires[p]

(* Mutation: the DEL goes nowhere.                                           *)
propagateExpire_Silent(s, p) == s

propagateExpire(s, p) == [s EXCEPT !.log = Append(@, [op |-> "DEL", keys |-> {p}])]

(* Only a master that is not loading deletes; a slave and a loader see the   *)
(* key as if it were alive.                                                  *)
expireIfNeeded(s, p) ==
  IF s.role = "master" /\ IsExpired(s, p) THEN dbDelete(propagateExpire(s, p), p) ELSE s

(* The server after the lookup; the value is in its dict.                    *)
lookupKeyRead(s, p) == expireIfNeeded(s, p)
lookupKeyWrite(s, p) == expireIfNeeded(s, p)

LookupAll(s, keys) == FoldLeft(lookupKeyWrite, s, keys)

setKey(s0, p, v) ==
  LET s == lookupKeyWrite(s0, p)
  IN  signalModifiedKey(removeExpire(dbAdd(s, p, v), p), p)

(* What is left of an aggregate: it goes when it is empty.                   *)
DeleteIf(empty, s, p) == IF empty THEN dbDelete(s, p) ELSE s

-----------------------------------------------------------------------------
(* Commands on keys of any type *)

delCommand(s, c) ==
  LET found == {p \in c.keys : Present(s, p)}
  IN  [s EXCEPT !.dict = [p \in Places |-> IF p \in found THEN NoValue ELSE @[p]],
                !.expires = [p \in Places |-> IF p \in found THEN NoExpire ELSE @[p]],
                !.dirty = @ + Cardinality(found),
                !.touched = @ \cup found]

(* FLUSHDB, and FLUSHALL, which is dirty even when there was nothing.        *)
flushCommand(s, keys, extra) ==
  [s EXCEPT !.dict = [p \in Places |-> IF p \in keys THEN NoValue ELSE @[p]],
            !.expires = [p \in Places |-> IF p \in keys THEN NoExpire ELSE @[p]],
            !.dirty = @ + Cardinality({p \in keys : Present(s, p)}) + extra,
            !.touched = @ \cup keys]

flushdbCommand(s, c) == flushCommand(s, Database(c.db), 0)
flushallCommand(s, c) == flushCommand(s, Places, 1)

(* EXISTS, TYPE, GET and whatever else looks a key up to read it.            *)
readCommand(s, c) == lookupKeyRead(s, c.key)

(* KEYS looks at every key of a database; RANDOMKEY at some, until it finds  *)
(* one that has not expired.                                                 *)
keysCommand(s, c) == LookupAll(s, SetToSeq(Database(c.db)))
randomkeyCommand(s, c) == LookupAll(s, SetToSeq({p \in c.keys : IsExpired(s, p)}))

(* The expire time goes with the key, and that of the old key is gone.       *)
renameGenericCommand(s0, c) ==
  LET s1 == lookupKeyWrite(s0, c.key)
      s2 == lookupKeyWrite(s1, c.to)
      value == s1.dict[c.key]
      expire == s1.expires[c.key]
      cleared == IF Present(s2, c.to) THEN dbDelete(s2, c.to) ELSE s2
      added == dbAdd(cleared, c.to, value)
      timed == IF expire # NoExpire THEN setExpire(added, c.to, expire) ELSE added
      moved == signalModifiedKey(signalModifiedKey(dbDelete(timed, c.key), c.key), c.to)
  IN  IF c.key = c.to THEN s0
      ELSE IF ~Present(s1, c.key) THEN s1
      ELSE IF c.nx /\ Present(s2, c.to) THEN s2
      ELSE [moved EXCEPT !.dirty = @ + 1]

(* The value alone is moved: its expire time is lost and no watcher is told. *)
moveCommand(s0, c) ==
  LET s1 == lookupKeyWrite(s0, c.key)
      s2 == lookupKeyWrite(s1, c.to)
  IN  IF c.key = c.to THEN s0
      ELSE IF ~Present(s1, c.key) THEN s1
      ELSE IF Present(s2, c.to) THEN s2
      ELSE [dbDelete(dbAdd(s2, c.to, s2.dict[c.key]), c.key) EXCEPT !.dirty = @ + 1]

(* A time in the past is a deletion, propagated as such, but on slaves and   *)
(* loaders it is set and the DEL of the master is waited for.  The key is    *)
(* not looked up: one that has expired comes back.                           *)
expireGenericCommand(s, p, seconds) ==
  IF ~Present(s, p) THEN s
  ELSE IF seconds <= 0 /\ s.role = "master"
  THEN signalModifiedKey([rewriteClientCommandVector(dbDelete(s, p), [op |-> "DEL", keys |-> {p}])
                            EXCEPT !.dirty = @ + 1], p)
  ELSE signalModifiedKey([setExpire(s, p, s.now + seconds) EXCEPT !.dirty = @ + 1], p)

expireCommand(s, c) == expireGenericCommand(s, c.key, c.seconds)
expireatCommand(s, c) == expireGenericCommand(s, c.key, c.when - s.now)

persistCommand(s, c) ==
  IF Present(s, c.key) /\ s.expires[c.key] # NoExpire
  THEN [removeExpire(s, c.key) EXCEPT !.dirty = @ + 1]
  ELSE s

-----------------------------------------------------------------------------
(* Around a command *)

Calm(s, c) == [s EXCEPT !.argv = c, !.log = <<>>, !.dirty = 0, !.touched = {}]

(* call: what goes to slaves and to the append only file after the command.  *)
Propagated(s) == s.log \o (IF s.dirty > 0 THEN <<s.argv>> ELSE <<>>)

(* feedAppendOnlyFile: relative times are made absolute.                     *)
Logged(c, now) ==
  CASE c.op = "EXPIRE" -> <<[op |-> "EXPIREAT", key |-> c.key, when |-> now + c.seconds]>>
    [] c.op = "SETEX" -> <<[op |-> "SET", key |-> c.key, bytes |-> c.bytes],
                           [op |-> "EXPIREAT", key |-> c.key, when |-> now + c.seconds]>>
    [] OTHER -> <<c>>

(* One key found by activeExpireCycle, or chosen by freeMemoryIfNeeded.      *)
Evict(s, p) == dbDelete(propagateExpire(s, p), p)
=============================================================================
