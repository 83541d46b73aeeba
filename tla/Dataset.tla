------------------------------- MODULE Dataset -------------------------------
(***************************************************************************)
(* The data set of a master that executes the commands of KeySpace,        *)
(* Strings, Sets and SortedSets, and its two copies: a slave, which        *)
(* executes what it is sent some time later, and what the append only file *)
(* would load.  Keys expire, are evicted, and the copies are made anew: a  *)
(* full synchronisation of the slave, a rewrite of the file, a restart.    *)
(*                                                                         *)
(* Commands are tried one family at a time: subject says which.            *)
(***************************************************************************)
EXTENDS Snapshots

CONSTANTS Subjects,      \* the families of commands to try
          Commands,      \* the commands of each of them
          Timed,         \* the families during which the clock moves
          MaxPending,    \* bound on what the slave has not executed
          MaxItems,      \* bound on the length of lists
          Eviction,      \* maxmemory-policy: "noeviction", "volatile", "allkeys"
          NoSortStored,  \* whether SORT BY nosort STORE is tried
          DumpOfExpired  \* whether a dump is made when a key has expired that
                         \* the master has not deleted yet

ASSUME DatasetAssumption ==
  /\ MaxPending \in Nat \ {0} /\ MaxItems \in Nat
  /\ Eviction \in {"noeviction", "volatile", "allkeys"}
  /\ NoSortStored \in BOOLEAN /\ DumpOfExpired \in BOOLEAN

VARIABLES subject,
          now,     \* the clock of all of them
          master,  \* [dict, expires]
          slave,   \* [dict, expires]
          file,    \* [dict, expires], what loading the file makes
          pending, \* commands the slave has not executed
          last     \* what the last step was: [op, touched, removed]

vars == <<subject, now, master, slave, file, pending, last>>

-----------------------------------------------------------------------------
(* Executing commands *)

Exec(s, c) ==
  CASE c.op = "SET" -> setCommand(s, c)
    [] c.op = "SETNX" -> setnxCommand(s, c)
    [] c.op = "SETEX" -> setexCommand(s, c)
    [] c.op = "GETSET" -> getsetCommand(s, c)
    [] c.op = "APPEND" -> appendCommand(s, c)
    [] c.op = "SETRANGE" -> setrangeCommand(s, c)
    [] c.op = "SETBIT" -> setbitCommand(s, c)
    [] c.op = "MSET" -> msetGenericCommand(s, c, FALSE)
    [] c.op = "MSETNX" -> msetGenericCommand(s, c, TRUE)
    [] c.op = "INCRBY" -> incrDecrCommand(s, c)
    [] c.op = "DEL" -> delCommand(s, c)
    [] c.op = "FLUSHDB" -> flushdbCommand(s, c)
    [] c.op = "FLUSHALL" -> flushallCommand(s, c)
    [] c.op = "EXISTS" -> readCommand(s, c)
    [] c.op = "KEYS" -> keysCommand(s, c)
    [] c.op = "RANDOMKEY" -> randomkeyCommand(s, c)
    [] c.op = "RENAME" -> renameGenericCommand(s, c)
    [] c.op = "MOVE" -> moveCommand(s, c)
    [] c.op = "EXPIRE" -> expireCommand(s, c)
    [] c.op = "EXPIREAT" -> expireatCommand(s, c)
    [] c.op = "PERSIST" -> persistCommand(s, c)
    [] c.op = "RPUSH" -> rpushCommand(s, c)
    [] c.op = "SADD" -> saddCommand(s, c)
    [] c.op = "SREM" -> sremCommand(s, c)
    [] c.op = "SMOVE" -> smoveCommand(s, c)
    [] c.op = "SPOP" -> spopCommand(s, c)
    [] c.op = "SINTERSTORE" -> sinterstoreCommand(s, c)
    [] c.op = "SUNIONSTORE" -> sunionDiffGenericCommand(s, c, TRUE)
    [] c.op = "SDIFFSTORE" -> sunionDiffGenericCommand(s, c, FALSE)
    [] c.op = "HSET" -> hmsetCommand(s, c)
    [] c.op = "HSETNX" -> hsetnxCommand(s, c)
    [] c.op = "HINCRBY" -> hincrbyCommand(s, c)
    [] c.op = "HDEL" -> hdelCommand(s, c)
    [] c.op = "ZADD" -> zaddCommand(s, c)
    [] c.op = "ZINCRBY" -> zincrbyCommand(s, c)
    [] c.op = "ZREM" -> zremCommand(s, c)
    [] c.op = "ZREMRANGEBYSCORE" -> zremrangebyscoreCommand(s, c)
    [] c.op = "ZREMRANGEBYRANK" -> zremrangebyrankCommand(s, c)
    [] c.op = "ZUNIONSTORE" -> zunionInterGenericCommand(s, c, TRUE)
    [] c.op = "ZINTERSTORE" -> zunionInterGenericCommand(s, c, FALSE)
    [] c.op = "SORT" -> sortCommand(s, c)

(* A data set as a running server, about to execute c.                       *)
Server(data, role, c) ==
  [dict |-> data.dict, expires |-> data.expires, role |-> role, now |-> now,
   argv |-> c, log |-> <<>>, dirty |-> 0, touched |-> {}]
Data(s) == [dict |-> s.dict, expires |-> s.expires]

Replay(data, role, commands) ==
  LET One(d, c) == Data(Exec(Server(d, role, c), c))
  IN  FoldLeft(One, data, commands)

(* feedAppendOnlyFile: the file is kept as the data set it stands for.       *)
Fed(commands) ==
  Replay(file, "loading", FlattenSeq([i \in DOMAIN commands |-> Logged(commands[i], now)]))

Removed(s) == UNION {s.log[i].keys : i \in DOMAIN s.log}

(* What freeMemoryIfNeeded may choose from.                                  *)
Evictable ==
  CASE Eviction = "noeviction" -> {}
    [] Eviction = "volatile" -> {p \in Places : master.expires[p] # NoExpire}
    [] Eviction = "allkeys" -> {p \in Places : master.dict[p].type # "none"}

Empty == [dict |-> [p \in Places |-> NoValue], expires |-> [p \in Places |-> NoExpire]]
Idle(op) == [op |-> op, touched |-> {}, removed |-> {}]

-----------------------------------------------------------------------------
Init ==
  /\ subject \in Subjects
  /\ now = 0
  /\ master = Empty /\ slave = Empty /\ file = Empty
  /\ pending = <<>>
  /\ last = Idle("START")

(* processCommand and call: memory is made first, key by key.                *)
Execute(c, victims) ==
  LET made == FoldLeft(Evict, Server(master, "master", c), SetToSeq(victims))
      s == Exec(made, c)
  IN  /\ Len(pending) < MaxPending
      /\ \A p \in Places : s.dict[p].type = "list" => Len(s.dict[p].items) <= MaxItems
      /\ master' = Data(s)
      /\ pending' = pending \o Propagated(s)
      /\ file' = Fed(Propagated(s))
      /\ last' = [op |-> c.op, touched |-> s.touched, removed |-> Removed(s)]
      /\ UNCHANGED <<subject, now, slave>>

(* activeExpireCycle: some of the expired keys.                              *)
activeExpireCycle(expired) ==
  LET before == Server(master, "master", NoValue)
      s == FoldLeft(Evict, before, SetToSeq(expired))
  IN  /\ Len(pending) < MaxPending
      /\ expired # {}
      /\ \A p \in expired : IsExpired(before, p)
      /\ master' = Data(s)
      /\ pending' = pending \o s.log
      /\ file' = Fed(s.log)
      /\ last' = [op |-> "CRON", touched |-> {}, removed |-> expired]
      /\ UNCHANGED <<subject, now, slave>>

(* The slave executes the next command it has received, when it has it.      *)
SlaveExecutes ==
  /\ pending # <<>>
  /\ slave' = Replay(slave, "slave", <<Head(pending)>>)
  /\ pending' = Tail(pending)
  /\ last' = Idle("SLAVE")
  /\ UNCHANGED <<subject, now, master, file>>

Tick ==
  /\ subject \in Timed
  /\ now < MaxTime
  /\ now' = now + 1
  /\ last' = Idle("TICK")
  /\ UNCHANGED <<subject, master, slave, file, pending>>

(* The slave empties its data set and loads a dump of the master.            *)
FullSync ==
  LET saved == {p \in Places : Saved(master, p, now)}
  IN  /\ DumpOfExpired \/ saved = {p \in Places : Present(master, p)}
      /\ slave' = rdbLoad(master, saved)
      /\ pending' = <<>>
      /\ last' = Idle("SYNC")
      /\ UNCHANGED <<subject, now, master, file>>

RewriteFile ==
  /\ file' = Replay(Empty, "loading", rewriteAppendOnlyFile(master, now))
  /\ last' = Idle("REWRITE")
  /\ UNCHANGED <<subject, now, master, slave, pending>>

(* The master restarts from the file and the slave synchronises with it.     *)
Restart ==
  LET saved == {p \in Places : Saved(file, p, now)}
  IN  /\ DumpOfExpired \/ saved = {p \in Places : Present(file, p)}
      /\ master' = file
      /\ slave' = rdbLoad(file, saved)
      /\ pending' = <<>>
      /\ last' = Idle("RESTART")
      /\ UNCHANGED <<subject, now, file>>

Next ==
  \/ \E c \in Commands[subject] : Execute(c, {})
  \/ \E c \in Commands[subject], p \in Evictable : Execute(c, {p})
  \/ \E expired \in SUBSET Places : activeExpireCycle(expired)
  \/ SlaveExecutes
  \/ Tick
  \/ FullSync
  \/ RewriteFile
  \/ Restart

Spec == Init /\ [][Next]_vars

-----------------------------------------------------------------------------
(* Properties *)

(* Type invariant.  An expire belongs to a key: removeExpire and setExpire   *)
(* assert it, and dbDelete relies on it.                                     *)
TypeOK ==
  /\ subject \in Subjects /\ now \in 0..MaxTime
  /\ \A data \in {master, slave, file} :
       \A p \in Places :
         /\ data.dict[p].type \in {"none", "string", "list", "set", "hash", "zset"}
         /\ data.expires[p] # NoExpire => Present(data, p)

(* Encodings apart, which each server chooses.                               *)
Content(v) ==
  CASE v.type = "string" -> v.bytes
    [] v.type = "list" -> v.items
    [] v.type = "set" -> v.members
    [] v.type = "hash" -> v.fields
    [] v.type = "zset" -> v.scores
    [] OTHER -> <<>>

SameValues(a, b) ==
  \A p \in Places : /\ a.dict[p].type = b.dict[p].type
                    /\ Content(a.dict[p]) = Content(b.dict[p])

(* A slave that has executed all it was sent has the data set of its master: *)
(* no command depends on the clock, on chance or on an encoding in a way     *)
(* that its propagated form does not undo.  Keys are volatile on both or on  *)
(* neither, and do not expire on the slave first.                            *)
SlaveFollows ==
  pending = <<>> =>
    /\ SameValues(master, slave)
    /\ \A p \in Places :
         /\ master.expires[p] = NoExpire <=> slave.expires[p] = NoExpire
         /\ slave.expires[p] >= master.expires[p]

(* Loading the append only file makes the data set of the master, whatever   *)
(* was rewritten when; only the expire of a key whose time has come may be   *)
(* missing, until its DEL is there.                                          *)
FileFollows ==
  /\ SameValues(master, file)
  /\ \A p \in Places :
       \/ file.expires[p] = master.expires[p]
       \/ file.expires[p] = NoExpire /\ master.expires[p] < now

(* No compact encoding holds what it has no room for or cannot represent, on *)
(* any of the three: the element would be truncated or the code would walk   *)
(* the whole value at every access.                                          *)
EncodingsFit ==
  \A data \in {master, slave, file}, p \in Places :
    CASE data.dict[p].type = "string" -> StringFits(data.dict[p])
      [] data.dict[p].type = "set" -> SetFits(data.dict[p])
      [] data.dict[p].type = "hash" -> HashFits(data.dict[p])
      [] data.dict[p].type = "zset" -> ZsetFits(data.dict[p])
      [] OTHER -> TRUE

(* An aggregate that is empty is not a key, whichever command took its last  *)
(* element or made it.                                                       *)
NoEmptyAggregates ==
  \A data \in {master, slave, file}, p \in Places :
    LET v == data.dict[p]
    IN  CASE v.type = "list" -> v.items # <<>>
          [] v.type = "set" -> v.members # {}
          [] v.type = "hash" -> DOMAIN v.fields # {}
          [] v.type = "zset" -> DOMAIN v.scores # {}
          [] OTHER -> TRUE

(* What every access to a key relies on: every command, expiry and load     *)
(* leaves the three data sets with values that their encodings fit, no empty *)
(* aggregate, and no expire without its key.                                 *)
WellFormed == TypeOK /\ EncodingsFit /\ NoEmptyAggregates

(* aof.c:618 "If this key is already expired skip it": what the file would   *)
(* load never makes a volatile key of the master a key that lives for ever,  *)
(* which the clock could not delete any more if the DEL of the key is lost.  *)
VolatileStaysVolatile ==
  \A p \in Places :
    (master.expires[p] # NoExpire /\ Present(file, p)) => file.expires[p] # NoExpire

(* Keys that a step neither signals nor expires keep their values: for those *)
(* that expire nobody is to be told (cas.tcl:125 "WATCH will not consider    *)
(* touched expired keys").                                                   *)
ChangesAreSignalled ==
  \A p \in Places \ (last'.touched \cup last'.removed) :
    /\ master'.dict[p].type = master.dict[p].type
    /\ Content(master'.dict[p]) = Content(master.dict[p])

(* WATCH: a command other than MOVE never changes a value that it does not   *)
(* signal.  Keys that expire or are evicted are not counted as changed by it. *)
WatchersAreTold == [][last'.op \notin {"MOVE", "RESTART"} => ChangesAreSignalled]_vars

(* db.c:180 "Every time a key in the database is modified the function       *)
(* signalModifiedKey() is called": the same of every command.                *)
EveryChangeIsSignalled == [][last'.op # "RESTART" => ChangesAreSignalled]_vars
=============================================================================
