----------------------------- MODULE ListServer -----------------------------
(***************************************************************************)
(* Lists, blocking pops and transactions of redis-server: t_list.c,        *)
(* multi.c, and the parts of redis.c, networking.c and db.c they go        *)
(* through. The server executes one command at a time, so a command is one *)
(* step; what interleaves is the commands of the clients, with queues of   *)
(* blocked clients, watched keys and half-typed transactions left in       *)
(* between. A slave that is in sync executes what the server propagates.   *)
(*                                                                         *)
(* A command is a function from a server to a server. The fields argv and  *)
(* dirty exist only during a command: argv is the command vector, which    *)
(* commands rewrite for the slave, and dirty counts the changes made.      *)
(***************************************************************************)
EXTENDS Naturals, FiniteSets, SequencesExt

CONSTANTS
  Clients,      \* connections
  Transactors,  \* the clients that use MULTI and WATCH
  Keys, Values,
  WaitKeys,     \* keys that clients wait on with BLPOP, BRPOP or BRPOPLPUSH
  TargetKeys,   \* keys that RPOPLPUSH, BRPOPLPUSH and RENAME write to
  WatchKeys,    \* keys that clients WATCH
  BatchKeys,    \* keys that are pushed to with two elements at once
  MaxLength,    \* bound: elements in a list
  MaxQueue,     \* bound: commands queued in a transaction
  NoKey         \* no target: bpop.target == NULL

ASSUME UsageAssumption ==
  /\ Transactors \subseteq Clients
  /\ WaitKeys \cup TargetKeys \cup WatchKeys \cup BatchKeys \subseteq Keys
  /\ NoKey \notin Keys /\ IsFiniteSet(Keys) /\ IsFiniteSet(Clients)
  /\ MaxLength \in Nat /\ MaxQueue \in Nat

VARIABLES
  db,        \* the dataset: a value for each key
  client,    \* MULTI state, watched keys and blocking operation of each client
  blocking,  \* db->blocking_keys: the clients waiting for each key, in order
  replica    \* the dataset of a slave that is in sync

vars == <<db, client, blocking, replica>>

-----------------------------------------------------------------------------
Nothing == [type |-> "none", items |-> <<>>]
Text == [type |-> "string", items |-> <<>>]
List(items) == [type |-> "list", items |-> items]

Commands ==
  LET C(op, keys, vals) == [op |-> op, keys |-> keys, vals |-> vals]
  IN  {C(op, <<k>>, <<v>>) : op \in {"lpush", "rpush"}, k \in Keys, v \in Values}
      \cup {C("lpush", <<k>>, <<v, w>>) : k \in BatchKeys, v \in Values, w \in Values}
      \cup {C(op, <<k>>, <<>>) : op \in {"lpop", "rpop", "ltrim", "set", "del"}, k \in Keys}
      \cup {C(op, <<k>>, <<>>) : op \in {"blpop", "brpop"}, k \in WaitKeys}
      \cup {C("blpop", <<k, l>>, <<>>) : k \in WaitKeys, l \in WaitKeys}
      \cup {C("rpoplpush", <<k, t>>, <<>>) : k \in Keys, t \in TargetKeys}
      \cup {C("brpoplpush", <<k, t>>, <<>>) : k \in WaitKeys, t \in TargetKeys}
      \cup {C("rename", <<k, t>>, <<>>) : k \in Keys, t \in TargetKeys}
      \cup {C(op, <<>>, <<>>) : op \in {"flushdb", "unwatch"}}

NoCommand == [op |-> "none", keys |-> <<>>, vals |-> <<>>]

\* A new connection, and one that has left its transaction.
createClient ==
  [multi |-> FALSE, dirtyCas |-> FALSE, queue |-> <<>>, watched |-> {},
   keys |-> <<>>, target |-> NoKey]

Blocked(c) == client[c].keys # <<>>

-----------------------------------------------------------------------------
\* Steps that commands are made of.
signalModifiedKey(s, k) ==
  [s EXCEPT !.client = [c \in Clients |->
     IF k \in s.client[c].watched
       THEN [s.client[c] EXCEPT !.dirtyCas = TRUE] ELSE s.client[c]]]

Put(s, k, object) == [s EXCEPT !.db[k] = object]
Changed(s) == [s EXCEPT !.dirty = @ + 1]

listTypePush(s, k, v, where) ==
  Put(s, k, List(IF where = "head" THEN <<v>> \o s.db[k].items ELSE Append(s.db[k].items, v)))

dbDeleteIfEmpty(s, k) == IF s.db[k] = List(<<>>) THEN Put(s, k, Nothing) ELSE s

blockForKeys(s, c, keys, target) ==
  [s EXCEPT
     !.client[c].keys = keys, !.client[c].target = target,
     !.blocking = FoldLeft(LAMBDA b, k : [b EXCEPT ![k] = Append(@, c)], s.blocking, keys)]

Without(queue, c) ==
  FoldLeft(LAMBDA q, d : IF d = c THEN q ELSE Append(q, d), <<>>, queue)

unblockClientWaitingData(s, c) ==
  [s EXCEPT
     !.client[c].keys = <<>>, !.client[c].target = NoKey,
     !.blocking = [k \in Keys |-> Without(s.blocking[k], c)]]

-----------------------------------------------------------------------------
\* An element meets the clients that wait for the key it is pushed on: each
\* round of the loop takes the oldest one. A BLPOP or BRPOP ends the journey
\* of the element; a BRPOPLPUSH whose target holds no list gets an error; any
\* other BRPOPLPUSH pushes it on to its target, where clients may wait too.
Offer(o) ==
  IF o.taken \/ o.s.blocking[o.key] = <<>> THEN o
  ELSE LET receiver == Head(o.s.blocking[o.key])
           dstkey == o.s.client[receiver].target
           s == unblockClientWaitingData(o.s, receiver)
       IN  CASE dstkey = NoKey -> [o EXCEPT !.s = s, !.taken = TRUE]
             [] dstkey # NoKey /\ s.db[dstkey].type = "string" -> [o EXCEPT !.s = s]
             [] OTHER -> [o EXCEPT !.s = s, !.key = dstkey, !.moved = TRUE]

\* Only the oldest client is looked at: an error it gets ends the loop.
handleClientsWaitingListPush_Once(s, key) ==
  Offer([s |-> s, key |-> key, taken |-> FALSE, moved |-> FALSE])

handleClientsWaitingListPush(s, key) ==
  FoldLeft(LAMBDA o, i : Offer(o),
           [s |-> s, key |-> key, taken |-> FALSE, moved |-> FALSE],
           [i \in 1 .. Cardinality(Clients) |-> i])

\* The slave is sent the command as it came.
StoreAt_AsItCame(s, key, v, argv) ==
  LET t == IF s.db[key] = Nothing THEN s ELSE signalModifiedKey(s, key)
  IN  Changed(listTypePush(t, key, v, "head"))

\* Where the journey ends in a list: the list is created when it is missing,
\* and signalled only when it is not. The slave is sent argv.
StoreAt(s, key, v, argv) ==
  LET t == IF s.db[key] = Nothing THEN s ELSE signalModifiedKey(s, key)
  IN  Changed([listTypePush(t, key, v, "head") EXCEPT !.argv = argv])

Lpush(key, v) == [op |-> "lpush", keys |-> <<key>>, vals |-> <<v>>]

\* Pushes made for a client that was waiting, on the vector of another one.
StoreForReceiver(o, v) == StoreAt(o.s, o.key, v, Lpush(o.key, v))

rpoplpushHandlePush(s, dstkey, v) ==
  LET o == handleClientsWaitingListPush(s, dstkey)
  IN  CASE o.taken -> o.s
        [] ~o.taken /\ o.moved -> StoreForReceiver(o, v)
        [] OTHER -> StoreAt(o.s, dstkey, v, [s.argv EXCEPT !.op = "rpoplpush"])

\* The loop over the elements of a push. Rewriting the vector in its middle
\* leaves argc at 3: the elements that follow are not looked at.
PushRound(p, v, key, where) ==
  LET o == handleClientsWaitingListPush(p.s, key)
      Store(s) == [p EXCEPT !.s = Changed(listTypePush(s, key, v, where)),
                            !.waiting = FALSE, !.pushed = TRUE]
  IN  CASE p.cut -> p
        [] ~p.cut /\ ~p.waiting -> Store(p.s)
        [] ~p.cut /\ p.waiting /\ o.taken -> [p EXCEPT !.s = o.s]
        [] ~p.cut /\ p.waiting /\ ~o.taken /\ o.moved ->
             [p EXCEPT !.s = StoreForReceiver(o, v), !.cut = TRUE]
        [] OTHER -> Store(o.s)

pushGenericCommand(s, where) ==
  LET key == s.argv.keys[1]
      p == FoldLeft(LAMBDA q, v : PushRound(q, v, key, where),
                    [s |-> s, waiting |-> s.db[key] = Nothing, pushed |-> FALSE, cut |-> FALSE],
                    s.argv.vals)
  IN  CASE s.db[key].type = "string" -> s
        [] s.db[key].type # "string" /\ p.pushed -> signalModifiedKey(p.s, key)
        [] OTHER -> p.s

\* The key is not signalled.
popGenericCommand_Silent(s, key, where) ==
  IF s.db[key].type # "list" THEN s
  ELSE LET items == s.db[key].items
           t == Put(s, key, List(IF where = "head" THEN Tail(items) ELSE Front(items)))
       IN  Changed(dbDeleteIfEmpty(t, key))

-----------------------------------------------------------------------------
popGenericCommand(s, key, where) ==
  IF s.db[key].type # "list" THEN s
  ELSE LET items == s.db[key].items
           t == Put(s, key, List(IF where = "head" THEN Tail(items) ELSE Front(items)))
       IN  Changed(signalModifiedKey(dbDeleteIfEmpty(t, key), key))

\* A transaction blocks like any other command.
blockingPopGenericCommand_InMulti(s, c, where) ==
  LET first == SelectInSeq(s.argv.keys, LAMBDA k : s.db[k] # Nothing)
  IN  IF first # 0 THEN popGenericCommand(s, s.argv.keys[first], where)
      ELSE blockForKeys(s, c, s.argv.keys, NoKey)

\* The first key that exists decides; without one the client blocks, unless
\* it is executing a transaction.
blockingPopGenericCommand(s, c, where) ==
  LET first == SelectInSeq(s.argv.keys, LAMBDA k : s.db[k] # Nothing)
  IN  CASE first # 0 -> popGenericCommand(s, s.argv.keys[first], where)
        [] first = 0 /\ s.client[c].multi -> s
        [] OTHER -> blockForKeys(s, c, s.argv.keys, NoKey)

rpoplpushCommand(s) ==
  LET src == s.argv.keys[1]
      dst == s.argv.keys[2]
      items == s.db[src].items
      t == rpoplpushHandlePush(Put(s, src, List(Front(items))), dst, Last(items))
  IN  IF s.db[src].type # "list" \/ s.db[dst].type = "string" THEN s
      ELSE Changed(signalModifiedKey(dbDeleteIfEmpty(t, src), src))

brpoplpushCommand(s, c) ==
  LET src == s.argv.keys[1]
  IN  CASE s.db[src] # Nothing -> rpoplpushCommand(s)
        [] s.db[src] = Nothing /\ s.client[c].multi -> s
        [] OTHER -> blockForKeys(s, c, <<src>>, s.argv.keys[2])

\* LTRIM key 1 -1: the list without its first element.
ltrimCommand(s) ==
  LET key == s.argv.keys[1]
  IN  IF s.db[key].type # "list" THEN s
      ELSE Changed(signalModifiedKey(dbDeleteIfEmpty(Put(s, key, List(Tail(s.db[key].items))), key), key))

setCommand(s) ==
  LET key == s.argv.keys[1] IN Changed(signalModifiedKey(Put(s, key, Text), key))

delCommand(s) ==
  LET key == s.argv.keys[1]
  IN  IF s.db[key] = Nothing THEN s ELSE Changed(signalModifiedKey(Put(s, key, Nothing), key))

renameCommand(s) ==
  LET src == s.argv.keys[1]
      dst == s.argv.keys[2]
  IN  IF src = dst \/ s.db[src] = Nothing THEN s
      ELSE Changed(signalModifiedKey(signalModifiedKey(
             Put(Put(s, dst, s.db[src]), src, Nothing), src), dst))

\* Only keys that exist are signalled.
touchWatchedKeysOnFlush(s, present) ==
  [s EXCEPT !.client = [c \in Clients |->
     IF s.client[c].watched \cap present # {}
       THEN [s.client[c] EXCEPT !.dirtyCas = TRUE] ELSE s.client[c]]]

flushdbCommand(s) ==
  LET present == {k \in Keys : s.db[k] # Nothing}
  IN  [touchWatchedKeysOnFlush(s, present) EXCEPT
         !.db = [k \in Keys |-> Nothing], !.dirty = @ + Cardinality(present)]

unwatchAllKeys(s, c) == [s EXCEPT !.client[c].watched = {}]
unwatchCommand(s, c) == [unwatchAllKeys(s, c) EXCEPT !.client[c].dirtyCas = FALSE]

-----------------------------------------------------------------------------
\* c->cmd->proc(c)
Proc(s, c) ==
  LET op == s.argv.op
  IN  CASE op = "lpush" -> pushGenericCommand(s, "head")
        [] op = "rpush" -> pushGenericCommand(s, "tail")
        [] op = "lpop" -> popGenericCommand(s, s.argv.keys[1], "head")
        [] op = "rpop" -> popGenericCommand(s, s.argv.keys[1], "tail")
        [] op = "blpop" -> blockingPopGenericCommand(s, c, "head")
        [] op = "brpop" -> blockingPopGenericCommand(s, c, "tail")
        [] op = "rpoplpush" -> rpoplpushCommand(s)
        [] op = "brpoplpush" -> brpoplpushCommand(s, c)
        [] op = "ltrim" -> ltrimCommand(s)
        [] op = "set" -> setCommand(s)
        [] op = "del" -> delCommand(s)
        [] op = "rename" -> renameCommand(s)
        [] op = "flushdb" -> flushdbCommand(s)
        [] op = "unwatch" -> unwatchCommand(s, c)

\* The slave executes a command on its own dataset, where nobody waits.
Replayed(argv, data, c) ==
  Proc([db |-> data, client |-> [d \in Clients |-> createClient],
        blocking |-> [k \in Keys |-> <<>>], replica |-> data, argv |-> argv, dirty |-> 0], c).db

call(s, c, argv) ==
  LET t == Proc([s EXCEPT !.argv = argv, !.dirty = 0], c)
  IN  IF t.dirty > 0 THEN [t EXCEPT !.replica = Replayed(t.argv, s.replica, c)] ELSE t

Server == [db |-> db, client |-> client, blocking |-> blocking, replica |-> replica,
           argv |-> NoCommand, dirty |-> 0]

Become(s) ==
  /\ \A k \in Keys : Len(s.db[k].items) <= MaxLength
  /\ db' = s.db /\ client' = s.client /\ blocking' = s.blocking /\ replica' = s.replica

\* The transaction is dropped, the flag that aborts the next one is not.
LeaveMulti_StillDirty(s, c) ==
  [s EXCEPT !.client[c] = [@ EXCEPT !.multi = FALSE, !.queue = <<>>]]

LeaveMulti(s, c) ==
  [s EXCEPT !.client[c] = [@ EXCEPT !.multi = FALSE, !.dirtyCas = FALSE, !.queue = <<>>]]

-----------------------------------------------------------------------------
Init ==
  /\ db = [k \in Keys |-> Nothing]
  /\ client = [c \in Clients |-> createClient]
  /\ blocking = [k \in Keys |-> <<>>]
  /\ replica = db

\* A command outside of a transaction. A blocked client sends none.
Execute(c) ==
  /\ ~Blocked(c) /\ ~client[c].multi
  /\ \E argv \in Commands : Become(call(Server, c, argv))

queueMultiCommand(c) ==
  /\ client[c].multi /\ Len(client[c].queue) < MaxQueue
  /\ \E argv \in Commands : Become([Server EXCEPT !.client[c].queue = Append(@, argv)])

multiCommand(c) ==
  /\ ~Blocked(c) /\ ~client[c].multi
  /\ Become([Server EXCEPT !.client[c].multi = TRUE])

watchCommand(c) ==
  /\ ~Blocked(c) /\ ~client[c].multi
  /\ \E k \in WatchKeys : Become([Server EXCEPT !.client[c].watched = @ \cup {k}])

discardCommand(c) ==
  /\ client[c].multi
  /\ Become(unwatchAllKeys(LeaveMulti(Server, c), c))

\* A transaction whose watched keys were touched is dropped; otherwise its
\* commands are called one after the other, REDIS_MULTI still set.
execCommand(c) ==
  /\ client[c].multi
  /\ LET s == unwatchAllKeys(Server, c)
     IN  \/ /\ client[c].dirtyCas
            /\ Become(LeaveMulti(s, c))
         \/ /\ ~client[c].dirtyCas
            /\ Become(LeaveMulti(FoldLeft(LAMBDA t, argv : call(t, c, argv), s, client[c].queue), c))

\* closeTimedoutClients: the time of a blocked client is over.
Timeout(c) ==
  /\ Blocked(c)
  /\ Become(unblockClientWaitingData(Server, c))

\* The connection is lost, and its slot is taken by a new one.
freeClient(c) ==
  LET s == unwatchAllKeys(unblockClientWaitingData(Server, c), c)
  IN  Become([s EXCEPT !.client[c] = createClient])

Next ==
  \/ \E c \in Clients : Execute(c) \/ Timeout(c) \/ freeClient(c)
  \/ \E c \in Transactors :
       \/ multiCommand(c) \/ queueMultiCommand(c) \/ watchCommand(c)
       \/ discardCommand(c) \/ execCommand(c)

Spec == Init /\ [][Next]_vars

-----------------------------------------------------------------------------
Objects == [type : {"none", "string"}, items : {<<>>}]
           \cup {List(items) : items \in BoundedSeq(Values, MaxLength) \ {<<>>}}

\* Types of the dataset and of the clients. No key holds an empty list: a
\* command that takes the last element deletes the key.
TypeOK ==
  /\ db \in [Keys -> Objects]
  /\ replica \in [Keys -> [type : {"none", "string", "list"}, items : Seq(Values)]]
  /\ client \in [Clients -> [multi : BOOLEAN, dirtyCas : BOOLEAN, queue : Seq(Commands),
                             watched : SUBSET WatchKeys, keys : Seq(WaitKeys),
                             target : TargetKeys \cup {NoKey}]]
  /\ blocking \in [Keys -> Seq(Clients)]

\* Nobody sleeps on a key whose list has elements: whatever order pushes,
\* pops, errors, timeouts and transactions come in, an element that arrives
\* at a key with waiting clients goes to one of them (t_list.c:819).
NobodyWaitsForAvailable ==
  \A k \in Keys : blocking[k] # <<>> => db[k].type # "list"

\* A slave in sync has the dataset of its master after every command: what
\* is propagated (redis.c:1037), rewritten or not, has the effect of the
\* command, of the clients it woke up included.
ReplicaFollows == replica = db

\* A client that has typed MULTI is not asleep after any step, the one of its
\* EXEC included: whatever the commands of a transaction find missing, the
\* blocking ones treat it as a timeout there (t_list.c:953).
ExecNeverBlocks == [][\A c \in Clients : client[c].multi => ~Blocked(c)']_vars

\* A transaction is aborted only for a key its client has watched since its
\* last EXEC, DISCARD or UNWATCH: no flag survives from an earlier one.
AbortHasACause == \A c \in Clients : client[c].dirtyCas => client[c].watched # {}

\* Every change of a watched key marks the clients that watch it, unless they
\* stop watching: a transaction that is executed saw the values it relied on
\* (db.c:180).
WatchedChangeIsNoticed ==
  [][\A c \in Clients : \A k \in client[c].watched :
       db'[k] # db[k] => client'[c].dirtyCas \/ k \notin client'[c].watched]_vars
=============================================================================
