# TLA+ specifications of gridapps

This directory is the formal model of the gridapps repository: an iPhone app
("kettle") that says whether the power grid can take another kettle, a small
Python server that reads the frequency of the grid and answers the app, and the
Redis 2.4.15 server between the two Python programs.  The modules are written
from the source; a definition that stands for code names it in its comment, and
`PROJECT.json` (`map`) gives the lines.

- [1. The system](#1-the-system)
- [2. Modules and how they correspond to the code](#2-modules-and-how-they-correspond-to-the-code)
- [3. Runs, bounds, fairness](#3-runs-bounds-fairness)
- [4. Proofs](#4-proofs)
- [5. Disagreements with the code](#5-disagreements-with-the-code)
- [6. What is not modelled](#6-what-is-not-modelled)
- [7. Plan](#7-plan)

To check: `tlc -config X.cfg M` for the runs of section 3, `tlapm M.tla` for the
eight `*Proofs` modules.

## 1. The system

```
  sensor --serial--> freqRead.py --ZADD--> redis-server --ZREVRANGE--> freqServe.py
                                            |      \                        |
                                       dump.rdb     slaves                /json
                                                                            |
   panel <--callback (main queue)-- GridMonitor thread --> CanITurnItOn / ChrisMonitor
     ^                                   |
   UIKit life cycle                 alerts (Utilities)
```

Three programs run here, and only the app is multi-threaded.  The Python
scripts are one process each and share nothing but a Redis key.  The Redis
server executes one command or event at a time; its concurrency is that of its
clients' commands, its children (fork), its slaves and, for the append only
file, one background thread.

### 1.1 The app, `kettle/kettle`

| component | state | operations | interacts with |
|---|---|---|---|
| **Grid monitor** (`GridMonitor.m`, `ChrisMonitor.m`, `CanITurnItOn.m`) | `monitorRunning`, and per activation of `startMonitor` the locals `firstRun`, `previousState`, `error` | `startWithCallback:`, `pauseMonitoring`, `resumeMonitoring`, the polling loop | two web services; dispatches its callback to the main queue; raises alerts |
| **Alerts** (`Utilities.m`) | the global singleton and its dictionary of identities already shown | `showAlert:message:msgIdentity:` | called from monitor threads and from the main thread |
| **Main screen** (`MainViewController.m`, `AppDelegate.m`) | the panel, the outlets, the location manager, UIKit's state | view loading and unloading, life cycle calls, reminder button | pauses and resumes the monitor, shows its state |
| **Notification panel** (`NotificationViewController.m`) | visible, tapped, a timer of five seconds | show, tap, timer, hide | main screen |
| **Info page** | none | presentation | |

Hard: the monitor threads run beside each other when a pause and a resume fall
into one second of sleep; nothing is locked; callbacks queue behind the life
cycle; a thread keeps silent while its reading equals what it remembers; a view
that is unloaded forgets.  Correct means: paused threads end; a silent thread is
right to be silent; the panel comes to show the state of the grid; no warning is
lost and, once the start-up race is over, none is repeated.

### 1.2 The server, `webserver`

| component | state | operations |
|---|---|---|
| **Frequency pipeline** (`freqRead.py`, `freqServe.py`, `startup.sh`, `redis/redis.conf`) | the serial buffer, the sorted set `frequency:received`, the clock | read a line, stamp it, ZADD it; answer `/json` with the member of the highest score; snapshot, crash, restart |
| **Reminder and push** (`freqNotify.py`, `freqSendNotification.py`, `Notify.py`) | none that lasts in this revision | print a token; build a payload |
| **Test server** (`freqServeTest.py`) | one number | set it by hand, answer `/json` with it |

Hard: a wall clock in seconds orders the readings; the reader is between stamp
and ZADD when Redis comes back with an older set; a set that nothing trims meets
`maxmemory`; an exception ends the reader for good.  Correct means: what is
served was stored in the last second in which anything was stored, and the
answers settle on the grid when the grid settles.

### 1.3 Redis, `webserver/redis/src`

| component | files | state | correct means |
|---|---|---|---|
| **Replication, master side** | `replication.c` to 247, `rdb.c`, `redis.c`, `db.c` | `server.slaves` with their states, buffers and files; the saving child; `dump.rdb` | an online slave has the master's dataset; every SYNC is answered |
| **Replication, slave side** | `replication.c` from 249, `syncio.c` | the state of the link, the transfer file, descriptors with their handlers, timeouts | a transfer is loaded whole or not at all; one connection at a time; the slave catches up |
| **Lists, blocking pops, transactions** | `t_list.c`, `multi.c`, parts of `redis.c`, `networking.c`, `db.c` | lists, queues of blocked clients, watched keys, queued commands | an element that arrives goes to who waits for it; EXEC runs on the values its client relied on; the slave follows |
| **Append only file** | `aof.c`, `bio.c`, `redis-check-aof.c` | buffer, rewrite child and its difference buffer, file, put-off flushes, fsync jobs | what is reloaded is what was acknowledged, up to the fsync policy |
| **Key space, expires, eviction** | `db.c`, `redis.c`, `object.c` | `db->dict`, `db->expires` | an expired key is gone for clients, slaves and the files; whoever watches a key is told |
| **Strings, sets, hashes, sorted sets, SORT** | `t_string.c`, `t_set.c`, `t_hash.c`, `t_zset.c`, `sort.c` | values and their encodings | a slave and a file that replay what is propagated have the master's values |
| **Dump format** | `rdb.c`, `lzf_*.c` | file | round trip, encodings included |
| **Hash tables** | `dict.c` | two tables, `rehashidx`, iterators | a map, whatever step of a rehash it is in |
| **Skip list** | `t_zset.c` | nodes, levels, spans | an ordered set; spans are ranks; the ziplist encoding agrees |
| **Compact encodings** | `intset.c`, `ziplist.c`, `zipmap.c` | bytes | a sorted set, a list, a map; no upgrade or cascade loses a value |
| **Event loop, connections** | `ae.c`, `networking.c` | events, queries, output, clients to close | answers in order; a freed client is nowhere any more; nobody is left without an event |
| **Publish and subscribe** | `pubsub.c` | channels and patterns, indexed both ways | the two indexes agree |
| **Virtual memory** | `vm.c` | pages, swap jobs, I/O threads, clients that wait for keys | no value is lost; who waits, waits for a job that exists |
| configuration, slow log, debug; tools | | | see section 6 |

Hard: a SYNC in any phase of a save, FLUSHALL and SHUTDOWN in the middle of one,
a fork that fails; SLAVEOF in any phase of a connection; an element that wakes a
client whose own push wakes another; the command vector that one client's call
rewrites for another's sake; an abort flag that four commands clear; a rewritten
file that takes over from one still being written; a flush put off while the disk
is busy; a key that expires on the master and must not on its copies; a table
that is rehashed between two steps of an iterator; an insertion that makes the
next entry longer, and that the next; a value that is overwritten while a thread
reads it; an event of a client that an earlier event freed; lost connections and
timeouts in every queue.

`PROJECT.json` lists each component with its status, and under `hazards` each
hard spot at its line, with the properties that would catch it going wrong.

## 2. Modules and how they correspond to the code

What one component does to another that is modelled apart from it is a
nondeterministic step of its environment: a check of `GridMonitor` reads the grid
at once; `AppAlerts` lets every thread raise an alert at any moment; a master of
`ReplicationSlave` answers a SYNC with some dump.  Three things are composed: a
master, its slave and its append only file (`Dataset`), lists with transactions
and a slave (`ListServer`), and the event loop with replies, subscriptions and
blocked clients (`Connections`).

The modules of Redis have one convention.  The server executes one handler at a
time, so its state is a record `srv` (or `server`), an operation of the C code is
a function from records to records with the name of the C function, and an action
is one handler of the event loop, from its first line to its return.  What is
atomic in the model is what one thread does between two returns to `ae.c`.

### `AppAlerts`, `AppAlertsProofs`

`showAlert:message:msgIdentity:` step by step, in any number of monitor threads
and the main thread.  `call[c]` is the activation in thread `c`: where it is,
the identity, and the instance `getInstance` returned.  A step is one read or
write of shared state: the test of the global, the allocation and store, the
second read of the global in `return utility`, the look-up of the identity, its
storing, and the hand-over to the main queue.  `utility` is the global,
`msgIds[u]` the dictionary of the instance allocated by `u`, `locating` says
that the location manager still delivers updates.

### `GridMonitor`, `GridMonitorProofs`

The polling threads, the main queue and UIKit.  `thread[t]` holds the locals of
an activation of `startMonitor`; its program counter is at the loop's test, at
one of the two monitors, or at the comparison with `previousState`.
`mainQueue` is the FIFO of dispatched callbacks, `app` and `view` are UIKit's
state, `panel` is what the user reads.  `pauseMonitoring`, `resumeMonitoring`
and `viewDidLoad` are operators that the life cycle actions use, so that
`applicationWillResignActive` is one step with the pause in it.  `World` changes
the grid and switches each web service on and off at any moment.

### `FreqPipeline`, `FreqPipelineProofs`

`freqRead.py` is at one of three places: reading a line, taking the time,
storing.  `freqServe.py` is the action `GET`; it has no state of its own but its
last answer.  The sorted set is a function from readings to scores, with ZADD and
ZREVRANGE by what they do, ties included: readings are numbered in the order in
which Redis compares their texts.  `Crash` loses the set, `Startup` reads the
dump back.  Seconds are relative: when the clock reaches its bound, `CloseGap`
takes out a second that no score and no stamp uses, so time never stops.

### `ReplicationMaster`, `ReplicationMasterProofs`

A dataset is the sequence of commands that made it, `Content` is what a FLUSHALL
in it leaves.  `child` is the saving process with the dataset at its fork;
`slave[c]` is the client of connection `c` (`replstate`, `slaveseldb`, output
buffer, file) together with the dataset of its peer.  `syncCommand` has the
three branches of the code; `backgroundSaveDoneHandler` includes the whole of
`updateSlavesWaitingBgsave`, the start of the next save and its failure
included.  `flushallCommand`, `saveCommand` and `shutdownCommand` are what ends
a save early.  When the child ends it has renamed its file; the parent notices
in a later step and opens whatever dump there is then.

### `ListServer`, `ListServerProofs`, `MCListServer`

The server is a record, a command is a function from servers to servers, and
`call` applies one and propagates it: `argv` is the command vector, which
commands rewrite for the slave, and `dirty` decides whether anything is sent.
`handleClientsWaitingListPush` is the journey of an element along the queues of
blocked clients, as a fold over at most as many rounds as there are clients;
the mutual recursion with `rpoplpushHandlePush` in the code is that fold, as
each round ends the waiting of one client.  The slave executes what it is sent
with the same operators, on its own dataset, where nobody waits.  Between
commands, what the clients leave behind is `client[c]` (MULTI state, queue,
watched keys, abort flag, keys and target it blocks on) and `blocking[k]`, in
order of arrival.

Left out of this module: LSET, LINSERT, LREM, LPUSHX, RPUSHX (one list, one
step, same touching as the commands that are there), expires and several
databases (in `KeySpace`), and input that a client sends while it is blocked (in
`Connections`).

### `ReplicationSlave`, `ReplicationSlaveProofs`

The link of a slave to its master: `masterhost`, `replstate`, the two descriptors
the code keeps (`repl_transfer_s` is `s`, `server.master` is `master`), what is
left of a transfer, and the temporary file.  `conn[fd]` is a descriptor: who is
at the other end, the handler installed for it, and what has arrived and is not
read.  `connectWithMaster`, `syncWithMaster`, `readSyncBulkPayload`,
`replicationCron` with its three timeouts, `slaveofCommand` and
`replicationAbortSyncTransfer` are whole handlers; so is `syncCommand` of the
slaves of this slave, which are disconnected when the dataset is replaced.
A descriptor that is closed is reused, as `accept` and `socket` do.  The dump
comes in `Parts` reads, and a connection may be lost between any two.
`SlaveofWhileConnecting` allows `SLAVEOF` another master while a `connect` is
under way, where the code forgets the descriptor (section 5).

### `AppendOnlyFile`, `AppendOnlyFileProofs`

`server` has the fields of the append only file in `redisServer`: on or off, the
descriptor, the database selected last, the put-off flag, the scheduled rewrite,
the policy.  `aofbuf` is what is to be written, `diff` the differences kept for
the child, `file` what was written and how much of it is synced, `rewrite` the
child, `jobs` the queue of `bio.c`.  `Write` is the whole of a writing command's
`feedAppendOnlyFile`; `beforeSleep` and `cronFlush` are the two callers of
`flushAppendOnlyFile`; `backgroundRewriteDoneHandler` writes the differences,
renames, and decides who closes the old file.  The machine may lose its power in the
middle of that handler, when the new file has its name and is not yet synced
(`PowerLossInSwitch`; under `always` if `LossAtSwitch`, section 5); that the rename
itself reaches the disk before what is written after it is taken for granted.
`stopAppendOnly` waits with `wait3` for whichever child has ended: the one it killed,
the one that saves a dump (`saving` is `"lost"` then: its end will never be noticed),
or one left from an earlier time (`server.stray`), which `cronReapsStray` takes for
the rewrite of the moment.  `startAppendOnly` may fail to open its file and leave
`appendonly` on without a descriptor, so that the first write ends the process
(`WriteExits`), or fail to start its rewrite and keep a closed descriptor
(`"stale"`).  A dataset and a file are both
sequences of commands, so that equality of the two is the whole promise;
`Crash`, `FlushFails` and `PowerLoss` leave what each leaves, and
`checkAofFix` cuts a torn file.  The clock is left out: where the code compares
seconds, both outcomes are possible.
`acked` are the commands whose client has a reply that its policy stands by, and
`loaded` those that this process found in its file when it started: `beforeSleep`
counts nothing as replied to that was only read.
`whole` says that the file was switched on before the present dataset was made:
between CONFIG SET appendonly yes, or a resynchronisation, and the end of the
first rewrite nothing is promised.

### `KeySpace`, `Strings`, `Sets`, `SortedSets`, `Snapshots`, `Dataset`, `MCDataset`

`KeySpace` is `db.c` and `call` of `redis.c`: a server is a record, a command
maps it to another one and leaves what it propagates in `argv` (rewritten by
SPOP, which becomes an SREM) and in `log` (the DELs of expired keys, which go first),
whether it counts as a change in `dirty`, and the keys it signalled in `touched`.
`Strings`, `Sets` (with hashes) and `SortedSets` (with SORT) are the commands of
one type each, with their encodings and the moments they change.  `Snapshots` is
what a rewrite and a dump make of a dataset, and what loading makes of that.
`Dataset` puts a master, a slave and a file side by side: the master executes any
command and appends what it propagates to `pending`; the slave executes `pending`
later, when the clock may have moved on; the file is kept as the dataset that a
server loading it, whose role is `loading`, would have.  The same operators run in the three, and differ
where the code does: a slave and a loading server expire nothing.  Keys expire on
access, in `activeExpireCycle` and are evicted; a rewrite, a full synchronisation
and a restart replace a copy.  `subject` is the family of commands of a behaviour:
types meet in the cases that the commands tell apart (a wrong type, a destination
that is replaced), not all with all.

### `Intset`, `SkipList`, `Dict`, `Zipmap`, `Ziplist`, `AbstractMap`, `AbstractList`, `MCStructures`

The data structures, each with the layout that makes it difficult and no more.
`Intset` keeps cells of two bytes, so that an upgrade that goes the wrong way
reads garbage.  `SkipList` keeps forward pointers and spans of every level, and
runs the ziplist form of the same sorted set beside it.  `Dict` keeps the two
tables, moves one bucket at a time, and has one safe iterator that stays open
across any operation.  `Zipmap` keeps bytes, with lengths long and short and the
free bytes behind a value.  `Ziplist` keeps, of every entry, the field with the
length of the entry before it, which one insertion can widen in a cascade.

`AbstractMap` and `AbstractList` say what all of them promise: a map that is
updated, removed from and looked up, a list with insertions and deletions
anywhere.  Each concrete module states its refinement as
`M == INSTANCE AbstractMap WITH ...` (the mapping reads the map out of the
tables, bytes or nodes; an integer set is a map of its members to themselves, a
sorted set a map of elements to scores), and `MCStructures` checks the five of them
(`StructuresImplementMaps`), one at a time.

### `VirtualMemory`, `VirtualMemoryProofs`, `MCVirtualMemory`

`srv` has the values of the keys with where they are (in memory, being loaded,
being swapped out, on pages), the page bitmap, two of the three job lists, and
the clients that wait, indexed both ways.  `processing` is the third list, owned
by the I/O threads; `TakeJob`, `ProcessJob` and `ExitThread` are theirs, and
everything else is the main thread's.  `vmCancelThreadedIOJob` looks for the job
in the three lists: withdrawn from the first, waited for in the second, ignored
in the third.  A write that fails in a thread cancels its job there and nothing
else (`SeekFails`); what the main thread makes of that is `Abandoned`.
`vmSwapObjectBlocking` is called from `serverCron`, which asks `vmCanSwapOut`, and
from DEBUG SWAPOUT and the load of a dump, which do not (`SwapWhileSaving`).  A command that needs swapped values waits for them
(`blockClientOnSwappedKeys`) and goes on from `handleClientsBlockedOnSwappedKey`.
A child that saves reads pages which the parent may not reuse; `data` is what the
values should be, as the commands left them.

### `Connections`, `MCConnections`

One round of the event loop after another: `beforeSleep` runs what is left of the
queries of clients that were woken, `aeApiPoll` chooses the ready descriptors,
`ReadEvent` and `WriteEvent` handle them in any order (`ae.c` handles those of a
descriptor together, reading first), `serverCron` closes the round.  A fired
event is handled only if the mask of its descriptor still has it, and the client
it then finds is that of the descriptor now.  A query is a sequence of commands,
and an answer is the number of its command; the output is a fixed buffer of
`BufRoom` answers and a list behind it, as in `networking.c`.  Blocking and waking
(`BLPOP`, a push), publishing and subscribing by channel and by pattern, `QUIT`,
a protocol error, `CLIENT KILL` (of itself, too), idle and blocked timeouts and
`maxclients` are the ways in which clients touch each other.  `closeTimedoutClients`
goes once through `srv.clients`, in the order in which they came.  Peers send and
close before a poll only: what they do later in a round the server cannot see.

## 3. Runs, bounds, fairness

| run | states | what it shows |
|---|---|---|
| `alerts` | 48,172 | An alert is remembered only if somebody has shown it or is about to (`RememberedIsPresented`); every warning is shown (`EveryWarningShown`); after the start-up race, a remembered alert never comes back (`SettledIsSilent`) |
| `monitor` | 840,488 | A thread that is alone is silent only when the panel says, or is about to say, what it remembers (`SoleMonitorOwnsPanel`); paused threads end (`PausedMonitorsStop`); the panel settles on a grid that settles (`PanelConverges`) |
| `freq` | 643,936 | Until the clock is set back, what is served was stored in the last second in which anything was stored, through crash and restart (`NewestSecondServed`); the answers settle on a grid that settles (`AnswersConverge`) |
| `repl` | 67,196 | An online slave has the master's dataset (`OnlineSlavesFollow`); every SYNC is answered (`SyncIsAnswered`) |
| `slave` | 12,852 | There is one connection at most, with the handler of the state the link is in (`OneLink`); a link that is up carries a whole dataset of the configured master, and the slaves of the slave have the same (`LinkedDataIsMasters`); when troubles end, the slave has caught up (`SyncConverges`) |
| `lists` | 450,251 | Nobody waits for an element that is there (`NobodyWaitsForAvailable`); a slave has the dataset of its master after each command (`ReplicaFollows`); EXEC never blocks (`ExecNeverBlocks`); an abort has a cause in the present transaction (`AbortHasACause`) and a change of a watched key is noticed (`WatchedChangeIsNoticed`) |
| `keyspace` | 120,441 | Encodings are those that the limits allow and no aggregate is empty (`WellFormed`); a slave that has executed what it was sent has what the master has (`SlaveFollows`), and so has a server that loads the file (`FileFollows`); whoever watches a key is told when a command changes it (`WatchersAreTold`) |
| `structures` | 183,040 | Each structure implements its map or list (`StructuresImplementMaps`); the bytes are well formed (`CompactEncodingsHold`); ranks, ranges and order are those of the other encoding (`EncodingsAgree`); during a rehash a key is in the bucket where it is looked for (`EveryKeyHasItsBucket`); an iterator returns once each key that was there throughout (`IteratorsSeeAll`) |
| `aof` | 1,063,410 | File and buffer replay to the dataset (`LogFollowsData`), and so do the rewritten file and its differences (`RewriteFollowsData`); a server that comes back has what its policy stands by (`KeepsPromises`); no reply before its write, unless put off (`RepliesFollowWrites`); what is put off is written (`PostponedIsWritten`) |
| `vm` | about 961,400 | A value is what the commands made it, wherever it is (`ValuesSurvive`); a saving child finds what was swapped at its fork (`SavedValuesSurvive`); jobs, waiting clients and keys agree (`JobsMatchKeys`) |
| `connections` | 3,026,274 | Answers reach a client in the order of its commands, one each (`AnswersInOrder`); when the loop sleeps nothing is left that no event would resume (`NothingIsForgotten`); with two clients at once, or with three of which none that was woken waits again before it is resumed, events and registries name live clients, once, and those whose own structure says so (`RegistriesAgree`; without that condition the code breaks it, section 5) |
| `slave_switch` | | violated: section 5 |

### Bounds

- `alerts`: two monitor threads beside the main thread, one identity of each
  kind.  Two callers race for the singleton and a third comes in after; more
  threads are covered by the proof.  `MaxCount` 2: the properties ask for none,
  one, more than one.
- `monitor`: two thread slots are enough for a thread that outlived a pause
  beside its successor; a resumption that would need a third waits for a slot.
  `MaxQueue` 1: a thread waits to dispatch while a callback is queued, so the
  reordering of two threads' callbacks around life cycle steps still happens,
  one at a time; the proof has no such bound.  The run is for the phone, where
  the view can be unloaded; on the iPad the view is never covered.
- `freq`: two readings on the two sides of 50 Hz, three seconds, one buffered
  line, one crash, one clock set back.  The set has room for both readings and
  one more (`MaxMembers` 3): with less it fills, the reader ends, and
  `AnswersConverge`, which is about a reader that runs, says nothing.  A refused
  ZADD is thus one that Redis was down for.
- `repl`: two connections, so that one can join the save of the other;
  three writes: one before, one during and one after a save; with `FLUSHALL` as
  any of them.  The proof covers any number.
- `slave`: two masters to switch between, one slave of the slave, two
  descriptors (the least with which a stale one can be told from a new one), a
  dump of two reads (a connection lost in the middle of it), two writes of each
  master, four troubles: enough for an abort, a second abort of what followed,
  and a switch there and back.
- `lists`: three clients (two may wait in the same queue while the third
  pushes), one of which uses MULTI and WATCH; three keys, two of them waited
  for; lists of two elements; transactions of one command.  Longer transactions
  (`MaxQueue` 2, with two keys: 441k states) pass as well.  The values, and the
  clients without transactions, are interchangeable, so the run uses symmetry;
  all its properties are safety properties.
  The usage constants say which keys a client waits on, moves elements to,
  watches and pushes two elements on.  In this run `WaitKeys` is disjoint from
  `TargetKeys` and `BatchKeys`, and `WatchKeys` from `TargetKeys`: the
  properties fail where they meet (section 5).
- `keyspace`: two keys in one database and one in another, `MaxPending` 1 command
  on its way to the slave, elements on both sides of every limit of the compact
  encodings (which are 1 here), strings of three bytes, a clock of two seconds
  that ticks for the subject `keys` only.  The clock is bounded and everything
  can have expired at its end, so the run does not check for deadlock.
- `structures`: integers on both sides of the 16 and 32 bit limits (2 and 5
  here), four elements on two levels, a table that grows from one bucket to four
  and shrinks, with keys that collide; zipmap lengths on both sides of the long
  form; five ziplist entries of four sizes, one of which (249 bytes) becomes long
  only when its own previous-length field is.
- `aof`: two databases, so that SELECT entries matter; two writes and two
  crashes (the second one finds a process that has read a torn, unsynced file, of
  which nothing is promised yet); a queue of two fsync jobs; the policies `always`
  and `everysec`; one child at a time that was killed and not waited for.
  `LossAtSwitch` is FALSE, which leaves out, for `always` only, a power loss in the
  middle of the switch of files.
- `vm`: two keys of one or two pages on two pages, so that a value may not fit;
  one thread; two jobs; one client that runs commands on one key and on two,
  beside SET, DEL and FLUSHDB.  `FlushWaiting`, `SwapWhileSaving` and `SeekFails`
  are FALSE: section 5 says what each does.  Keys are alike, and what is on a page nobody uses is left out of
  the comparison of states (`UsedPages`); the number of states varies a little, as
  what is chosen of several alike states does.
- `connections`: three connections over the run; output of one answer in the buffer,
  the rest in the list; two settings (`Settings`), one of which a behaviour has from
  its start.  In the first, two clients at once, so that a descriptor is reused, and
  three commands of any kind.  In the second, three clients at once and four
  commands that block and push: as many as a client needs to be woken, to wait again
  and to be woken a second time by the others.  There `waitsWoken` is FALSE, which is the
  hypothesis of `RegistriesAgree`: it cuts off the rounds in which a client that was
  woken and not yet resumed blocks again.  With two clients it is not needed,
  as the second wake needs a third.
  In both a client that was woken and waits again in the same round is not timed
  out in that round: the shortest timeout is a second, and a round is taken to be
  shorter.  Commands are bounded, so the run does not check for deadlock.

### Fairness

- `AppAlerts`: a call once entered runs on (weak fairness of each thread's
  steps).  No thread is made to call.
- `GridMonitor`: iOS schedules every runnable thread and drains the main queue.
  Nothing is assumed of UIKit, of the user or of the web services; a suspended
  process executes nothing.
- `FreqPipeline`: the two processes run; `GET` is asked again and again, which is
  the app polling; the sensor reports again and again (strong fairness, since
  log lines compete for the serial buffer); time passes.  Nothing is assumed of
  broken lines, saves, crashes, restarts or the clock being set back.
- `ReplicationMaster`: the child ends, `serverCron` reaps it, and a socket of a
  slave becomes writable.  Nothing is assumed of clients.
- `ReplicationSlave`: `replicationCron` runs (it is called every second by
  `serverCron`), a handler whose descriptor is ready is called, and a master that
  was asked answers.  Nothing is assumed of users, of the masters' writes or of
  the network, whose troubles are bounded in number.
- `AppendOnlyFile`: the event loop turns (`beforeSleep`), the cron runs
  (`cronFlush`), the fsync thread works.  Nothing is assumed of children or users.
- The other modules have safety properties only, and no fairness.

## 4. Proofs

Checked with TLAPS, for all values of the constants that satisfy the named
assumptions.

- **`AppAlertsProofs`**.  `TypesOfAlerts`; `NothingUnseenIsSuppressed`
  (`RememberedIsPresented`); `SettledForever` (`SettledIsSilent`).  The type
  invariant is strengthened by `InstanceKnown`: a caller about to return or to
  look something up has an instance, and what it stores is not nil.  From it,
  `RememberedIsPresented` is inductive: an identity enters a dictionary in the
  step that takes its caller to the presentation, and leaves that place only by
  being counted.  An allocation only empties a dictionary.
- **`GridMonitorProofs`**.  `TypesOfMonitor`, `SoleOwner`
  (`SoleMonitorOwnsPanel`), for any number of threads and any queue.
  `LifeCycle` is needed to know that a launch finds no thread alive.  The
  property is inductive relative to it; the proof has a lemma for each way a
  step can touch it: a step that changes neither flags nor memory (`QuietStep`),
  a start (`StartedHasNoOwner`: the only thread that can be alone is on its first
  run), a dispatch (`AppendedIsLastWord`), a delivery (`DeliveryKeepsLastWord`),
  and the end of another thread, which cannot make an owner while monitoring
  runs, as a thread ends only when it does not.
- **`ReplicationMasterProofs`**.  `TypesOfReplication` (`TypeOK`, which TLC does not
  check separately); `SlavesFollow`
  (`OnlineSlavesFollow`) under `Settings`: one database, as `redis.conf:17`
  configures, a fork that works and no SHUTDOWN that fails.  An online slave is
  not enough for an induction: `SyncInv` says of every slave on its way that the
  dataset it is going to be given, followed by its buffer, is the master's: that
  of the running child, that of `dump.rdb` once the child has ended, that of its
  open file.  It rests on lemmas about `Content`: appending a command to a
  stream and to the dataset keeps the two equal (`StreamAppend`), equality is
  kept by what is already in the buffer (`StreamFollows`), and a command that
  moves from the buffer to the peer changes nothing (`StreamMoves`).
  `LastPosition` (a nonempty set of positions has a greatest) is proved from the
  well-foundedness of `<`, with no induction over data.

- **`FreqPipelineProofs`**.  `NewestSecondIsServed` (`NewestSecondServed`), for
  any readings, clock and number of crashes.  While the clock was not set back,
  `OrderInv` says that the newest score in the set is the last stamp, and that the
  clock, and the second a reader took and is about to store, come after that and
  after every score of the dump, so that a restart between the two goes back to
  older readings only.  What ZREVRANGE
  returns is a CHOOSE in the model, so the proof first shows that there is
  something to choose (`Greatest`, `RevrangeFinds`), from the well-foundedness of
  `<`.
- **`AppendOnlyFileProofs`**.  `LogIsTheData` (`LogFollowsData`),
  `RewriteIsTheData` (`RewriteFollowsData`), `PromisesAreKept` (`KeepsPromises`)
  and `WritesComeFirst` (`RepliesFollowWrites`), for any commands, databases and
  queue of jobs.  The invariant has two layers.  `LogInv` is about the content:
  the database selected last in the file and in the child's stream is that of
  `seldb` (`SelectInv`), a process that ended has neither buffer nor child
  (`ProcessInv`), and file and buffer, and the rewritten file and its differences,
  replay to the dataset (`FileInv`).  `IInv` adds that the commands replied to are
  the beginning of what the next process will read (`PromiseInv`) and, with
  `appendfsync always`, that they are on the disk, with all that this process
  wrote (`SyncInv`).  Hypotheses: `~ResyncOnRewrite` for all four; `~ShutdownLate` and
  `~LossAtSwitch` for the last two: the code breaks the properties in the cases they
  exclude (section 5).
- **`ReplicationSlaveProofs`**.  `ThereIsOneLink` (`OneLink`) and
  `TheDataIsTheMasters` (`LinkedDataIsMasters`), for any masters, slaves,
  descriptors, parts of a dump and number of troubles.  The state of the link is
  a disjunction (`Linked`): unlinked, connecting, transferring (with the request
  unanswered, answered, or its dump half read), following; each case says which
  descriptors are open, with which handler, what they still hold, and of whom the
  dataset is.  `Served` says it of the slaves of the slave.  The handlers are
  functions of the server, so every one has a lemma (`syncWithMasterGood`,
  `readSyncBulkPayloadGood`, `slaveofCommandGood`, ...) that it takes a good server to a
  good one, and the steps of `Next` follow from these.  Hypothesis:
  `~SlaveofWhileConnecting`, the case of the violated run.

- **`ListServerProofs`**, for any clients, keys, commands and bounds.  `Typing`
  (`TypeOK`, which TLC does not check separately: no key holds an empty list);
  `AbortsHaveCauses` (`AbortHasACause`) and `TransactionsNeverBlock`
  (`ExecNeverBlocks`) without a hypothesis; `WatchersAreTold`
  (`WatchedChangeIsNoticed`) when no watched key is the target of a transfer or a
  rename; `NobodySleepsOnAList` (`NobodyWaitsForAvailable`) when no awaited key is
  one; `TheReplicaFollows` (`ReplicaFollows`) when, besides, no awaited key is
  pushed several elements at once.  The hypotheses leave out the three cases of
  section 5, in which the code breaks the properties; the settings of the `lists`
  run satisfy all of them.

  The commands are built from folds.  The module first shows what a fold is at
  each length (`FoldIs`, `FoldRuns`), from the well-foundedness of `<` applied to
  the indices at which a claim fails, so that every fold of the model has a lemma
  of its own by induction on the index (`WithoutRuns`, `OfferRuns`, `PushRuns`,
  `CallRuns`, ...).  A change of the server is then described by two relations.
  `Reaction` is what a command may do to the clients: wake them, mark those who
  watch, put its own caller to sleep unless a transaction is begun.  `Moves` adds
  the dataset: a key that changes has its watchers marked.  `Wakes` is about the
  queues: a key that gets a list, but by a transfer, has nobody left in its queue.
  `Moves` is transitive, each command is shown to be such a change (`PushIs`, `TransferIs`, `BlockingPopIs`, ...), and with that each command, and by
  induction each queue of commands that EXEC runs (`CallsAre`).  The step that
  needs most care is the journey of a pushed element (`JourneyIs`): the fold runs
  as often as there are clients, every round but the last ends the waiting of
  one, so when it is over the element is with a client or nobody waits.  For the
  slave, `ReplayIs` says that the command vector, as it was left by the command,
  does to the dataset without waiting clients what the command did to the dataset
  with them.  The inductive invariant `IInv` is the types, no empty list, and for
  each client that its abort flag has a cause and that it does not sleep inside a
  transaction (`Sound`); `Sleepers` and `Follows` are inductive relative to it.

- **`VirtualMemoryProofs`**, for any finite set of keys, any clients, values,
  commands and sizes of values, any number of pages, threads and jobs.
  `ValuesAreKept` (`ValuesSurvive`) under `~SeekFails`, whether values are swapped out
  beside a saving child or not; `SavedValuesAreKept` (`SavedValuesSurvive`) under
  `~SeekFails` and `~SwapWhileSaving`; `JobsAreMatched` (`JobsMatchKeys`) under
  `~SeekFails` and `~FlushWaiting`.  They leave out cases of section 5 in which the
  code breaks the properties, and the `vm` run satisfies them.  The assumption is that of the module: a value
  needs between one page and all of them, and there is a page and a thread.

  The bitmap of the pages is shared, so the invariant cannot be made of one key at
  a time.  `Good` says of each key that it is at rest and has no job, or has
  exactly one, queued, at work or done, that fits it: the work is still ahead
  (`Ahead`), or over and its result is where the main thread will look for it
  (`Over`); and that the pages marked in the bitmap are the disjoint sum of what
  the keys own (`Partition`), where a load that is under way still owns its
  pages.  `Kept` adds what a fork needs: a value that was on pages when the
  child was forked can still be read from them (`Saves`, under `~SwapWhileSaving`), and no
  swap by a thread, which could write one of them, is ahead while the child is alive
  (`Ahead`).  The operations of `vm.c` are functions
  of the server, and each has a lemma that it takes a good server to a good one
  (`LoadGood`, `UndoneGood` for a cancelled job, `ReplacedGood`, `FinishedGood`, ...).
  They rest on one, `KeyStep`: if an operation touches one key, its job and
  pages that nobody else owns, the other keys are as good as before.

  For the clients, `Sleeps` is inductive relative to `Kept`: who waits for a key
  and whom the key lists agree by number of occurrences (`Linked`), since a command
  may name a key twice; a client with a command to resume is ready exactly
  once or waits (`Called`); a key that lists somebody is being loaded (`Bring`).
  `HandleTells` follows `handleClientsBlockedOnSwappedKey` along its list.

Only model-checked: every liveness property; `Connections`, whose registries
agree only while no client that was woken waits again before it is resumed; `Dataset`, that is `KeySpace` with the
commands of three modules and two copies, where the argument of `ListServerProofs`
would have to be made for every command; and the data structures with the
refinements of `AbstractMap` and `AbstractList`: what a skip list or a ziplist
holds after any sequence of insertions is an induction over the encoding.

## 5. Disagreements with the code

One has a run that TLC finds violated and an entry in `findings`:

- `slave_switch` (`ReplicationSlave` with `SlaveofWhileConnecting`): SLAVEOF
  another master while the connection to the first is under way changes the host
  and leaves event and descriptor of the old connection in place
  (`replication.c:497`), so the link that comes up is to the first master, and
  the slave is not "a copy of another Redis server" that was asked for.

The others were met under further settings or definitions of the same modules,
which can be run as they are described here: each names the setting of the run's
configuration to change, or the property to check in place of the listed ones.
Where a passing run or a theorem has one of these settings FALSE, that is its
hypothesis, and the code does not keep the property without it.

The app and the pipeline:

- `GridMonitor`: `applicationWillResignActive:` pauses the monitor and only
  `applicationWillEnterForeground:` resumes it (`AppDelegate.m:64`): after an
  interruption that does not reach the background the app is active and does not
  monitor.  `ActiveAppMonitors` states the contrary, and is violated.
- `GridMonitor` with `IsPhone` FALSE: the error of the first monitor stays in the
  variable, so the answer of the second is thrown away (`GridMonitor.m:51`);
  `AnsweredIsKnown` is violated.
- `GridMonitor`: a pause and a resume within the second of sleep leave two
  threads running (`GridMonitor.m:123`); the properties hold with them.  A view
  that is unloaded and loaded again says "Checking" until the grid changes
  (`GridMonitor.m:99`); the properties of the panel are stated for launches
  without an unloading (`unloaded`).
- `AppAlerts`: two threads can both find an identity unknown, and show its alert
  twice (`Utilities.m:33`); two singletons can be allocated (`Utilities.m:24`).
  `SettledIsSilent` says what is left of the promise.
- `FreqPipeline` with `MaxJumps` 0 and `MaxCrashes` 0: `freqRead.py:18` ends on
  the empty line that `readline` returns after two silent seconds, and on any
  line that is not JSON; nothing starts it again and `/json` repeats its last
  answer for ever.  `AnswersConvergeDespiteNoise` is violated.

Replication and lists:

- `ReplicationMaster` with `ForkFails` TRUE and `DiskFails` FALSE: slaves waiting
  for a save to start are put in the next state before the fork
  (`replication.c:213`); if it fails nobody is freed, and the next save is sent
  to them with the older commands still in their buffers (`OnlineSlavesFollow`,
  and `SyncIsAnswered`, as no save need follow).
- `ReplicationMaster` with `ShutdownFails` and `DiskFails` TRUE, `MaxWrites` 2:
  a SHUTDOWN that cannot save kills the child and goes on; the exit status of a
  killed child is read as 0 (`rdb.c:1081`), so the slaves that waited for it are
  sent an old dump as if it were the new one.
- `ReplicationMaster` with `Dbs` {0, 1}: a slave that joins a save in progress
  has the buffer of another copied, and its `slaveseldb` set to 0
  (`replication.c:137`) although the copied stream may end in database 1.  The
  deployment configures one database.
- `ListServer` with a key in `WatchKeys` and `TargetKeys`: RPOPLPUSH, and
  BRPOPLPUSH with it, creates its destination without signalling it
  (`t_list.c:656`): a client that watches the missing key is not aborted
  (`WatchedChangeIsNoticed`).
- `ListServer` with a key in `BatchKeys` and `WaitKeys`: a push of several
  elements of which waiting clients take the first is propagated whole
  (`t_list.c:274`), and the slave keeps the elements that were taken
  (`ReplicaFollows`).
- `ListServer` with a key in `TargetKeys` and `WaitKeys`: what RPOPLPUSH moves to
  a key somebody waits on is taken by the waiting client, while the slave is
  sent the command as it came, or an LPUSH in its place (`ReplicaFollows`); and
  a RENAME onto a key that clients wait on wakes nobody
  (`NobodyWaitsForAvailable`).

Append only file:

- `AppendOnlyFile` with `ResyncOnRewrite` TRUE: a resynchronisation during a
  rewrite cannot start its own, which is ignored (`replication.c:352`): the file
  goes on with commands of the new dataset after those of the old
  (`LogFollowsData`).
- `AppendOnlyFile` with `ShutdownLate` TRUE: SHUTDOWN syncs the file without
  writing what is still in the buffer (`redis.c:1175`), which a put-off flush or
  a pipeline can have left there (`KeepsPromises`).
- `AppendOnlyFile` with `LossAtSwitch` TRUE: under `always` the rewritten file takes
  the name of the old one (`aof.c:826`) before it is synced (`aof.c:842`).  If the
  power goes in between, commands are lost that were replied to and synced to the
  old file (`KeepsPromises`).
- `AppendOnlyFile`: `stopAppendOnly` kills its child and then waits for any
  (`aof.c:33`): a child that was saving is reaped unnoticed, so that no save ever
  starts again, and the killed one is left to be taken for another.
  `ChildrenAreWaitedFor` states the contrary, and is violated.
- `AppendOnlyFile`: `startAppendOnly` that cannot start its rewrite closes the
  descriptor and keeps its number (`aof.c:53`), by which the end of a later rewrite
  takes the file for enabled.  `DescriptorMeansEnabled` is violated.
- CONFIG SET appendonly yes appends to the old file until the first rewrite is done
  (`aof.c:43`): a crash before that loads the old dataset with the new commands.  The
  properties promise nothing for that time (`whole`).  If the old file cannot be
  opened, `appendonly` stays on with the descriptor -1 (`aof.c:46`), and the first
  write to it ends the process; `RewriteFollowsData` is stated for an open one.
- Under `everysec` the last write may never be synced, as only a later write asks for
  it, and the time of the last sync is taken even when none was made; `acked` counts
  on no sync under that policy.  DEBUG LOADAOF, which loads a file whose buffer was
  not flushed, is not modelled.

Key space:

- `Dataset` with `DumpOfExpired` TRUE: a dump skips expired keys
  (`rdb.c:441`) also when it is made for a slave, which then has a
  key less than its master until the DEL (`SlaveFollows`).
- `Dataset` with `NoSortStored` TRUE: SORT BY nosort with STORE keeps the order
  of the hash table, which differs between servers (`SlaveFollows`).
- `MCDataset`: MOVE changes a key in two databases and signals neither (`db.c:394`):
  `EveryChangeIsSignalled` is violated, for the subject `keys`; `WatchersAreTold` is
  the property without MOVE.  MOVE drops the expire of the key, too.  No watcher is
  told of keys that expire (`cas.tcl:125` wants it so) or are evicted.
- `MCDataset`: a rewrite skips the EXPIREAT of a key that has expired and not the key
  (`aof.c:619`): whoever loads the file before the DEL of the key is in it keeps the
  key for ever.  `VolatileStaysVolatile` is violated, for the subject `keys`; it is the
  exception that `FileFollows` makes.
- An EXPIRE or PERSIST finds a key that has expired and gives it a new time, as
  it looks it up without expiring it; SORT with STORE and an empty result leaves
  the old destination; SORT converts the encoding of a sorted set that it only
  reads; HINCRBY stores a long field in a zipmap; a slave answers GET with the
  value of an expired key and hides it from KEYS, and RANDOMKEY on a slave whose
  keys have all expired does not end; a slave with `maxmemory` evicts on its own.

Structures, memory and connections:

- `MCStructures` with `ShrinkingInserts` TRUE: an insertion that makes a ziplist
  shorter, because the next entry gives up four bytes of its field, resizes first
  and moves afterwards, and loses the last bytes (`StructuresImplementMaps`).
- The comment at the head of `zipmap.c` gives other marks for long lengths than
  the code; the model has those of the code.
- `MCVirtualMemory` with `FlushWaiting` TRUE: FLUSHDB and FLUSHALL free keys that
  clients wait for and wake nobody, against the comment at `db.c:146`
  (`JobsMatchKeys`).
- `MCVirtualMemory` with `SwapWhileSaving` TRUE: DEBUG SWAPOUT and the load of a dump
  swap values out without asking `vmCanSwapOut` (`debug.c:292`; `rdb.c:1028` and 1045,
  which a slave that is resynchronised runs beside a child of its own), and overwrite
  pages that a saving child still reads (`SavedValuesSurvive`; `ValuesSurvive`
  holds).
- `MCVirtualMemory` with `SeekFails` TRUE: a failed seek or write marks the job
  cancelled in the thread (`vm.c:836`); its pages are never released, and a command
  that looks for a job to cancel in the meantime runs into the assertion of
  `vm.c:798`.  `CancelFindsItsJob` states the contrary, and is violated, as are
  `ValuesSurvive` and `JobsMatchKeys`.
- `MCConnections` with `waitsWoken` TRUE for three clients, and the kinds `blpop`,
  `push` and `kill`: a client that is woken, waits again and is woken a second time
  in the same round is twice in `unblocked_clients`, and `freeClient` takes it out
  once (`redis.c:735`), so that `beforeSleep` resumes a client that is gone.
  `RegistriesAgree` is violated, and so is `ResumedAreLive`, which says the latter.
- UNSUBSCRIBE without arguments by a client without subscriptions is not answered
  (`pubsub.c:143`); the model's UNSUBSCRIBE names its channel.

## 6. What is not modelled

- The memory safety of `NSMutableDictionary` and of unlocked globals in
  Objective-C: reads and writes are single steps.
- Presentation: layout, rotation, animation, sounds; the info page; the
  notification panel, whose timer and tap flag concern one view only.
- `freqServeTest.py`, run by hand.  The reminder and push scripts print and build
  values and keep none; the insert of `freqNotify.py` is commented out.
- Redis: the bytes of the protocol, of `dump.rdb` and of its compression; MONITOR;
  how many bytes of a bulk transfer have been sent; configuration, slow log,
  debug and memory reports; the command line tools; the string and list
  libraries.
- Commands that only read appear by what they do to the key space (expiry on
  access) or, for sorted sets, as the ranks and ranges of `SkipList`.
- A slave to which users write, and the race of a received dump with a child of
  the slave itself.
- The rounding of doubles and scores other than integers; keys of more than one type in one behaviour, beyond what the commands tell apart.
- The clock in `AppendOnlyFile`, `ReplicationSlave` and `Connections`: where the
  code compares times, both outcomes are possible.
- Vendored code: hiredis, linenoise, jemalloc, CrittercismSDK.

## 7. Plan

Done, in this order: `GridMonitor`, `AppAlerts`, `FreqPipeline`,
`ReplicationMaster`, `ListServer`; then `AppendOnlyFile`, the key space with its
commands and copies, the data structures with their abstract specifications,
`VirtualMemory`, `ReplicationSlave`, `Connections`.

Proved: what sections 2 and 4 list for `AppAlerts`, `GridMonitor`,
`ReplicationMaster`, `FreqPipeline`, `AppendOnlyFile`, `ReplicationSlave`,
`ListServer` and `VirtualMemory`.

Theorems to prove next, each after its inductive strengthening was checked as an
invariant:

1. `RegistriesAgree` of `Connections`, which says of a client which of the lists of
   the server it is in, under the hypothesis of its run (no
   client that was woken waits again before it is resumed); then `AnswersInOrder`.
2. The lemmas about folds of `ListServerProofs` applied to `KeySpace`, towards
   `SlaveFollows` of `Dataset`.

Modules to write after that: `ReplicationLink`, the master of `ReplicationMaster`
at the other end of `ReplicationSlave`; `EndToEnd`, `GridMonitor` reading what
`FreqPipeline` serves, so that the panel is stated to follow the sensor and not
an abstract grid; `NotificationPanel`.
