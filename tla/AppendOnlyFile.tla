--------------------------- MODULE AppendOnlyFile ---------------------------
(***************************************************************************)
(* The append only file of redis-server: aof.c, the background fsync of    *)
(* bio.c, the calls of redis.c (serverCron, beforeSleep, SHUTDOWN) and     *)
(* config.c that go through it, and redis-check-aof.                       *)
(*                                                                         *)
(* A dataset is the sequence of commands that made it, and so is a file: a *)
(* rewritten file is as good as the commands it stands for.  An entry of a *)
(* file carries the database it will be replayed in, which is that of the  *)
(* last SELECT written before it.  A transaction is one entry.             *)
(*                                                                         *)
(* The clock is left out: where the code compares seconds, both outcomes   *)
(* are possible.                                                           *)
(***************************************************************************)
EXTENDS Naturals, Sequences, SequencesExt

CONSTANTS Dbs,            \* databases
          MaxWrites,      \* bound on the write commands of a run
          MaxCrashes,     \* bound on the crashes of a run
          MaxJobs,        \* bound on the jobs of the fsync thread
          Policies,       \* values of appendfsync
          NoSyncOnRewrite,\* no-appendfsync-on-rewrite
          NoDb,           \* appendseldb == -1
          ShutdownLate,   \* SHUTDOWN may find commands in the buffer
          ResyncOnRewrite,\* a full resync may meet a rewrite in progress
          LossAtSwitch    \* with appendfsync always, the power may go between the
                          \* rename of a rewritten file and its fsync

ASSUME AppendOnlyAssumption ==
  /\ NoDb \notin Dbs /\ Dbs # {}
  /\ MaxWrites \in Nat /\ MaxCrashes \in Nat /\ MaxJobs \in Nat
  /\ Policies \subseteq {"always", "everysec", "no"}
  /\ {NoSyncOnRewrite, ShutdownLate, ResyncOnRewrite, LossAtSwitch} \subseteq BOOLEAN

VARIABLES
  data,      \* the dataset in memory
  server,    \* appendonly, appendfd, appendseldb, the scheduled rewrite, ...
  aofbuf,    \* server.aofbuf
  diff,      \* server.bgrewritebuf
  file,      \* appendonly.aof: its entries, how many are on the disk, torn end
  rewrite,   \* the process server.bgrewritechildpid and its file
  saving,    \* the process server.bgsavechildpid; "lost" when another was told
  jobs,      \* jobs of the fsync thread: for the current file or an old one
  crashes,
  loaded,    \* history: how many entries the process found in the file
  acked,     \* history: what was replied to, while the file was whole
  whole      \* history: the file is not one that appendonly yes was met with

vars == <<data, server, aofbuf, diff, file, rewrite, saving, jobs, crashes, loaded, acked,
          whole>>

Entry == [id : Nat, db : Dbs]
NoRewrite == [status |-> "none", snap |-> <<>>, db |-> CHOOSE d \in Dbs : TRUE]

(* A child that rewrites, and how it ends.                                   *)
Exits == {"none", "running", "done", "failed"}

TypeOK ==
  /\ data \in Seq(Entry)
  /\ server \in [status : {"up", "down"}, policy : Policies, appendonly : BOOLEAN,
                 appendfd : {"none", "open", "stale"}, seldb : Dbs \cup {NoDb},
                 streamdb : Dbs, scheduled : BOOLEAN, postponed : BOOLEAN,
                 stray : Exits]
  /\ aofbuf \in Seq(Entry) /\ diff \in Seq(Entry)
  /\ file \in [log : Seq(Entry), synced : Nat, torn : BOOLEAN]
  /\ rewrite \in [status : Exits, snap : Seq(Entry), db : Dbs]
  /\ saving \in {"none", "running", "done", "lost"}
  /\ jobs \in Seq({"current", "old"})
  /\ crashes \in 0..MaxCrashes
  /\ loaded \in Nat
  /\ acked \in Seq(Entry)
  /\ whole \in BOOLEAN
  /\ server.appendonly => server.appendfd # "stale"
  /\ rewrite.status = "none" => diff = <<>>

Fresh(policy) ==
  [status |-> "up", policy |-> policy, appendonly |-> TRUE, appendfd |-> "open",
   seldb |-> NoDb, streamdb |-> CHOOSE d \in Dbs : TRUE, scheduled |-> FALSE,
   postponed |-> FALSE, stray |-> "none"]

Init ==
  /\ \E policy \in Policies : server = Fresh(policy)
  /\ data = <<>> /\ aofbuf = <<>> /\ diff = <<>>
  /\ file = [log |-> <<>>, synced |-> 0, torn |-> FALSE]
  /\ rewrite = NoRewrite
  /\ saving = "none"
  /\ jobs = <<>>
  /\ crashes = 0 /\ loaded = 0
  /\ acked = <<>>
  /\ whole = TRUE

Up == server.status = "up"
NoChildren == rewrite.status = "none" /\ saving = "none"

(* The end of the process: everything in memory is gone.                     *)
Down ==
  /\ server' = [Fresh(server.policy) EXCEPT !.status = "down"]
  /\ data' = <<>> /\ aofbuf' = <<>> /\ diff' = <<>> /\ jobs' = <<>>
  /\ rewrite' = NoRewrite /\ saving' = "none"
  /\ loaded' = 0
  /\ UNCHANGED whole

-----------------------------------------------------------------------------
(* call() and feedAppendOnlyFile *)

(* An entry of a stream that ends in database `last`: it is preceded by a    *)
(* SELECT unless appendseldb says that the stream is in its database.        *)
EntryFor(cmd, last) == IF server.seldb = cmd.db THEN [cmd EXCEPT !.db = last] ELSE cmd

(* Mutation: the differences are kept only while the child runs.             *)
feedAppendOnlyFile_Running(cmd) ==
  /\ aofbuf' = Append(aofbuf, EntryFor(cmd, server.streamdb))
  /\ server' = [server EXCEPT !.seldb = cmd.db,
                              !.streamdb = EntryFor(cmd, server.streamdb).db]
  /\ IF rewrite.status # "running" THEN UNCHANGED <<diff, rewrite>>
     ELSE /\ diff' = Append(diff, EntryFor(cmd, rewrite.db))
          /\ rewrite' = [rewrite EXCEPT !.db = EntryFor(cmd, rewrite.db).db]

feedAppendOnlyFile(cmd) ==
  /\ aofbuf' = Append(aofbuf, EntryFor(cmd, server.streamdb))
  /\ server' = [server EXCEPT !.seldb = cmd.db,
                              !.streamdb = EntryFor(cmd, server.streamdb).db]
  /\ IF rewrite.status = "none" THEN UNCHANGED <<diff, rewrite>>
     ELSE /\ diff' = Append(diff, EntryFor(cmd, rewrite.db))
          /\ rewrite' = [rewrite EXCEPT !.db = EntryFor(cmd, rewrite.db).db]

Write(d) ==
  /\ Up /\ Len(data) < MaxWrites
  /\ LET cmd == [id |-> Len(data) + 1, db |-> d]
     IN  /\ data' = Append(data, cmd)
         /\ IF server.appendonly THEN feedAppendOnlyFile(cmd)
            ELSE UNCHANGED <<aofbuf, server, diff, rewrite>>
  /\ UNCHANGED <<file, saving, jobs, crashes, loaded, acked, whole>>

-----------------------------------------------------------------------------
(* flushAppendOnlyFile *)

Written == [file EXCEPT !.log = @ \o aofbuf]
Synced(f) == [f EXCEPT !.synced = Len(f.log)]

(* A flush may be put off while an fsync is under way, once it must be.      *)
MayPostpone == server.policy = "everysec" /\ jobs # <<>>

(* no-appendfsync-on-rewrite, while a child does I/O.                        *)
SyncSpared == NoSyncOnRewrite /\ ~NoChildren

(* The fsync that the policy asks for: at once, by the fsync thread if the   *)
(* second has changed and no job is pending, or none.                        *)
SyncIfNeeded(f) ==
  \/ /\ server.policy = "always" /\ ~SyncSpared
     /\ file' = Synced(f) /\ UNCHANGED jobs
  \/ /\ server.policy = "everysec" /\ ~SyncSpared /\ jobs = <<>>
     /\ file' = f /\ jobs' = <<"current">>
  \/ /\ server.policy # "always" \/ SyncSpared
     /\ file' = f /\ UNCHANGED jobs

FlushNow ==
  /\ server.appendfd # "none"
  /\ aofbuf' = <<>>
  /\ server' = [server EXCEPT !.postponed = FALSE]
  /\ SyncIfNeeded(Written)

(* Mutation: a flush that was put off is put off for ever.                   *)
flushAppendOnlyFile_Stuck ==
  \/ aofbuf = <<>> /\ UNCHANGED <<aofbuf, server, file, jobs>>
  \/ /\ aofbuf # <<>> /\ (MayPostpone \/ server.postponed)
     /\ server' = [server EXCEPT !.postponed = TRUE]
     /\ UNCHANGED <<aofbuf, file, jobs>>
  \/ aofbuf # <<>> /\ ~MayPostpone /\ ~server.postponed /\ FlushNow

(* Mutation: a flush is put off without noting that it was.                  *)
flushAppendOnlyFile_Forgotten ==
  \/ (aofbuf = <<>> \/ MayPostpone) /\ UNCHANGED <<aofbuf, server, file, jobs>>
  \/ aofbuf # <<>> /\ ~MayPostpone /\ FlushNow

(* flushAppendOnlyFile(0): put off again and again, for two seconds at most. *)
flushAppendOnlyFile ==
  \/ aofbuf = <<>> /\ UNCHANGED <<aofbuf, server, file, jobs>>
  \/ /\ aofbuf # <<>> /\ MayPostpone
     /\ server' = [server EXCEPT !.postponed = TRUE]
     /\ UNCHANGED <<aofbuf, file, jobs>>
  \/ /\ aofbuf # <<>> /\ (MayPostpone => server.postponed)
     /\ FlushNow

(* A write to the file that startAppendOnly could not open: exit(1).         *)
WriteExits ==
  /\ aofbuf # <<>> /\ server.appendfd = "none"
  /\ Down
  /\ UNCHANGED <<file, crashes, acked>>

(* The end of an iteration of the event loop; replies are sent in the next.  *)
(* There are none yet for what a new process has just read from its file.    *)
beforeSleep ==
  /\ Up
  /\ \/ /\ flushAppendOnlyFile
        /\ acked' = IF server.appendonly /\ whole /\ Len(data) > loaded THEN data ELSE acked
        /\ UNCHANGED <<data, diff, rewrite, saving, crashes, loaded, whole>>
     \/ (MayPostpone => server.postponed) /\ WriteExits

cronFlush ==
  /\ Up /\ server.postponed
  /\ \/ /\ flushAppendOnlyFile
        /\ UNCHANGED <<data, diff, rewrite, saving, crashes, loaded, acked, whole>>
     \/ WriteExits

(* The fsync thread: a job stays in the queue until it is done.              *)
bioProcessBackgroundJobs ==
  /\ jobs # <<>>
  /\ jobs' = Tail(jobs)
  /\ file' = IF Head(jobs) = "current" THEN Synced(file) ELSE file
  /\ UNCHANGED <<data, server, aofbuf, diff, rewrite, saving, crashes, loaded, acked, whole>>

-----------------------------------------------------------------------------
(* Rewriting in the background *)

(* rewriteAppendOnlyFileBackground, when fork() works; the rewritten file    *)
(* ends in whatever database was written last.                               *)
RewriteStarts(dataset) ==
  /\ rewrite.status = "none"
  /\ \E d \in Dbs : rewrite' = [status |-> "running", snap |-> dataset, db |-> d]

(* BGREWRITEAOF, and the growth that serverCron notices.  A fork() that      *)
(* fails changes nothing.                                                    *)
bgrewriteaofCommand ==
  /\ Up /\ rewrite.status = "none"
  /\ \/ /\ saving # "none"
        /\ server' = [server EXCEPT !.scheduled = TRUE]
        /\ UNCHANGED rewrite
     \/ /\ saving = "none"
        /\ RewriteStarts(data)
        /\ server' = [server EXCEPT !.scheduled = FALSE, !.seldb = NoDb]
  /\ UNCHANGED <<data, aofbuf, diff, file, saving, jobs, crashes, loaded, acked, whole>>

cronStartsScheduled ==
  /\ Up /\ server.scheduled /\ NoChildren
  /\ RewriteStarts(data)
  /\ server' = [server EXCEPT !.scheduled = FALSE, !.seldb = NoDb]
  /\ UNCHANGED <<data, aofbuf, diff, file, saving, jobs, crashes, loaded, acked, whole>>

(* rewriteAppendOnlyFile in the child.                                       *)
RewriteEnds ==
  /\ rewrite.status = "running"
  /\ \E status \in {"done", "failed"} : rewrite' = [rewrite EXCEPT !.status = status]
  /\ UNCHANGED <<data, server, aofbuf, diff, file, saving, jobs, crashes, loaded, acked, whole>>

Old(queue) == [i \in 1..Len(queue) |-> "old"]
Rewritten == [log |-> rewrite.snap \o diff, synced |-> Len(rewrite.snap), torn |-> FALSE]

(* Mutation: aofbuf is left to be written to the new file.                   *)
SwitchFile_KeepsBuffer(left) ==
  /\ server' = [server EXCEPT !.appendfd = "open", !.seldb = NoDb, !.streamdb = rewrite.db,
                              !.stray = left]
  /\ UNCHANGED aofbuf
  /\ file' = IF server.policy = "always" THEN Synced(Rewritten) ELSE Rewritten
  /\ jobs' = IF server.policy = "everysec" THEN Append(Old(jobs), "current") ELSE Old(jobs)

(* Mutation: the new file is not synced before it takes the old one's place. *)
SwitchFile_NoSync(left) ==
  /\ server' = [server EXCEPT !.appendfd = "open", !.seldb = NoDb, !.streamdb = rewrite.db,
                              !.stray = left]
  /\ aofbuf' = <<>>
  /\ file' = Rewritten
  /\ jobs' = Old(jobs)

(* The rewritten file takes the place of the old one, and of its buffer.     *)
SwitchFile(left) ==
  /\ server' = [server EXCEPT !.appendfd = "open", !.seldb = NoDb, !.streamdb = rewrite.db,
                              !.stray = left]
  /\ aofbuf' = <<>>
  /\ file' = IF server.policy = "always" THEN Synced(Rewritten) ELSE Rewritten
  /\ jobs' = IF server.policy = "everysec" THEN Append(Old(jobs), "current") ELSE Old(jobs)

(* The differences are written to the new file and the file is renamed; any  *)
(* of the steps may fail.  Without an append only file descriptor the server *)
(* goes on without one.  Which child ended is not asked: what it was told is *)
(* taken for the end of the rewrite in progress, whose file is there when it *)
(* is done; left is the child that nobody knows of after that.               *)
RewriteDone(exit, left) ==
  /\ Up /\ exit \in {"done", "failed"} /\ Len(jobs) < MaxJobs
  /\ \/ /\ exit = "done" /\ rewrite.status = "done" /\ server.appendfd # "none"
        /\ SwitchFile(left)
        /\ whole' = (whole \/ server.appendonly)
     \/ /\ exit = "done" /\ rewrite.status = "done" /\ server.appendfd = "none"
        /\ file' = Rewritten
        /\ server' = [server EXCEPT !.stray = left]
        /\ UNCHANGED <<aofbuf, jobs, whole>>
     \/ /\ server' = [server EXCEPT !.stray = left]
        /\ UNCHANGED <<aofbuf, file, jobs, whole>>
  /\ diff' = <<>>
  /\ rewrite' = NoRewrite
  /\ UNCHANGED <<data, saving, crashes, loaded, acked>>

backgroundRewriteDoneHandler == RewriteDone(rewrite.status, server.stray)

(* serverCron waits while it knows of a child, and takes any that is not the *)
(* one that saves for the one that rewrites.                                 *)
cronReapsStray == ~NoChildren /\ RewriteDone(server.stray, rewrite.status)

StrayEnds ==
  /\ server.stray = "running"
  /\ \E status \in {"done", "failed"} : server' = [server EXCEPT !.stray = status]
  /\ UNCHANGED <<data, aofbuf, diff, file, rewrite, saving, jobs, crashes, loaded, acked, whole>>

-----------------------------------------------------------------------------
(* Background saves, which schedule what they are in the way of *)

bgsaveCommand ==
  /\ Up /\ saving = "none"
  /\ saving' = "running"
  /\ UNCHANGED <<data, server, aofbuf, diff, file, rewrite, jobs, crashes, loaded, acked, whole>>

SaveEnds ==
  /\ saving = "running"
  /\ saving' = "done"
  /\ UNCHANGED <<data, server, aofbuf, diff, file, rewrite, jobs, crashes, loaded, acked, whole>>

cronReapsSave ==
  /\ Up /\ saving = "done"
  /\ saving' = "none"
  /\ UNCHANGED <<data, server, aofbuf, diff, file, rewrite, jobs, crashes, loaded, acked, whole>>

-----------------------------------------------------------------------------
(* CONFIG SET appendonly, and what else replaces a file or a dataset *)

(* A child that rewrites is killed, and wait3 waits for the first child that *)
(* has ended: that one, the one that saves, or one left from before.  Of a   *)
(* save that is told so, bgsavechildpid is never reset.  One child at most   *)
(* is left at a time.                                                        *)
KillRewrite(left) ==
  LET killed == IF rewrite.status = "running" THEN "failed" ELSE rewrite.status
  IN  \/ left = server.stray /\ UNCHANGED saving
      \/ /\ rewrite.status # "none" /\ left = killed
         /\ \/ saving = "done" /\ saving' = "lost" /\ server.stray = "none"
            \/ server.stray \in {"done", "failed"} /\ UNCHANGED saving

(* flushAppendOnlyFile(1), fsync, close.                                     *)
stopAppendOnly ==
  /\ Up /\ server.appendonly
  /\ \/ WriteExits
     \/ /\ server.appendfd = "none" => aofbuf = <<>>
        /\ file' = IF server.appendfd = "none" THEN file ELSE Synced(Written)
        /\ aofbuf' = <<>>
        /\ \E left \in Exits :
             /\ KillRewrite(left)
             /\ server' = [server EXCEPT !.appendonly = FALSE, !.appendfd = "none",
                                         !.seldb = NoDb, !.postponed = FALSE, !.stray = left]
        /\ \/ jobs' = Old(jobs)
           \/ server.policy = "everysec" /\ aofbuf # <<>> /\ jobs = <<>> /\ jobs' = <<"old">>
        /\ rewrite' = NoRewrite
        /\ diff' = IF rewrite.status = "none" THEN diff ELSE <<>>
        /\ acked' = <<>> /\ whole' = FALSE
        /\ UNCHANGED <<data, crashes, loaded>>

(* The old file is opened again and appended to until the rewrite ends.  If  *)
(* it cannot be opened, appendonly stays on without a descriptor; if the     *)
(* rewrite cannot start, the descriptor is closed but not forgotten.         *)
startAppendOnly ==
  /\ Up /\ ~server.appendonly
  /\ \/ /\ RewriteStarts(data)
        /\ server' = [server EXCEPT !.appendonly = TRUE, !.appendfd = "open", !.seldb = NoDb,
                                    !.scheduled = FALSE]
     \/ /\ server' = [server EXCEPT !.appendonly = TRUE, !.appendfd = "none"]
        /\ UNCHANGED rewrite
     \/ /\ server' = [server EXCEPT !.appendfd = "stale"]
        /\ UNCHANGED rewrite
  /\ UNCHANGED <<data, aofbuf, diff, file, saving, jobs, crashes, loaded, acked, whole>>

(* A slave has loaded the dataset of its master (readSyncBulkPayload); that  *)
(* the rewrite cannot start is not noticed.                                  *)
FullResync ==
  /\ Up /\ Len(data) < MaxWrites
  /\ rewrite.status # "none" => ResyncOnRewrite
  /\ \E d \in Dbs : data' = <<[id |-> Len(data) + 1, db |-> d]>>
  /\ \/ /\ server.appendonly /\ RewriteStarts(data')
        /\ server' = [server EXCEPT !.scheduled = FALSE, !.seldb = NoDb]
     \/ UNCHANGED <<server, rewrite>>
  /\ loaded' = 0 /\ acked' = <<>> /\ whole' = FALSE
  /\ UNCHANGED <<aofbuf, diff, file, saving, jobs, crashes>>

-----------------------------------------------------------------------------
(* The end of the process, and a new one *)

(* What is left of the promise when the first n entries are what counts.     *)
Among(n) == IF Len(acked) <= n THEN acked ELSE SubSeq(acked, 1, n)

(* prepareForShutdown: the file is synced; what the buffer holds is not      *)
(* written.  If the dump cannot be saved the server goes on without its      *)
(* children.                                                                 *)
shutdownCommand ==
  /\ Up /\ server.appendonly
  /\ aofbuf # <<>> => ShutdownLate
  /\ file' = IF server.appendfd = "none" THEN file ELSE Synced(file)
  /\ \/ /\ Down
        /\ UNCHANGED <<crashes, acked>>
     \/ /\ rewrite' = IF rewrite.status = "none" THEN rewrite
                      ELSE [rewrite EXCEPT !.status = IF @ = "running" THEN "failed" ELSE @]
        /\ saving' = IF saving = "running" THEN "done" ELSE saving
        /\ UNCHANGED <<data, server, aofbuf, diff, jobs, crashes, loaded, acked, whole>>

(* The process is killed: the file stays as it is.                           *)
Crash ==
  /\ Up /\ crashes < MaxCrashes
  /\ crashes' = crashes + 1
  /\ Down
  /\ UNCHANGED file
  /\ acked' = IF server.postponed THEN Among(Len(file.log)) ELSE acked

(* A write that fails, or is short, ends the process.                        *)
FlushFails ==
  /\ Up /\ crashes < MaxCrashes
  /\ crashes' = crashes + 1
  /\ aofbuf # <<>> /\ server.appendonly /\ server.appendfd = "open"
  /\ Down
  /\ \E n \in 0..Len(aofbuf) - 1, torn \in BOOLEAN :
       file' = [file EXCEPT !.log = @ \o SubSeq(aofbuf, 1, n), !.torn = torn]
  /\ acked' = IF server.postponed THEN Among(Len(file.log)) ELSE acked

(* The machine stops, with f for its file: what was not synced may be lost,  *)
(* from some point on.                                                       *)
LosePower(f) ==
  /\ Up /\ crashes < MaxCrashes
  /\ crashes' = crashes + 1
  /\ Down
  /\ \E n \in f.synced..Len(f.log) :
       \E torn \in {FALSE} \cup {n < Len(f.log)} :
         file' = [log |-> SubSeq(f.log, 1, n), synced |-> n, torn |-> torn]
  /\ acked' = IF server.policy = "always" /\ ~NoSyncOnRewrite THEN acked
              ELSE Among(Len(file'.log))

PowerLoss == LosePower(file)

(* backgroundRewriteDoneHandler renames the new file first and syncs it, or  *)
(* has it synced, after that.                                                *)
PowerLossInSwitch ==
  /\ rewrite.status = "done" /\ server.appendfd # "none" /\ Len(jobs) < MaxJobs
  /\ server.policy = "always" => LossAtSwitch
  /\ LosePower(Rewritten)

(* redis-check-aof --fix: the file is cut after its last whole entry.        *)
checkAofFix ==
  /\ ~Up /\ file.torn
  /\ file' = [file EXCEPT !.torn = FALSE]
  /\ UNCHANGED <<data, server, aofbuf, diff, rewrite, saving, jobs, crashes, loaded, acked, whole>>

(* main: a torn file is refused, any other is replayed.                      *)
loadAppendOnlyFile ==
  /\ ~Up /\ ~file.torn
  /\ data' = file.log /\ loaded' = Len(file.log)
  /\ server' = Fresh(server.policy)
  /\ whole' = TRUE
  /\ UNCHANGED <<aofbuf, diff, file, rewrite, saving, jobs, crashes, acked>>

Next ==
  \/ \E d \in Dbs : Write(d)
  \/ beforeSleep \/ cronFlush \/ bioProcessBackgroundJobs
  \/ bgrewriteaofCommand \/ cronStartsScheduled \/ RewriteEnds
  \/ backgroundRewriteDoneHandler \/ cronReapsStray \/ StrayEnds
  \/ bgsaveCommand \/ SaveEnds \/ cronReapsSave
  \/ stopAppendOnly \/ startAppendOnly \/ FullResync
  \/ shutdownCommand \/ Crash \/ FlushFails \/ PowerLoss \/ PowerLossInSwitch
  \/ checkAofFix \/ loadAppendOnlyFile

(* The event loop turns, serverCron runs, and the fsync thread works.        *)
Fairness ==
  /\ WF_vars(beforeSleep) /\ WF_vars(cronFlush) /\ WF_vars(bioProcessBackgroundJobs)

Spec == Init /\ [][Next]_vars /\ Fairness

-----------------------------------------------------------------------------
(* Properties *)

(* The file and the buffer that will be written to it replay to the dataset, *)
(* entry by entry and each in its database, through every rewrite, switch of *)
(* files and put-off flush (aof.c, "its contents was just written to the new *)
(* AOF from the background rewrite buffer").                                 *)
LogFollowsData == (Up /\ server.appendonly /\ whole) => file.log \o aofbuf = data

(* So do the file that a child writes and the differences kept for it        *)
(* (aof.c, "append the differences to the new append only file"), whatever   *)
(* other children end meanwhile, unless the old file could not be opened.    *)
RewriteFollowsData ==
  (Up /\ server.appendonly /\ server.appendfd = "open"
      /\ rewrite.status \in {"running", "done"})
     => rewrite.snap \o diff = data

(* A server that comes back has every command whose reply its policy stands  *)
(* by: all of them after a shutdown; after a crash those written; with       *)
(* appendfsync always those of a machine that lost its power as well.        *)
KeepsPromises == (Up /\ whole) => IsPrefix(acked, data)

(* A reply is sent only for a command that is in the file, unless its write  *)
(* was put off (aof.c:58 "we are required to write the AOF before replying   *)
(* to the client").                                                          *)
RepliesFollowWrites ==
  (Up /\ whole /\ server.appendonly /\ ~server.postponed) => Len(acked) <= Len(file.log)

(* A flush that was put off is made up for, whatever the disk does, unless   *)
(* the process ends.                                                         *)
PostponedIsWritten == (aofbuf # <<>>) ~> (aofbuf = <<>>)

(* The server goes by the descriptor: where there is one the append only     *)
(* file is enabled (aof.c, the comments of backgroundRewriteDoneHandler).    *)
DescriptorMeansEnabled == (Up /\ server.appendfd # "none") => server.appendonly

(* A child that stopAppendOnly kills is waited for, and so is each other     *)
(* (aof.c, "kill it, wait child exit").                                      *)
ChildrenAreWaitedFor == server.stray = "none" /\ saving # "lost"
=============================================================================
