-------------------------- MODULE ReplicationMaster --------------------------
(***************************************************************************)
(* The master's side of Redis replication: replication.c (MASTER), with    *)
(* the background saves it rests on (rdb.c), the feeding of slaves by      *)
(* call() (redis.c) and the commands that end a save early.                *)
(*                                                                         *)
(* A dataset is the sequence of write commands that produced it; FLUSHALL  *)
(* is one of them and Content is what it leaves.  A command records the    *)
(* database it ran in.  The stream to a slave is cut in two: buf, the      *)
(* output buffer of the client, and copy, what the slave has executed;     *)
(* SELECT commands are not entries of the stream, an entry carries the     *)
(* database the slave runs it in, which is that of the last SELECT sent.   *)
(* The process is one thread: every handler is one step.  The saving child *)
(* is a process of its own.                                                *)
(***************************************************************************)
EXTENDS Naturals, Sequences

CONSTANTS Clients,       \* connections that may ask for SYNC
          Dbs,           \* databases that are written to
          MaxWrites,     \* bound on the write commands of a run
          NoDump,        \* there is no dump.rdb yet
          DiskFails,     \* a dump may fail to be written
          ForkFails,     \* fork() may fail
          HasSavePoints, \* server.saveparamslen > 0
          ShutdownFails  \* a SHUTDOWN may fail to save the dataset

ASSUME ReplicationMasterAssumption ==
  /\ Dbs \subseteq Nat /\ 0 \in Dbs
  /\ MaxWrites \in Nat
  /\ {DiskFails, ForkFails, HasSavePoints, ShutdownFails} \subseteq BOOLEAN

VARIABLES data,   \* the dataset in memory
          dump,   \* the dataset in dump.rdb
          child,  \* the process server.bgsavechildpid
          slave   \* slave[c]: the redisClient of connection c and its peer

vars == <<data, dump, child, slave>>

Flush == [id |-> 0, db |-> 0]
Command == [id : Nat, db : Dbs]

NoChild == [status |-> "none", snap |-> <<>>]

(* replstate, slaveseldb (seldb), the database the end of the stream is in   *)
(* (streamdb), the output buffer, the file repldbfd and the peer's dataset.  *)
NotSlave == [replstate |-> "none", seldb |-> 0, streamdb |-> 0, buf |-> <<>>,
             file |-> <<>>, copy |-> <<>>]

ReplStates == {"none", "wait_bgsave_start", "wait_bgsave_end", "send_bulk", "online"}

TypeOK ==
  /\ data \in Seq(Command)
  /\ dump \in Seq(Command) \cup {NoDump}
  /\ child \in [status : {"none", "running", "exited", "failed", "killed"},
                snap : Seq(Command)]
  /\ slave \in [Clients -> [replstate : ReplStates, seldb : Dbs, streamdb : Dbs,
                            buf : Seq(Command), file : Seq(Command),
                            copy : Seq(Command)]]

Init ==
  /\ data = <<>>
  /\ dump = NoDump
  /\ child = NoChild
  /\ slave = [c \in Clients |-> NotSlave]

Slaves == {c \in Clients : slave[c].replstate # "none"}
WaitingEnd == {c \in Clients : slave[c].replstate = "wait_bgsave_end"}

(* What a sequence of commands leaves: those after the last FLUSHALL.        *)
Content(log) ==
  LET flushes == {i \in 1..Len(log) : log[i].id = 0}
      last == CHOOSE i \in flushes : \A j \in flushes : j <= i
  IN  IF flushes = {} THEN log ELSE SubSeq(log, last + 1, Len(log))

-----------------------------------------------------------------------------
(* replicationFeedSlaves and rdbSaveBackground *)

(* The command cmd for one slave, after a SELECT if the slave's slaveseldb   *)
(* says that it is needed.                                                   *)
Feed(s, cmd) ==
  LET db == IF s.seldb = cmd.db THEN s.streamdb ELSE cmd.db
  IN  IF s.replstate \in {"none", "wait_bgsave_start"} THEN s
      ELSE [s EXCEPT !.seldb = cmd.db, !.streamdb = db,
                     !.buf = Append(@, [cmd EXCEPT !.db = db])]

FeedSlaves(cmd) == [c \in Clients |-> Feed(slave[c], cmd)]

ForkChild == [status |-> "running", snap |-> data]

(* BGSAVE, or a save point reached in serverCron.                            *)
rdbSaveBackground ==
  /\ child.status = "none"
  /\ child' = ForkChild
  /\ UNCHANGED <<data, dump, slave>>

(* rdbSave in the process itself: it may fail, and leaves dump.rdb then.     *)
rdbSave(dataset) == dump' = dataset \/ (DiskFails /\ UNCHANGED dump)

-----------------------------------------------------------------------------
(* Commands *)

(* call() of a write command in database d. *)
Write(d) ==
  /\ Len(data) < MaxWrites
  /\ LET cmd == [id |-> Len(data) + 1, db |-> d]
     IN  /\ data' = Append(data, cmd)
         /\ slave' = FeedSlaves(cmd)
  /\ UNCHANGED <<dump, child>>

(* kill(SIGKILL) of a child that is still running.                           *)
KillChild == child' = IF child.status = "running" THEN [child EXCEPT !.status = "killed"]
                                                  ELSE child

flushallCommand ==
  /\ Len(data) < MaxWrites
  /\ data' = Append(data, Flush)
  /\ KillChild
  /\ IF HasSavePoints THEN rdbSave(data') ELSE UNCHANGED dump
  /\ slave' = FeedSlaves(Flush)

saveCommand ==
  /\ child.status = "none"
  /\ rdbSave(data)
  /\ UNCHANGED <<data, child, slave>>

(* prepareForShutdown: the child is killed, then the dataset is saved; if    *)
(* that fails the server goes on, else it ends, and is started again.        *)
shutdownCommand ==
  \E saved \in BOOLEAN :
    /\ saved \/ (HasSavePoints /\ ShutdownFails)
    /\ IF saved
       THEN /\ dump' = IF HasSavePoints THEN data ELSE dump
            /\ data' = IF dump' = NoDump THEN <<>> ELSE dump'
            /\ child' = NoChild
            /\ slave' = [c \in Clients |-> NotSlave]
       ELSE /\ KillChild
            /\ UNCHANGED <<data, dump, slave>>

-----------------------------------------------------------------------------
(* SYNC *)

(* Mutation: the buffer of the slave that is already waiting is not copied.  *)
syncCommand_NoCopy(c) ==
  /\ slave[c].replstate = "none"
  /\ \/ /\ child.status # "none" /\ WaitingEnd # {}
        /\ slave' = [slave EXCEPT ![c] = [NotSlave EXCEPT !.replstate = "wait_bgsave_end"]]
        /\ UNCHANGED child
     \/ /\ child.status # "none" /\ WaitingEnd = {}
        /\ slave' = [slave EXCEPT ![c] = [NotSlave EXCEPT !.replstate = "wait_bgsave_start"]]
        /\ UNCHANGED child
     \/ /\ child.status = "none"
        /\ child' = ForkChild
        /\ slave' = [slave EXCEPT ![c] = [NotSlave EXCEPT !.replstate = "wait_bgsave_end"]]
  /\ UNCHANGED <<data, dump>>

(* A save in progress serves a new slave only if another slave has been      *)
(* registering the differences to it; its buffer is copied then.  The slave  *)
(* looked for is the first in server.slaves.                                 *)
syncCommand(c) ==
  /\ slave[c].replstate = "none"
  /\ \/ /\ child.status # "none"
        /\ \E s \in WaitingEnd :
             slave' = [slave EXCEPT ![c] =
               [NotSlave EXCEPT !.replstate = "wait_bgsave_end", !.buf = slave[s].buf,
                                !.streamdb = slave[s].streamdb]]
        /\ UNCHANGED child
     \/ /\ child.status # "none" /\ WaitingEnd = {}
        /\ slave' = [slave EXCEPT ![c] = [NotSlave EXCEPT !.replstate = "wait_bgsave_start"]]
        /\ UNCHANGED child
     \/ /\ child.status = "none"
        /\ child' = ForkChild
        /\ slave' = [slave EXCEPT ![c] = [NotSlave EXCEPT !.replstate = "wait_bgsave_end"]]
  /\ UNCHANGED <<data, dump>>

-----------------------------------------------------------------------------
(* The end of a save *)

(* The child has written its file and renamed it to dump.rdb; or has not.    *)
ChildExits ==
  /\ child.status = "running"
  /\ \/ /\ dump' = child.snap
        /\ child' = [child EXCEPT !.status = "exited"]
     \/ /\ DiskFails
        /\ child' = [child EXCEPT !.status = "failed"]
        /\ UNCHANGED dump
  /\ UNCHANGED <<data, slave>>

(* The slaves after updateSlavesWaitingBgsave(bgsaveerr): those that waited  *)
(* for this save are sent dump.rdb or freed, those that waited for a save to *)
(* start now wait for the end of the one that is started here.               *)
UpdatedSlaves(ok) == [c \in Clients |->
  CASE slave[c].replstate = "wait_bgsave_start" ->
         [slave[c] EXCEPT !.replstate = "wait_bgsave_end"]
    [] slave[c].replstate = "wait_bgsave_end" ->
         IF ok /\ dump # NoDump
         THEN [slave[c] EXCEPT !.replstate = "send_bulk", !.file = dump]
         ELSE NotSlave
    [] OTHER -> slave[c]]

StartBgsave == \E c \in Clients : slave[c].replstate = "wait_bgsave_start"

(* backgroundSaveDoneHandler: WEXITSTATUS of a killed child is 0, so only a  *)
(* child that exited with an error counts as failed.  When the new save      *)
(* cannot fork, nobody is in the state wait_bgsave_start any more and nobody *)
(* is freed.                                                                 *)
backgroundSaveDoneHandler ==
  /\ child.status \in {"exited", "failed", "killed"}
  /\ slave' = UpdatedSlaves(child.status # "failed")
  /\ \/ StartBgsave /\ child' = ForkChild
     \/ (~StartBgsave \/ ForkFails) /\ child' = NoChild
  /\ UNCHANGED <<data, dump>>

-----------------------------------------------------------------------------
(* The connections *)

(* Mutation: the write handler of the bulk transfer is never installed.      *)
sendBulkToSlave_Never(c) == FALSE /\ UNCHANGED vars

(* sendBulkToSlave, to the last byte: the slave has loaded the dump.         *)
sendBulkToSlave(c) ==
  /\ slave[c].replstate = "send_bulk"
  /\ slave' = [slave EXCEPT ![c] =
       [@ EXCEPT !.replstate = "online", !.copy = slave[c].file, !.file = <<>>]]
  /\ UNCHANGED <<data, dump, child>>

(* sendReplyToClient, and the slave executes what it receives.               *)
sendReplyToClient(c) ==
  /\ slave[c].replstate = "online" /\ slave[c].buf # <<>>
  /\ slave' = [slave EXCEPT ![c] =
       [@ EXCEPT !.copy = Append(slave[c].copy, Head(slave[c].buf)),
                 !.buf = Tail(slave[c].buf)]]
  /\ UNCHANGED <<data, dump, child>>

(* The connection is lost, in whatever state.                                *)
freeClient(c) ==
  /\ slave[c].replstate # "none"
  /\ slave' = [slave EXCEPT ![c] = NotSlave]
  /\ UNCHANGED <<data, dump, child>>

Next ==
  \/ \E d \in Dbs : Write(d)
  \/ flushallCommand \/ saveCommand \/ shutdownCommand
  \/ rdbSaveBackground \/ ChildExits \/ backgroundSaveDoneHandler
  \/ \E c \in Clients : syncCommand(c) \/ sendBulkToSlave(c)
                          \/ sendReplyToClient(c) \/ freeClient(c)

(* The child ends, serverCron reaps it, and sockets become writable.         *)
Fairness ==
  /\ WF_vars(ChildExits)
  /\ WF_vars(backgroundSaveDoneHandler)
  /\ \A c \in Clients : WF_vars(sendBulkToSlave(c)) /\ WF_vars(sendReplyToClient(c))

Spec == Init /\ [][Next]_vars /\ Fairness

-----------------------------------------------------------------------------
(* Properties *)

(* replication.tcl:152 "assert {$digest eq $digest0}": an online slave that  *)
(* has executed what is under way to it has the dataset of the master,       *)
(* however SYNCs, saves, FLUSHALLs and lost connections interleaved.  It     *)
(* needs one database, a fork() that works and no SHUTDOWN that fails.       *)
OnlineSlavesFollow == \A c \in Clients : slave[c].replstate = "online" =>
  Content(slave[c].copy \o slave[c].buf) = Content(data)

(* A slave that asked for SYNC comes online or learns that it failed: it is  *)
(* never left waiting for a save that nobody runs.                           *)
SyncIsAnswered == \A c \in Clients :
  slave[c].replstate \in {"wait_bgsave_start", "wait_bgsave_end", "send_bulk"}
     ~> slave[c].replstate \in {"online", "none"}
==============================================================================
