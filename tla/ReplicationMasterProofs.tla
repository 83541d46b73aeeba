----------------------- MODULE ReplicationMasterProofs -----------------------
(***************************************************************************)
(* What holds of ReplicationMaster for any number of connections, any      *)
(* number of writes, failing disks or not, and with or without save points.*)
(***************************************************************************)
EXTENDS ReplicationMaster, Integers, SequenceTheorems, WellFoundedInduction, TLAPS

-----------------------------------------------------------------------------
(* Content: what a FLUSHALL leaves and how one more command changes it *)

(* A nonempty set of positions in a sequence has a greatest one: a minimum   *)
(* of the distances to the end.                                              *)
LEMMA LastPosition ==
  ASSUME NEW N \in Nat, NEW T \in SUBSET (1..N), T # {}
  PROVE  \E m \in T : \A j \in T : j <= m
<1> DEFINE Distances == {n \in Nat : \E m \in T : n = N - m}
           Less == OpToRel(<, Nat)
<1>1. Distances # {} /\ Distances \subseteq Nat
  <2>1. PICK m \in T : TRUE
    OBVIOUS
  <2>2. N - m \in Distances
    BY <2>1
  <2>3. QED
    BY <2>2
<1>2. \A x, y \in Nat : x < y => <<x, y>> \in Less
  BY DEF OpToRel
<1>3. IsWellFoundedOn(Less, Nat)
  BY NatLessThanWellFounded
<1>4. PICK x \in Distances : \A y \in Distances : ~(<<y, x>> \in Less)
  <2> HIDE DEF Distances, Less
  <2> QED BY <1>1, <1>3, WFMin
<1>5. PICK m \in T : x = N - m
  BY <1>4
<1>6. ASSUME NEW j \in T PROVE j <= m
  <2>1. N - j \in Distances /\ N - j \in Nat /\ x \in Nat
    OBVIOUS
  <2>2. ~(N - j < x)
    <3> HIDE DEF Less, Distances
    <3> QED BY <1>2, <1>4, <2>1
  <2>3. QED
    BY <1>5, <2>2
<1>7. QED
  BY <1>6

Flushes(log) == {i \in 1..Len(log) : log[i].id = 0}
LastOf(T) == CHOOSE i \in T : \A j \in T : j <= i

LEMMA ContentIs ==
  ASSUME NEW log
  PROVE  Content(log) = IF Flushes(log) = {} THEN log
                        ELSE SubSeq(log, LastOf(Flushes(log)) + 1, Len(log))
  BY DEF Content, Flushes, LastOf

LEMMA LastOfFlushes ==
  ASSUME NEW log \in Seq(Command), Flushes(log) # {}
  PROVE  /\ LastOf(Flushes(log)) \in Flushes(log)
         /\ \A j \in Flushes(log) : j <= LastOf(Flushes(log))
<1>1. Flushes(log) \in SUBSET (1..Len(log)) /\ Len(log) \in Nat
  BY DEF Flushes
<1>2. \E m \in Flushes(log) : \A j \in Flushes(log) : j <= m
  <2> HIDE DEF Flushes
  <2> QED BY <1>1, LastPosition
<1>3. QED
  BY <1>2 DEF LastOf

(* After a FLUSHALL nothing is left; any other command is added to what was. *)
LEMMA ContentOfAppend ==
  ASSUME NEW log \in Seq(Command), NEW cmd \in Command
  PROVE  Content(Append(log, cmd)) =
           IF cmd.id = 0 THEN <<>> ELSE Append(Content(log), cmd)
<1> DEFINE more == Append(log, cmd)
<1>1. /\ more \in Seq(Command) /\ Len(log) \in Nat /\ Len(more) = Len(log) + 1
      /\ \A i \in 1..Len(log) : more[i] = log[i]
      /\ more[Len(log) + 1] = cmd
  BY AppendProperties
<1> HIDE DEF more
<1>2. CASE cmd.id = 0
  <2>1. Len(more) \in Flushes(more)
    BY <1>1, <1>2 DEF Flushes
  <2>2. LastOf(Flushes(more)) = Len(more)
    <3>1. LastOf(Flushes(more)) \in 1..Len(more) /\ Len(more) <= LastOf(Flushes(more))
      BY <1>1, <2>1, LastOfFlushes DEF Flushes
    <3>2. QED
      BY <1>1, <3>1
  <2>3. Content(more) = SubSeq(more, Len(more) + 1, Len(more))
    BY <2>1, <2>2, ContentIs
  <2>4. QED
    BY <1>1, <1>2, <2>3, SubSeqEmpty DEF more
<1>3. CASE cmd.id # 0
  <2>1. Flushes(more) = Flushes(log)
    BY <1>1, <1>3 DEF Flushes
  <2>2. CASE Flushes(log) = {}
    BY <1>3, <2>1, <2>2, ContentIs DEF more
  <2>3. CASE Flushes(log) # {}
    <3> DEFINE k == LastOf(Flushes(log)) + 1
    <3>1. k \in 2..Len(log) + 1 /\ k \in 1..Len(more)
      BY <1>1, <2>3, LastOfFlushes DEF Flushes
    <3>2. Content(more) = SubSeq(more, k, Len(more)) /\ Content(log) = SubSeq(log, k, Len(log))
      BY <2>1, <2>3, ContentIs
    <3> HIDE DEF k
    <3>3. SubSeq(more, k, Len(more)) = SubSeq(more, k, Len(log)) \o <<cmd>>
      <4>1. Len(more) \in k..Len(more) /\ Len(more) - 1 = Len(log)
        BY <1>1, <3>1
      <4>2. SubSeq(more, k, Len(more))
              = SubSeq(more, k, Len(more) - 1) \o <<more[Len(more)]>>
        BY <1>1, <3>1, <4>1, SubSeqRecursiveSecond
      <4>3. QED
        BY <1>1, <4>1, <4>2
    <3>4. SubSeq(more, k, Len(log)) = SubSeq(log, k, Len(log))
      <4>1. \A i \in k..Len(log) : more[i] = log[i] /\ log[i] \in Command
        BY <1>1, <3>1, ElementOfSeq
      <4>2. /\ SubSeq(more, k, Len(log)) \in Seq(Command)
            /\ Len(SubSeq(more, k, Len(log))) = IF k <= Len(log) THEN Len(log) - k + 1 ELSE 0
            /\ \A i \in 1..Len(log) - k + 1 :
                 SubSeq(more, k, Len(log))[i] = more[k + i - 1]
        BY <1>1, <3>1, <4>1, SubSeqProperties
      <4>3. /\ SubSeq(log, k, Len(log)) \in Seq(Command)
            /\ Len(SubSeq(log, k, Len(log))) = IF k <= Len(log) THEN Len(log) - k + 1 ELSE 0
            /\ \A i \in 1..Len(log) - k + 1 :
                 SubSeq(log, k, Len(log))[i] = log[k + i - 1]
        BY <1>1, <3>1, <4>1, SubSeqProperties
      <4>4. \A i \in 1..Len(SubSeq(log, k, Len(log))) :
              SubSeq(more, k, Len(log))[i] = SubSeq(log, k, Len(log))[i]
        BY <1>1, <3>1, <4>1, <4>2, <4>3
      <4>5. QED
        BY <4>2, <4>3, <4>4, SeqEqual
    <3>5. SubSeq(log, k, Len(log)) \in Seq(Command)
      BY <1>1, <3>1, SubSeqProperties
    <3>6. SubSeq(log, k, Len(log)) \o <<cmd>> = Append(SubSeq(log, k, Len(log)), cmd)
      BY <3>5, AppendIsConcat
    <3>7. QED
      BY <1>3, <3>2, <3>3, <3>4, <3>6 DEF more
  <2>4. QED
    BY <2>2, <2>3
<1>4. QED
  BY <1>2, <1>3

-----------------------------------------------------------------------------
(* Types *)

SlaveState == [replstate : ReplStates, seldb : Dbs, streamdb : Dbs,
               buf : Seq(Command), file : Seq(Command), copy : Seq(Command)]
ChildState == [status : {"none", "running", "exited", "failed", "killed"},
               snap : Seq(Command)]

LEMMA TypeIs ==
  TypeOK <=> /\ data \in Seq(Command)
             /\ dump \in Seq(Command) \cup {NoDump}
             /\ child \in ChildState
             /\ slave \in [Clients -> SlaveState]
  BY DEF TypeOK, SlaveState, ChildState

LEMMA FlushIsCommand == Flush \in Command
  BY ReplicationMasterAssumption DEF Flush, Command

LEMMA NotSlaveType == NotSlave \in SlaveState
  BY ReplicationMasterAssumption DEF NotSlave, SlaveState, ReplStates

LEMMA NewSlaveType ==
  ASSUME NEW st \in ReplStates, NEW b \in Seq(Command), NEW d \in Dbs
  PROVE  /\ [NotSlave EXCEPT !.replstate = st] \in SlaveState
         /\ [NotSlave EXCEPT !.replstate = st, !.buf = b, !.streamdb = d] \in SlaveState
  BY NotSlaveType DEF SlaveState

LEMMA FeedType ==
  ASSUME NEW s \in SlaveState, NEW cmd \in Command
  PROVE  Feed(s, cmd) \in SlaveState
<1> DEFINE db == IF s.seldb = cmd.db THEN s.streamdb ELSE cmd.db
<1>1. db \in Dbs /\ cmd.db \in Dbs
  BY DEF SlaveState, Command
<1> HIDE DEF db
<1>2. [cmd EXCEPT !.db = db] \in Command
  BY <1>1 DEF Command
<1>3. Append(s.buf, [cmd EXCEPT !.db = db]) \in Seq(Command)
  BY <1>2 DEF SlaveState
<1>4. [s EXCEPT !.seldb = cmd.db, !.streamdb = db, !.buf = Append(s.buf, [cmd EXCEPT !.db = db])]
        \in SlaveState
  BY <1>1, <1>3 DEF SlaveState
<1>5. QED
  BY <1>4 DEF Feed, db

LEMMA KillChildType ==
  ASSUME child \in ChildState, KillChild
  PROVE  child' \in ChildState
  BY DEF ChildState, KillChild

LEMMA ForkChildType ==
  ASSUME data \in Seq(Command)
  PROVE  ForkChild \in ChildState /\ NoChild \in ChildState
  BY DEF ChildState, ForkChild, NoChild

LEMMA UpdatedType ==
  ASSUME TypeOK, NEW ok \in BOOLEAN
  PROVE  UpdatedSlaves(ok) \in [Clients -> SlaveState]
<1> SUFFICES ASSUME NEW c \in Clients PROVE UpdatedSlaves(ok)[c] \in SlaveState
  BY DEF UpdatedSlaves
<1>1. slave[c] \in SlaveState /\ dump \in Seq(Command) \cup {NoDump}
  BY TypeIs
<1>2. [slave[c] EXCEPT !.replstate = "wait_bgsave_end"] \in SlaveState
  BY <1>1 DEF SlaveState, ReplStates
<1>3. dump # NoDump => [slave[c] EXCEPT !.replstate = "send_bulk", !.file = dump] \in SlaveState
  BY <1>1 DEF SlaveState, ReplStates
<1>4. QED
  BY <1>1, <1>2, <1>3, NotSlaveType DEF UpdatedSlaves

LEMMA InitTypes == Init => TypeOK
<1> SUFFICES ASSUME Init PROVE TypeOK
  OBVIOUS
<1>1. slave \in [Clients -> SlaveState]
  BY NotSlaveType DEF Init
<1>2. QED
  BY <1>1, TypeIs, ForkChildType DEF Init

LEMMA NextTypes == TypeOK /\ [Next]_vars => TypeOK'
<1> SUFFICES ASSUME TypeOK, [Next]_vars PROVE TypeOK'
  OBVIOUS
<1>0. /\ data \in Seq(Command) /\ dump \in Seq(Command) \cup {NoDump}
      /\ child \in ChildState /\ slave \in [Clients -> SlaveState]
  BY TypeIs
<1>t. SUFFICES /\ data' \in Seq(Command) /\ dump' \in Seq(Command) \cup {NoDump}
               /\ child' \in ChildState /\ slave' \in [Clients -> SlaveState]
  BY DEF TypeOK, SlaveState, ChildState
<1>1. ASSUME NEW d \in Dbs, Write(d) PROVE <1>t!1
  <2> DEFINE cmd == [id |-> Len(data) + 1, db |-> d]
  <2>1. cmd \in Command
    BY <1>0 DEF Command
  <2> HIDE DEF cmd
  <2>2. FeedSlaves(cmd) \in [Clients -> SlaveState]
    BY <1>0, <2>1, FeedType DEF FeedSlaves
  <2>3. data' = Append(data, cmd) /\ slave' = FeedSlaves(cmd) /\ UNCHANGED <<dump, child>>
    BY <1>1 DEF Write, cmd
  <2>4. QED
    BY <1>0, <2>1, <2>2, <2>3
<1>2. ASSUME flushallCommand PROVE <1>t!1
  <2>1. FeedSlaves(Flush) \in [Clients -> SlaveState]
    BY <1>0, FlushIsCommand, FeedType DEF FeedSlaves
  <2>2. data' \in Seq(Command)
    BY <1>0, <1>2, FlushIsCommand DEF flushallCommand
  <2>3. child' \in ChildState
    BY <1>0, <1>2, KillChildType DEF flushallCommand
  <2>4. dump' \in Seq(Command) \cup {NoDump}
    BY <1>0, <1>2, <2>2 DEF flushallCommand, rdbSave
  <2>5. QED
    BY <1>2, <2>1, <2>2, <2>3, <2>4 DEF flushallCommand
<1>3. ASSUME saveCommand PROVE <1>t!1
  BY <1>0, <1>3 DEF saveCommand, rdbSave
<1>4. ASSUME shutdownCommand PROVE <1>t!1
  <2>1. KillChild => child' \in ChildState
    BY <1>0, KillChildType
  <2>2. [c \in Clients |-> NotSlave] \in [Clients -> SlaveState]
    BY NotSlaveType
  <2>3. PICK saved \in BOOLEAN : shutdownCommand!(saved)
    BY <1>4 DEF shutdownCommand
  <2>4. CASE saved
    <3>1. /\ dump' = data \/ dump' = dump
          /\ data' = <<>> \/ (data' = dump' /\ dump' # NoDump)
          /\ child' = NoChild /\ slave' = [c \in Clients |-> NotSlave]
      BY <2>3, <2>4
    <3>2. <<>> \in Seq(Command)
      OBVIOUS
    <3>3. dump' \in Seq(Command) \cup {NoDump}
      BY <1>0, <3>1
    <3>4. QED
      BY <1>0, <2>2, <3>1, <3>2, <3>3, ForkChildType
  <2>5. CASE ~saved
    BY <1>0, <2>1, <2>3, <2>5
  <2>6. QED
    BY <2>4, <2>5
<1>5. ASSUME rdbSaveBackground PROVE <1>t!1
  BY <1>0, <1>5, ForkChildType DEF rdbSaveBackground
<1>6. ASSUME ChildExits PROVE <1>t!1
  BY <1>0, <1>6 DEF ChildExits, ChildState
<1>7. ASSUME backgroundSaveDoneHandler PROVE <1>t!1
  BY <1>0, <1>7, ForkChildType, UpdatedType DEF backgroundSaveDoneHandler
<1>8. ASSUME NEW c \in Clients, syncCommand(c) PROVE <1>t!1
  <2>1. UNCHANGED <<data, dump>> /\ child' \in ChildState
    BY <1>0, <1>8, ForkChildType DEF syncCommand
  <2>2. \A s \in Clients : slave[s].buf \in Seq(Command) /\ slave[s].streamdb \in Dbs
    BY <1>0 DEF SlaveState
  <2>3. PICK r \in SlaveState : slave' = [slave EXCEPT ![c] = r]
    BY <1>8, <2>2, NewSlaveType DEF syncCommand, ReplStates, WaitingEnd
  <2>4. QED
    BY <1>0, <2>1, <2>3
<1>9. ASSUME NEW c \in Clients, sendBulkToSlave(c) PROVE <1>t!1
  <2>1. slave[c] \in SlaveState
    BY <1>0
  <2>2. [slave[c] EXCEPT !.replstate = "online", !.copy = slave[c].file, !.file = <<>>] \in SlaveState
    <3>1. slave[c].file \in Seq(Command) /\ <<>> \in Seq(Command)
      BY <2>1 DEF SlaveState
    <3> QED
      BY <2>1, <3>1 DEF SlaveState, ReplStates
  <2>3. QED
    BY <1>0, <1>9, <2>2 DEF sendBulkToSlave
<1>10. ASSUME NEW c \in Clients, sendReplyToClient(c) PROVE <1>t!1
  <2>1. slave[c] \in SlaveState /\ slave[c].buf # <<>>
    BY <1>0, <1>10 DEF sendReplyToClient
  <2>2. slave[c].copy \in Seq(Command) /\ slave[c].buf \in Seq(Command)
    BY <2>1 DEF SlaveState
  <2>3. Append(slave[c].copy, Head(slave[c].buf)) \in Seq(Command) /\ Tail(slave[c].buf) \in Seq(Command)
    BY <2>1, <2>2, HeadTailProperties, AppendProperties
  <2>4. [slave[c] EXCEPT !.copy = Append(slave[c].copy, Head(slave[c].buf)),
                         !.buf = Tail(slave[c].buf)] \in SlaveState
    BY <2>1, <2>3 DEF SlaveState
  <2>5. QED
    BY <1>0, <1>10, <2>4 DEF sendReplyToClient
<1>11. ASSUME NEW c \in Clients, freeClient(c) PROVE <1>t!1
  BY <1>0, <1>11, NotSlaveType DEF freeClient
<1>12. ASSUME UNCHANGED vars PROVE <1>t!1
  BY <1>0, <1>12 DEF vars
<1>13. QED
  BY <1>1, <1>2, <1>3, <1>4, <1>5, <1>6, <1>7, <1>8, <1>9, <1>10, <1>11, <1>12 DEF Next

(* Every dataset, dump and stream is a sequence of commands, in whatever way *)
(* slaves, saves and commands interleave.                                    *)
THEOREM TypesOfReplication == Spec => []TypeOK
  BY InitTypes, NextTypes, PTL DEF Spec

-----------------------------------------------------------------------------
(* Streams: what sending and receiving do to a dataset and its stream *)

LEMMA StreamAppend ==
  ASSUME NEW s \in Seq(Command), NEW buf \in Seq(Command), NEW cmd \in Command
  PROVE  Content(s \o Append(buf, cmd)) =
           IF cmd.id = 0 THEN <<>> ELSE Append(Content(s \o buf), cmd)
<1>1. s \o Append(buf, cmd) = Append(s \o buf, cmd)
  <2>1. <<cmd>> \in Seq(Command) /\ s \o buf \in Seq(Command)
    BY ConcatProperties
  <2>2. s \o Append(buf, cmd) = s \o (buf \o <<cmd>>)
    BY AppendIsConcat
  <2>3. s \o (buf \o <<cmd>>) = (s \o buf) \o <<cmd>>
    BY <2>1, ConcatAssociative
  <2>4. QED
    BY <2>1, <2>2, <2>3, AppendIsConcat
<1>2. s \o buf \in Seq(Command)
  BY ConcatProperties
<1>3. QED
  BY <1>1, <1>2, ContentOfAppend

(* The same command at the end of the dataset and of the stream.             *)
LEMMA StreamFollows ==
  ASSUME NEW s \in Seq(Command), NEW buf \in Seq(Command), NEW d \in Seq(Command),
         NEW cmd \in Command, cmd.id = 0 \/ Content(s \o buf) = Content(d)
  PROVE  Content(s \o Append(buf, cmd)) = Content(Append(d, cmd))
<1>1. Content(s \o Append(buf, cmd)) = IF cmd.id = 0 THEN <<>> ELSE Append(Content(s \o buf), cmd)
  BY StreamAppend
<1>2. Content(Append(d, cmd)) = IF cmd.id = 0 THEN <<>> ELSE Append(Content(d), cmd)
  BY ContentOfAppend
<1>3. QED
  BY <1>1, <1>2

(* Executing the head of the stream moves it, and the whole is the same.     *)
LEMMA StreamMoves ==
  ASSUME NEW copy \in Seq(Command), NEW buf \in Seq(Command), buf # <<>>
  PROVE  Append(copy, Head(buf)) \o Tail(buf) = copy \o buf
<1>1. /\ Head(buf) \in Command /\ Tail(buf) \in Seq(Command)
      /\ <<Head(buf)>> \in Seq(Command)
  BY HeadTailProperties
<1>2. buf = <<Head(buf)>> \o Tail(buf)
  <2>1. /\ Len(Tail(buf)) = Len(buf) - 1 /\ Len(buf) \in Nat \ {0}
        /\ \A i \in 1..Len(Tail(buf)) : Tail(buf)[i] = buf[i + 1]
    BY HeadTailProperties, EmptySeq
  <2> DEFINE t == <<Head(buf)>> \o Tail(buf)
  <2>2. /\ t \in Seq(Command) /\ Len(t) = 1 + Len(Tail(buf))
        /\ \A i \in 1..1 + Len(Tail(buf)) :
             t[i] = IF i <= 1 THEN Head(buf) ELSE Tail(buf)[i - 1]
    BY <1>1, ConcatProperties
  <2>3. Head(buf) = buf[1]
    OBVIOUS
  <2>4. \A i \in 1..Len(buf) : t[i] = buf[i]
    <3> HIDE DEF t
    <3> SUFFICES ASSUME NEW i \in 1..Len(buf) PROVE t[i] = buf[i]
      OBVIOUS
    <3>1. CASE i = 1
      BY <2>1, <2>2, <2>3, <3>1
    <3>2. CASE i # 1
      <4>1. i - 1 \in 1..Len(Tail(buf)) /\ i \in 1..1 + Len(Tail(buf)) /\ ~(i <= 1)
        BY <2>1, <3>2
      <4>2. t[i] = Tail(buf)[i - 1] /\ Tail(buf)[i - 1] = buf[(i - 1) + 1]
        BY <2>1, <2>2, <4>1
      <4>3. (i - 1) + 1 = i
        OBVIOUS
      <4>4. QED
        BY <4>2, <4>3
    <3>3. QED
      BY <3>1, <3>2
  <2>5. QED
    <3> HIDE DEF t
    <3>1. t = buf
      BY <2>1, <2>2, <2>4, SeqEqual
    <3>2. QED
      BY <3>1 DEF t
<1>3. Append(copy, Head(buf)) = copy \o <<Head(buf)>>
  BY <1>1, AppendIsConcat
<1>4. (copy \o <<Head(buf)>>) \o Tail(buf) = copy \o (<<Head(buf)>> \o Tail(buf))
  BY <1>1, ConcatAssociative
<1>5. QED
  BY <1>2, <1>3, <1>4

-----------------------------------------------------------------------------
(* Synchronised slaves *)

(* The settings under which slaves follow: one database (redis.conf:17), a   *)
(* fork() that works, and no SHUTDOWN that fails to save.                    *)
Settings == Dbs = {0} /\ ~ForkFails /\ ~ShutdownFails

(* Of a slave that waits for a save: the dataset of that save and the        *)
(* commands sent since make up the dataset of the master, be it the snapshot *)
(* of the running child or, once it ended, what dump.rdb now holds.  Of one  *)
(* whose save has not started: it has been sent nothing.                     *)
Synced(s) ==
  /\ s.replstate = "wait_bgsave_start" => child.status # "none" /\ s.buf = <<>>
  /\ s.replstate = "wait_bgsave_end" =>
       /\ child.status # "none"
       /\ child.status = "running" => Content(child.snap \o s.buf) = Content(data)
       /\ (child.status \in {"exited", "killed"} /\ dump # NoDump)
            => Content(dump \o s.buf) = Content(data)
  /\ s.replstate = "send_bulk" => Content(s.file \o s.buf) = Content(data)
  /\ s.replstate = "online" => Content(s.copy \o s.buf) = Content(data)

SyncInv == \A c \in Clients : Synced(slave[c])

LEMMA SyncedFollow == SyncInv => OnlineSlavesFollow
  BY DEF SyncInv, Synced, OnlineSlavesFollow

LEMMA NotSlaveSynced == Synced(NotSlave)
  BY DEF Synced, NotSlave

LEMMA InitSync == Init => SyncInv
<1> SUFFICES ASSUME Init, NEW c \in Clients PROVE Synced(slave[c])
  BY DEF SyncInv
<1>1. slave[c] = NotSlave
  BY DEF Init
<1>2. QED
  BY <1>1, NotSlaveSynced

(* With one database a command is fed as it is.                              *)
LEMMA FeedIs ==
  ASSUME Settings, NEW s \in SlaveState, NEW cmd \in Command
  PROVE  /\ Feed(s, cmd).replstate = s.replstate
         /\ Feed(s, cmd).file = s.file
         /\ Feed(s, cmd).copy = s.copy
         /\ Feed(s, cmd).buf = IF s.replstate \in {"none", "wait_bgsave_start"} THEN s.buf
                                                                       ELSE Append(s.buf, cmd)
<1>1. s.seldb = 0 /\ s.streamdb = 0 /\ cmd.db = 0
  BY DEF Settings, SlaveState, Command
<1>2. [cmd EXCEPT !.db = 0] = cmd
  BY <1>1 DEF Command
<1> DEFINE fed == [s EXCEPT !.seldb = 0, !.streamdb = 0, !.buf = Append(s.buf, cmd)]
<1>3. /\ fed.replstate = s.replstate /\ fed.file = s.file /\ fed.copy = s.copy
      /\ fed.buf = Append(s.buf, cmd)
  BY DEF SlaveState
<1>4. Feed(s, cmd) = IF s.replstate \in {"none", "wait_bgsave_start"} THEN s ELSE fed
  BY <1>1, <1>2 DEF Feed
<1>5. QED
  BY <1>3, <1>4

(* A write in the dataset and in the streams keeps a slave synchronised, if  *)
(* the child goes on or, at a FLUSHALL, is killed and dump.rdb perhaps       *)
(* replaced.                                                                 *)
LEMMA FeedSynced ==
  ASSUME TypeOK, TypeOK', SyncInv, Settings, NEW cmd \in Command,
         data' = Append(data, cmd), slave' = FeedSlaves(cmd),
         \/ UNCHANGED <<dump, child>>
         \/ cmd.id = 0 /\ KillChild
  PROVE  SyncInv'
<1> SUFFICES ASSUME NEW c \in Clients PROVE Synced(slave[c])'
  BY DEF SyncInv
<1> DEFINE s == slave[c]
           t == slave'[c]
<1>1. /\ s \in SlaveState /\ s.buf \in Seq(Command) /\ s.file \in Seq(Command)
      /\ s.copy \in Seq(Command) /\ data \in Seq(Command)
      /\ child.snap \in Seq(Command) /\ child \in ChildState
      /\ dump \in Seq(Command) \cup {NoDump} /\ dump' \in Seq(Command) \cup {NoDump}
  BY TypeIs DEF TypeOK, SlaveState, ChildState
<1>2. t = Feed(s, cmd)
  BY DEF FeedSlaves
<1>3. /\ t.replstate = s.replstate /\ t.file = s.file /\ t.copy = s.copy
      /\ t.buf = IF s.replstate \in {"none", "wait_bgsave_start"} THEN s.buf
                                                           ELSE Append(s.buf, cmd)
  BY <1>1, <1>2, FeedIs
<1>4. Synced(s)
  BY DEF SyncInv
<1>5. child.status # "none" => child'.status # "none"
  BY <1>1 DEF KillChild, ChildState
<1> HIDE DEF s, t
<1>6. s.replstate = "wait_bgsave_start" => child'.status # "none" /\ t.buf = <<>>
  BY <1>3, <1>4, <1>5 DEF Synced
<1>7. s.replstate = "send_bulk" => Content(t.file \o t.buf) = Content(data')
  <2>1. s.replstate = "send_bulk" => Content(s.file \o s.buf) = Content(data)
    BY <1>4 DEF Synced
  <2>2. QED
    BY <1>1, <1>3, <2>1, StreamFollows
<1>8. s.replstate = "online" => Content(t.copy \o t.buf) = Content(data')
  <2>1. s.replstate = "online" => Content(s.copy \o s.buf) = Content(data)
    BY <1>4 DEF Synced
  <2>2. QED
    BY <1>1, <1>3, <2>1, StreamFollows
<1>9. ASSUME s.replstate = "wait_bgsave_end"
      PROVE  /\ child'.status # "none"
             /\ child'.status = "running" => Content(child'.snap \o t.buf) = Content(data')
             /\ (child'.status \in {"exited", "killed"} /\ dump' # NoDump)
                  => Content(dump' \o t.buf) = Content(data')
  <2>1. t.buf = Append(s.buf, cmd) /\ child.status # "none"
    BY <1>3, <1>4, <1>9 DEF Synced
  <2>2. CASE UNCHANGED <<dump, child>>
    <3>1. child.status = "running" => Content(child.snap \o s.buf) = Content(data)
      BY <1>4, <1>9 DEF Synced
    <3>2. (child.status \in {"exited", "killed"} /\ dump # NoDump)
             => Content(dump \o s.buf) = Content(data)
      BY <1>4, <1>9 DEF Synced
    <3>3. child.status = "running" => Content(child.snap \o Append(s.buf, cmd)) = Content(Append(data, cmd))
      BY <1>1, <3>1, StreamFollows
    <3>4. (child.status \in {"exited", "killed"} /\ dump # NoDump)
             => Content(dump \o Append(s.buf, cmd)) = Content(Append(data, cmd))
      BY <1>1, <3>2, StreamFollows
    <3>5. QED
      BY <2>1, <2>2, <3>3, <3>4
  <2>3. CASE cmd.id = 0 /\ KillChild
    <3>1. child'.status # "running"
      BY <1>1, <2>3 DEF KillChild, ChildState
    <3>2. dump' # NoDump => Content(dump' \o Append(s.buf, cmd)) = Content(Append(data, cmd))
      BY <1>1, <2>3, StreamFollows
    <3>3. QED
      BY <1>5, <2>1, <3>1, <3>2
  <2>4. QED
    BY <2>2, <2>3
<1>10. QED
  BY <1>3, <1>6, <1>7, <1>8, <1>9 DEF Synced, t

(* A slave that waits for nothing does not depend on the child and the dump. *)
LEMMA NotWaitingSynced ==
  ASSUME NEW s, Synced(s), s.replstate \notin {"wait_bgsave_start", "wait_bgsave_end"},
         UNCHANGED data
  PROVE  Synced(s)'
  BY DEF Synced

LEMMA NobodyWaits ==
  ASSUME SyncInv, child.status = "none", NEW c \in Clients
  PROVE  slave[c].replstate \notin {"wait_bgsave_start", "wait_bgsave_end"}
  BY DEF SyncInv, Synced

(* The dataset is the stream of a child that has just been forked.           *)
LEMMA ForkedSynced ==
  ASSUME TypeOK, child' = ForkChild, UNCHANGED data, NEW s,
         s.replstate = "wait_bgsave_end", s.buf = <<>>
  PROVE  Synced(s)'
<1>1. data \o <<>> = data
  BY TypeIs, ConcatEmptySeq
<1>2. child'.status = "running" /\ child'.snap = data
  BY DEF ForkChild
<1>3. QED
  BY <1>1, <1>2 DEF Synced

LEMMA SyncCommandSynced ==
  ASSUME TypeOK, SyncInv, NEW c \in Clients, syncCommand(c)
  PROVE  SyncInv'
<1> SUFFICES ASSUME NEW x \in Clients PROVE Synced(slave[x])'
  BY DEF SyncInv
<1>0. Synced(slave[x]) /\ UNCHANGED <<data, dump>> /\ slave \in [Clients -> SlaveState]
  BY TypeIs DEF SyncInv, syncCommand
<1>1. ASSUME child.status # "none", NEW s \in WaitingEnd, UNCHANGED child,
             slave' = [slave EXCEPT ![c] =
               [NotSlave EXCEPT !.replstate = "wait_bgsave_end", !.buf = slave[s].buf,
                                !.streamdb = slave[s].streamdb]]
      PROVE  Synced(slave[x])'
  <2>1. CASE x = c
    <3>1. slave'[x].replstate = "wait_bgsave_end" /\ slave'[x].buf = slave[s].buf
      BY <1>0, <1>1, <2>1 DEF NotSlave
    <3>2. Synced(slave[s]) /\ slave[s].replstate = "wait_bgsave_end"
      BY <1>1 DEF SyncInv, WaitingEnd
    <3>3. QED
      BY <1>0, <1>1, <3>1, <3>2 DEF Synced
  <2>2. CASE x # c
    BY <1>0, <1>1, <2>2 DEF Synced
  <2>3. QED
    BY <2>1, <2>2
<1>2. ASSUME child.status # "none", UNCHANGED child,
             slave' = [slave EXCEPT ![c] = [NotSlave EXCEPT !.replstate = "wait_bgsave_start"]]
      PROVE  Synced(slave[x])'
  <2>1. CASE x = c
    <3>1. slave'[x].replstate = "wait_bgsave_start" /\ slave'[x].buf = <<>>
      BY <1>0, <1>2, <2>1 DEF NotSlave
    <3>2. QED
      BY <1>2, <3>1 DEF Synced
  <2>2. CASE x # c
    BY <1>0, <1>2, <2>2 DEF Synced
  <2>3. QED
    BY <2>1, <2>2
<1>3. ASSUME child.status = "none", child' = ForkChild,
             slave' = [slave EXCEPT ![c] = [NotSlave EXCEPT !.replstate = "wait_bgsave_end"]]
      PROVE  Synced(slave[x])'
  <2>1. CASE x = c
    <3>1. slave'[x].replstate = "wait_bgsave_end" /\ slave'[x].buf = <<>>
      BY <1>0, <1>3, <2>1 DEF NotSlave
    <3>2. QED
      BY <1>0, <1>3, <3>1, ForkedSynced DEF Synced
  <2>2. CASE x # c
    <3>1. slave'[x] = slave[x]
      BY <1>3, <2>2
    <3>2. QED
      BY <1>0, <1>3, <3>1, NobodyWaits, NotWaitingSynced DEF Synced
  <2>3. QED
    BY <2>1, <2>2
<1>4. QED
  BY <1>1, <1>2, <1>3 DEF syncCommand

(* The end of a save: a slave that waited for it is sent what dump.rdb       *)
(* holds, one that waited for a start gets a save of the dataset of now.     *)
LEMMA DoneSynced ==
  ASSUME TypeOK, SyncInv, Settings, backgroundSaveDoneHandler
  PROVE  SyncInv'
<1> SUFFICES ASSUME NEW c \in Clients PROVE Synced(slave[c])'
  BY DEF SyncInv
<1> DEFINE s == slave[c]
           t == slave'[c]
           ok == child.status # "failed"
<1>1. /\ s \in SlaveState /\ Synced(s) /\ UNCHANGED <<data, dump>>
      /\ t = UpdatedSlaves(ok)[c]
      /\ child.status \in {"exited", "failed", "killed"}
      /\ StartBgsave => child' = ForkChild
  BY TypeIs DEF SyncInv, backgroundSaveDoneHandler, Settings
<1>2. CASE s.replstate = "wait_bgsave_start"
  <2>1. t = [s EXCEPT !.replstate = "wait_bgsave_end"] /\ s.buf = <<>>
    BY <1>1, <1>2 DEF UpdatedSlaves, Synced
  <2>2. t.replstate = "wait_bgsave_end" /\ t.buf = <<>>
    BY <1>1, <2>1 DEF SlaveState
  <2>3. child' = ForkChild
    BY <1>1, <1>2 DEF StartBgsave
  <2> HIDE DEF s, t
  <2>4. QED
    BY <1>1, <2>2, <2>3, ForkedSynced DEF Synced, t
<1>3. CASE s.replstate = "wait_bgsave_end" /\ ok /\ dump # NoDump
  <2>1. t = [s EXCEPT !.replstate = "send_bulk", !.file = dump]
    BY <1>1, <1>3 DEF UpdatedSlaves
  <2>2. t.replstate = "send_bulk" /\ t.file = dump /\ t.buf = s.buf
    BY <1>1, <2>1 DEF SlaveState
  <2>3. Content(dump \o s.buf) = Content(data)
    BY <1>1, <1>3 DEF Synced
  <2> HIDE DEF s, t
  <2>4. QED
    BY <1>1, <2>2, <2>3 DEF Synced, t
<1>4. CASE s.replstate = "wait_bgsave_end" /\ ~(ok /\ dump # NoDump)
  <2>1. t.replstate = "none"
    BY <1>1, <1>4 DEF UpdatedSlaves, NotSlave
  <2>2. QED
    BY <2>1 DEF Synced
<1>5. CASE s.replstate \notin {"wait_bgsave_start", "wait_bgsave_end"}
  <2>1. t = s
    BY <1>1, <1>5 DEF UpdatedSlaves
  <2>2. QED
    BY <1>1, <1>5, <2>1 DEF Synced
<1>6. QED
  BY <1>2, <1>3, <1>4, <1>5

LEMMA NextSync == TypeOK /\ TypeOK' /\ SyncInv /\ Settings /\ [Next]_vars => SyncInv'
<1> SUFFICES ASSUME TypeOK, TypeOK', SyncInv, Settings, [Next]_vars PROVE SyncInv'
  OBVIOUS
<1>0. slave \in [Clients -> SlaveState] /\ data \in Seq(Command)
  BY TypeIs
<1>1. ASSUME NEW d \in Dbs, Write(d) PROVE SyncInv'
  <2> DEFINE cmd == [id |-> Len(data) + 1, db |-> d]
  <2>1. cmd \in Command
    BY <1>0 DEF Command
  <2> HIDE DEF cmd
  <2>2. data' = Append(data, cmd) /\ slave' = FeedSlaves(cmd) /\ UNCHANGED <<dump, child>>
    BY <1>1 DEF Write, cmd
  <2>3. QED
    BY <2>1, <2>2, FeedSynced
<1>2. ASSUME flushallCommand PROVE SyncInv'
  BY <1>2, FlushIsCommand, FeedSynced DEF flushallCommand, Flush
<1>3. ASSUME saveCommand PROVE SyncInv'
  BY <1>3, NobodyWaits DEF saveCommand, SyncInv, Synced
<1>4. ASSUME shutdownCommand PROVE SyncInv'
  <2>1. slave' = [c \in Clients |-> NotSlave]
    BY <1>4 DEF shutdownCommand, Settings
  <2>2. QED
    BY <2>1 DEF SyncInv, Synced, NotSlave
<1>5. ASSUME rdbSaveBackground PROVE SyncInv'
  BY <1>5, NobodyWaits DEF rdbSaveBackground, SyncInv, Synced
<1>6. ASSUME ChildExits PROVE SyncInv'
  <2> SUFFICES ASSUME NEW c \in Clients PROVE Synced(slave[c])'
    BY DEF SyncInv
  <2>1. Synced(slave[c]) /\ UNCHANGED <<data, slave>> /\ child.status = "running"
    BY <1>6 DEF SyncInv, ChildExits
  <2>2. \/ child'.status = "exited" /\ dump' = child.snap
        \/ child'.status = "failed"
    BY <1>6, TypeIs DEF ChildExits, ChildState
  <2>3. QED
    BY <2>1, <2>2 DEF Synced
<1>7. ASSUME backgroundSaveDoneHandler PROVE SyncInv'
  BY <1>7, DoneSynced
<1>8. ASSUME NEW c \in Clients, syncCommand(c) PROVE SyncInv'
  BY <1>8, SyncCommandSynced
<1>9. ASSUME NEW c \in Clients, sendBulkToSlave(c) PROVE SyncInv'
  <2>1. /\ \A x \in Clients \ {c} : slave'[x] = slave[x]
        /\ slave'[c].replstate = "online" /\ slave'[c].copy = slave[c].file
        /\ slave'[c].buf = slave[c].buf
    BY <1>0, <1>9 DEF sendBulkToSlave, SlaveState
  <2>2. slave[c].replstate = "send_bulk" /\ UNCHANGED <<data, dump, child>>
    BY <1>9 DEF sendBulkToSlave
  <2>3. QED
    BY <2>1, <2>2 DEF SyncInv, Synced
<1>10. ASSUME NEW c \in Clients, sendReplyToClient(c) PROVE SyncInv'
  <2>1. slave[c].copy \in Seq(Command) /\ slave[c].buf \in Seq(Command)
    BY <1>0 DEF SlaveState
  <2>2. /\ \A x \in Clients \ {c} : slave'[x] = slave[x]
        /\ slave'[c].replstate = "online"
        /\ slave'[c].copy = Append(slave[c].copy, Head(slave[c].buf))
        /\ slave'[c].buf = Tail(slave[c].buf)
    BY <1>0, <1>10 DEF sendReplyToClient, SlaveState
  <2>3. slave[c].replstate = "online" /\ slave[c].buf # <<>> /\ UNCHANGED <<data, dump, child>>
    BY <1>10 DEF sendReplyToClient
  <2>4. slave'[c].copy \o slave'[c].buf = slave[c].copy \o slave[c].buf
    BY <2>1, <2>2, <2>3, StreamMoves
  <2>5. QED
    BY <2>2, <2>3, <2>4 DEF SyncInv, Synced
<1>11. ASSUME NEW c \in Clients, freeClient(c) PROVE SyncInv'
  <2>1. /\ \A x \in Clients \ {c} : slave'[x] = slave[x]
        /\ slave'[c].replstate = "none" /\ UNCHANGED <<data, dump, child>>
    BY <1>0, <1>11 DEF freeClient, NotSlave
  <2>2. QED
    BY <2>1 DEF SyncInv, Synced
<1>12. ASSUME UNCHANGED vars PROVE SyncInv'
  BY <1>12 DEF vars, SyncInv, Synced
<1>13. QED
  BY <1>1, <1>2, <1>3, <1>4, <1>5, <1>6, <1>7, <1>8, <1>9, <1>10, <1>11, <1>12 DEF Next

(* For any number of slaves and writes, whatever saves fail or are killed by *)
(* FLUSHALL and whatever connections break: an online slave that executes    *)
(* what is under way to it has the master's dataset.                         *)
THEOREM SlavesFollow == Settings => (Spec => []OnlineSlavesFollow)
<1> SUFFICES ASSUME Settings PROVE Spec => []OnlineSlavesFollow
  OBVIOUS
<1>1. Init => TypeOK /\ SyncInv
  BY InitTypes, InitSync
<1>2. (TypeOK /\ SyncInv) /\ [Next]_vars => (TypeOK /\ SyncInv)'
  BY NextTypes, NextSync
<1>3. TypeOK /\ SyncInv => OnlineSlavesFollow
  BY SyncedFollow
<1>4. QED
  BY <1>1, <1>2, <1>3, PTL DEF Spec
==============================================================================
