------------------------ MODULE ReplicationSlaveProofs ------------------------
(***************************************************************************)
(* What holds of ReplicationSlave for any masters, descriptors, slaves of  *)
(* its own, reads that a dump takes, writes and troubles, as long as       *)
(* SLAVEOF another master does not come while a connect is under way.      *)
(***************************************************************************)
EXTENDS ReplicationSlave, SequenceTheorems, WellFoundedInduction, TLAPS

USE ReplicationSlaveAssumption

-----------------------------------------------------------------------------
(* Types *)

Hosts == Masters \cup {NoHost}
WriteItem == [kind : {"write"}, of : Hosts, n : Nat]
ChunkItem == [kind : {"chunk"}, dump : Seq(WriteItem), part : Nat]
Item == WriteItem \cup ChunkItem \cup [kind : {"newline", "bulk", "error"}]
States == {"none", "connect", "connecting", "transfer", "connected"}
Conn == [peer : Hosts,
         handler : {"none", "syncWithMaster", "readSyncBulkPayload", "readQueryFromClient"},
         asked : BOOLEAN, online : BOOLEAN, lost : BOOLEAN, sent : Seq(Item)]
Server == [masterhost : Hosts, replstate : States, master : Descriptors \cup {0},
           s : Descriptors \cup {0}, left : Int, tmpfile : Seq(Item) \cup {NoFile},
           data : Seq(WriteItem), conn : [Descriptors -> Conn],
           copy : [SubSlaves -> Seq(WriteItem) \cup {Detached}]]

TypeOK == srv \in Server /\ written \in [Masters -> Nat] /\ troubles \in Nat

-----------------------------------------------------------------------------
(* The inductive invariant, of a server s and the writes w of the masters *)

LinkOf(s) == IF s.replstate = "connected" THEN s.master ELSE s.s

(* There is no connection, in whatever state.                                *)
NoLink(s) ==
  /\ \A fd \in Descriptors : s.conn[fd] = Closed
  /\ s.master = 0 /\ s.tmpfile = NoFile

Unlinked(s) ==
  /\ s.replstate = IF s.masterhost = NoHost THEN "none" ELSE "connect"
  /\ NoLink(s)

(* There is one connection, to the master, with its handler h.               *)
OnlyOpen(s, fd) == fd \in Descriptors /\ \A g \in Descriptors : g # fd => s.conn[g] = Closed
LinkedBy(s, fd, h) ==
  /\ OnlyOpen(s, fd) /\ s.masterhost # NoHost
  /\ s.conn[fd].peer = s.masterhost /\ s.conn[fd].handler = h

Connecting(s) ==
  /\ s.replstate = "connecting" /\ LinkedBy(s, s.s, "syncWithMaster")
  /\ s.master = 0 /\ s.tmpfile = NoFile
  /\ ~s.conn[s.s].asked /\ ~s.conn[s.s].online /\ s.conn[s.s].sent = <<>>

(* The writes of m after the first j, up to the k-th.                        *)
Writes(m, j, k) == [i \in 1..k - j |-> Write(m, j + i)]

(* The dump of the first k writes, and the writes that follow; and the line  *)
(* that comes before them.                                                   *)
Stream(m, k, w) == Whole(Dump(m, k)) \o Writes(m, k, w)
Answer(m, k, w) == <<[kind |-> "bulk"]>> \o Stream(m, k, w)

(* The stream of a connection ends in the w-th write, the last one unless it *)
(* is lost.                                                                  *)
UpTo(conn, w, all) == w <= all /\ (~conn.lost => w = all)

Newline == [kind |-> "newline"]

(* The master has not answered, and sends newlines meanwhile or refuses.     *)
Unanswered(s, conn) ==
  /\ ~conn.online /\ s.left = -1 /\ s.tmpfile = <<>>
  /\ ~conn.lost => conn.sent \in {<<>>, <<Newline>>}
  /\ \A i \in 1..Len(conn.sent) : conn.sent[i].kind \in {"newline", "error"}

(* The answer is on its way, none of it read.                                *)
Answered(s, conn, all) ==
  /\ conn.online /\ s.left = -1 /\ s.tmpfile = <<>>
  /\ \E k, w \in Nat :
       /\ k <= w /\ UpTo(conn, w, all)
       /\ \E before \in {<<>>, <<Newline>>} :
            conn.sent = before \o Answer(s.masterhost, k, w)

(* What was read of the dump and what is to be read make it up.              *)
Receiving(s, conn, all) ==
  /\ conn.online /\ s.left \in 1..Parts
  /\ s.tmpfile \in Seq(Item) /\ Len(s.tmpfile) = Parts - s.left
  /\ \E k, w \in Nat :
       /\ k <= w /\ UpTo(conn, w, all)
       /\ s.tmpfile \o conn.sent = Stream(s.masterhost, k, w)

Transferring(s, all) ==
  /\ s.replstate = "transfer" /\ LinkedBy(s, s.s, "readSyncBulkPayload")
  /\ s.master = 0 /\ s.tmpfile # NoFile /\ s.conn[s.s].asked
  /\ \/ Unanswered(s, s.conn[s.s])
     \/ Answered(s, s.conn[s.s], all)
     \/ Receiving(s, s.conn[s.s], all)

Following(s, all) ==
  /\ s.replstate = "connected" /\ LinkedBy(s, s.master, "readQueryFromClient")
  /\ s.tmpfile = NoFile /\ s.conn[s.master].online
  /\ \E w \in Nat : /\ UpTo(s.conn[s.master], w, all)
                    /\ s.data \o s.conn[s.master].sent = Dump(s.masterhost, w)

Linked(s, w) ==
  \/ Unlinked(s)
  \/ Connecting(s)
  \/ Transferring(s, w[s.masterhost])
  \/ Following(s, w[s.masterhost])

(* Slaves of this server have its dataset, and none is there while it has    *)
(* not got that of its master.                                               *)
Served(s) ==
  /\ \A x \in SubSlaves : s.copy[x] # Detached => s.copy[x] = s.data
  /\ (s.masterhost # NoHost /\ s.replstate # "connected") =>
       \A x \in SubSlaves : s.copy[x] = Detached

Good(s, w) == s \in Server /\ Linked(s, w) /\ Served(s)

IInv == TypeOK /\ Linked(srv, written) /\ Served(srv)

-----------------------------------------------------------------------------
(* Sequences *)

LEMMA WritesType ==
  ASSUME NEW m \in Hosts, NEW j \in Nat, NEW k \in Nat, j <= k
  PROVE  Writes(m, j, k) \in Seq(WriteItem) /\ Len(Writes(m, j, k)) = k - j
  BY DEF Writes, Write, WriteItem

LEMMA DumpIs ==
  ASSUME NEW m \in Hosts, NEW k \in Nat
  PROVE  Dump(m, k) = Writes(m, 0, k) /\ Dump(m, k) \in Seq(WriteItem) /\ Len(Dump(m, k)) = k
<1>1. Dump(m, k) = Writes(m, 0, k)
  BY DEF Dump, Writes
<1>2. QED
  BY <1>1, WritesType

(* One more write of the master.                                             *)
LEMMA WritesAppend ==
  ASSUME NEW m \in Hosts, NEW j \in Nat, NEW k \in Nat, j <= k
  PROVE  Append(Writes(m, j, k), Write(m, k + 1)) = Writes(m, j, k + 1)
<1>1. /\ Writes(m, j, k) \in Seq(WriteItem) /\ Len(Writes(m, j, k)) = k - j
      /\ Writes(m, j, k + 1) \in Seq(WriteItem) /\ Len(Writes(m, j, k + 1)) = k + 1 - j
      /\ Write(m, k + 1) \in WriteItem
  <2>1. k + 1 \in Nat /\ j <= k + 1
    OBVIOUS
  <2>2. Write(m, k + 1) \in WriteItem
    BY <2>1 DEF Write, WriteItem
  <2>3. Writes(m, j, k) \in Seq(WriteItem) /\ Len(Writes(m, j, k)) = k - j
    BY WritesType
  <2>4. Writes(m, j, k + 1) \in Seq(WriteItem) /\ Len(Writes(m, j, k + 1)) = k + 1 - j
    <3> DEFINE n == k + 1
    <3>1. n \in Nat /\ j <= n
      BY <2>1
    <3> HIDE DEF n
    <3>2. Writes(m, j, n) \in Seq(WriteItem) /\ Len(Writes(m, j, n)) = n - j
      BY <3>1, WritesType
    <3>3. QED
      BY <3>2 DEF n
  <2>5. QED
    BY <2>2, <2>3, <2>4
<1> DEFINE more == Append(Writes(m, j, k), Write(m, k + 1))
<1>2. /\ more \in Seq(WriteItem) /\ Len(more) = k + 1 - j
      /\ \A i \in 1..k - j : more[i] = Writes(m, j, k)[i]
      /\ more[k + 1 - j] = Write(m, k + 1)
  BY <1>1, AppendProperties
<1>3. \A i \in 1..k + 1 - j : more[i] = Writes(m, j, k + 1)[i]
  <2>1. \A i \in 1..k - j : Writes(m, j, k)[i] = Write(m, j + i)
    BY DEF Writes
  <2>2. \A i \in 1..k + 1 - j : Writes(m, j, k + 1)[i] = Write(m, j + i)
    BY DEF Writes
  <2>3. Write(m, j + (k + 1 - j)) = Write(m, k + 1)
    BY DEF Write
  <2> HIDE DEF more
  <2>4. QED
    BY <1>2, <2>1, <2>2, <2>3
<1>4. QED
  <2> HIDE DEF more
  <2>1. more = Writes(m, j, k + 1)
    BY <1>1, <1>2, <1>3, SeqEqual
  <2>2. QED
    BY <2>1 DEF more

(* A dump and the writes after it are a later dump.                          *)
LEMMA DumpConcat ==
  ASSUME NEW m \in Hosts, NEW j \in Nat, NEW k \in Nat, j <= k
  PROVE  Dump(m, j) \o Writes(m, j, k) = Dump(m, k)
<1>1. /\ Dump(m, j) \in Seq(WriteItem) /\ Len(Dump(m, j)) = j
      /\ Writes(m, j, k) \in Seq(WriteItem) /\ Len(Writes(m, j, k)) = k - j
      /\ Dump(m, k) \in Seq(WriteItem) /\ Len(Dump(m, k)) = k
  BY WritesType, DumpIs
<1> DEFINE both == Dump(m, j) \o Writes(m, j, k)
<1>2. /\ both \in Seq(WriteItem) /\ Len(both) = k
      /\ \A i \in 1..j : both[i] = Dump(m, j)[i]
      /\ \A i \in j + 1..k : both[i] = Writes(m, j, k)[i - j]
  <2> DEFINE a == Dump(m, j)
             b == Writes(m, j, k)
  <2>1. a \in Seq(WriteItem) /\ b \in Seq(WriteItem) /\ Len(a) = j /\ Len(b) = k - j
    BY <1>1
  <2> HIDE DEF a, b
  <2>2. /\ a \o b \in Seq(WriteItem) /\ Len(a \o b) = Len(a) + Len(b)
        /\ \A i \in 1..Len(a \o b) : (a \o b)[i] = IF i <= Len(a) THEN a[i] ELSE b[i - Len(a)]
    BY <2>1, ConcatProperties
  <2>3. \A i \in j + 1..k : i \in 1..k /\ ~(i <= j)
    OBVIOUS
  <2>4. \A i \in 1..j : i \in 1..k
    OBVIOUS
  <2>5. Len(a \o b) = k
    BY <2>1, <2>2
  <2>6. QED
    BY <2>1, <2>2, <2>3, <2>4, <2>5 DEF a, b
<1>3. \A i \in 1..k : both[i] = Dump(m, k)[i]
  <2>1. /\ \A i \in 1..j : Dump(m, j)[i] = Write(m, i)
        /\ \A i \in 1..k : Dump(m, k)[i] = Write(m, i)
    BY DEF Dump
  <2>2. \A i \in 1..k - j : Writes(m, j, k)[i] = Write(m, j + i)
    BY DEF Writes
  <2> HIDE DEF both
  <2>3. \A i \in j + 1..k : i - j \in 1..k - j /\ j + (i - j) = i
    OBVIOUS
  <2>4. QED
    BY <1>2, <2>1, <2>2, <2>3
<1>4. QED
  <2> HIDE DEF both
  <2>1. both = Dump(m, k)
    BY <1>1, <1>2, <1>3, SeqEqual
  <2>2. QED
    BY <2>1 DEF both

LEMMA WholeType ==
  ASSUME NEW d \in Seq(WriteItem)
  PROVE  Whole(d) \in Seq(Item) /\ Len(Whole(d)) = Parts
  BY DEF Whole, Chunk, ChunkItem, Item

LEMMA StreamIs ==
  ASSUME NEW m \in Hosts, NEW k \in Nat, NEW w \in Nat, k <= w
  PROVE  /\ Whole(Dump(m, k)) \in Seq(Item) /\ Len(Whole(Dump(m, k))) = Parts
         /\ Writes(m, k, w) \in Seq(Item) /\ Writes(m, k, w) \in Seq(WriteItem)
         /\ Stream(m, k, w) \in Seq(Item)
<1>1. Whole(Dump(m, k)) \in Seq(Item) /\ Len(Whole(Dump(m, k))) = Parts
  BY DumpIs, WholeType
<1>2. Writes(m, k, w) \in Seq(WriteItem)
  BY WritesType
<1>3. Writes(m, k, w) \in Seq(Item)
  BY <1>2 DEF Item
<1>4. QED
  BY <1>1, <1>2, <1>3, ConcatProperties DEF Stream

LEMMA AnswerIs ==
  ASSUME NEW m \in Hosts, NEW k \in Nat, NEW w \in Nat, k <= w
  PROVE  /\ Stream(m, k, w) \in Seq(Item) /\ Answer(m, k, w) \in Seq(Item)
         /\ Head(Answer(m, k, w)).kind = "bulk" /\ Tail(Answer(m, k, w)) = Stream(m, k, w)
<1> DEFINE rest == Stream(m, k, w)
           bulk == [kind |-> "bulk"]
<1>1. rest \in Seq(Item)
  BY StreamIs
<1>2. bulk \in Item /\ bulk.kind = "bulk" /\ Answer(m, k, w) = <<bulk>> \o rest
  BY DEF Item, Answer
<1> HIDE DEF rest, bulk
<1>3. <<bulk>> \in Seq(Item) /\ Len(<<bulk>>) = 1
  BY <1>2
<1>4. <<bulk>> \o rest \in Seq(Item)
  BY <1>1, <1>3, ConcatProperties
<1>5. Head(<<bulk>> \o rest) = bulk /\ Tail(<<bulk>> \o rest) = rest
  BY <1>1, <1>3, <1>4
<1>6. QED
  BY <1>1, <1>2, <1>4, <1>5 DEF rest

LEMMA AppendConcat ==
  ASSUME NEW s \in Seq(Item), NEW t \in Seq(Item), NEW x \in Item
  PROVE  Append(s \o t, x) = s \o Append(t, x)
<1>1. s \o t \in Seq(Item) /\ <<x>> \in Seq(Item)
  BY ConcatProperties
<1>2. Append(s \o t, x) = (s \o t) \o <<x>>
  BY <1>1, AppendIsConcat
<1>3. Append(t, x) = t \o <<x>>
  BY AppendIsConcat
<1>4. (s \o t) \o <<x>> = s \o (t \o <<x>>)
  BY <1>1, ConcatAssociative
<1>5. QED
  BY <1>2, <1>3, <1>4

(* A dump with no write after it, and one more write after it.               *)
LEMMA StreamOfNone ==
  ASSUME NEW m \in Hosts, NEW k \in Nat
  PROVE  Stream(m, k, k) = Whole(Dump(m, k))
<1>1. Writes(m, k, k) \in Seq(WriteItem) /\ Len(Writes(m, k, k)) = 0
  BY WritesType
<1>2. Writes(m, k, k) = <<>>
  BY <1>1, EmptySeq
<1>3. Whole(Dump(m, k)) \in Seq(Item)
  BY StreamIs
<1>4. QED
  BY <1>2, <1>3, ConcatSimplifications DEF Stream

LEMMA StreamAppend ==
  ASSUME NEW m \in Hosts, NEW k \in Nat, NEW w \in Nat, k <= w
  PROVE  /\ Append(Stream(m, k, w), Write(m, w + 1)) = Stream(m, k, w + 1)
         /\ Append(Answer(m, k, w), Write(m, w + 1)) = Answer(m, k, w + 1)
         /\ Write(m, w + 1) \in WriteItem /\ Write(m, w + 1) \in Item
<1> DEFINE item == Write(m, w + 1)
           whole == Whole(Dump(m, k))
           writes == Writes(m, k, w)
           first == <<[kind |-> "bulk"]>>
           stream == Stream(m, k, w)
<1>1. item \in WriteItem /\ item \in Item
  <2>1. w + 1 \in Nat
    OBVIOUS
  <2>2. QED
    BY <2>1 DEF Write, WriteItem, Item
<1>2. whole \in Seq(Item) /\ writes \in Seq(Item) /\ stream \in Seq(Item)
  BY StreamIs
<1>3. first \in Seq(Item)
  BY DEF Item
<1> DEFINE after == Writes(m, k, w + 1)
           longer == Stream(m, k, w + 1)
<1>4. Append(writes, item) = after
  BY WritesAppend
<1>5. /\ stream = whole \o writes /\ longer = whole \o after
      /\ Answer(m, k, w) = first \o stream /\ Answer(m, k, w + 1) = first \o longer
  BY DEF Stream, Answer
<1> HIDE DEF item, whole, writes, first, stream, after, longer
<1>6. Append(stream, item) = longer
  <2>1. Append(whole \o writes, item) = whole \o Append(writes, item)
    BY <1>1, <1>2, AppendConcat
  <2>2. QED
    BY <1>4, <1>5, <2>1
<1>7. Append(Answer(m, k, w), item) = Answer(m, k, w + 1)
  <2>1. Append(first \o stream, item) = first \o Append(stream, item)
    BY <1>1, <1>2, <1>3, AppendConcat
  <2>2. QED
    BY <1>5, <1>6, <2>1
<1>8. QED
  BY <1>1, <1>6, <1>7 DEF item, stream, longer

(* The file of a whole dump is loaded as that dump.                          *)
LEMMA LoadOfWhole ==
  ASSUME NEW d \in Seq(WriteItem)
  PROVE  rdbLoad(Whole(d)) = d
<1>1. Whole(d)[1] = Chunk(d, 1)
  BY DEF Whole
<1>2. QED
  BY <1>1 DEF rdbLoad, Chunk

(* A prefix of known length of a known sequence.                             *)
LEMMA SplitAt ==
  ASSUME NEW S, NEW s \in Seq(S), NEW t \in Seq(S), NEW u \in Seq(S), NEW v \in Seq(S),
         s \o t = u \o v, Len(s) = Len(u)
  PROVE  s = u /\ t = v
<1>1. /\ Len(s) \in Nat /\ Len(t) \in Nat /\ Len(u) \in Nat /\ Len(v) \in Nat
      /\ Len(s \o t) = Len(s) + Len(t) /\ Len(u \o v) = Len(u) + Len(v)
      /\ \A i \in 1..Len(s) : (s \o t)[i] = s[i]
      /\ \A i \in 1..Len(u) : (u \o v)[i] = u[i]
  <2>1. Len(s) \in Nat /\ Len(t) \in Nat /\ Len(u) \in Nat /\ Len(v) \in Nat
    BY LenProperties
  <2>2. /\ Len(s \o t) = Len(s) + Len(t)
        /\ \A i \in 1..Len(s \o t) : (s \o t)[i] = IF i <= Len(s) THEN s[i] ELSE t[i - Len(s)]
    BY ConcatProperties
  <2>3. /\ Len(u \o v) = Len(u) + Len(v)
        /\ \A i \in 1..Len(u \o v) : (u \o v)[i] = IF i <= Len(u) THEN u[i] ELSE v[i - Len(u)]
    BY ConcatProperties
  <2>4. QED
    BY <2>1, <2>2, <2>3
<1>2. \A i \in 1..Len(s) : s[i] = u[i]
  BY <1>1
<1>3. s = u
  BY <1>2, SeqEqual
<1>4. QED
  BY <1>3, ConcatSimplifications

(* Reading the first item moves it from one end to the other.                *)
LEMMA MoveOne ==
  ASSUME NEW S, NEW s \in Seq(S), NEW t \in Seq(S), t # <<>>
  PROVE  /\ Append(s, Head(t)) \o Tail(t) = s \o t
         /\ Head(t) \in S /\ Tail(t) \in Seq(S) /\ Append(s, Head(t)) \in Seq(S)
<1>1. /\ Head(t) \in S /\ Tail(t) \in Seq(S) /\ t = <<Head(t)>> \o Tail(t)
      /\ <<Head(t)>> \in Seq(S)
  BY HeadTailProperties
<1>2. Append(s, Head(t)) = s \o <<Head(t)>> /\ Append(s, Head(t)) \in Seq(S)
  BY <1>1, AppendIsConcat, AppendProperties
<1>3. (s \o <<Head(t)>>) \o Tail(t) = s \o (<<Head(t)>> \o Tail(t))
  BY <1>1, ConcatAssociative
<1>4. QED
  BY <1>1, <1>2, <1>3

-----------------------------------------------------------------------------
(* The operations on the link *)

LEMMA Distinct ==
  /\ Closed \in Conn /\ Closed.handler = "none" /\ Closed.peer = NoHost /\ ~Closed.online
  /\ ~Closed.asked /\ Closed.sent = <<>>
  /\ <<>> \in Seq(Item) /\ Len(<<>>) = 0
  /\ NoFile \notin Seq(Item) /\ Detached \notin Seq(WriteItem)
<1>1. Closed \in Conn
  BY DEF Closed, Conn, Hosts
<1>2. NoFile \notin Seq(Item)
  <2>1. NoFile[1] \notin Item /\ Len(NoFile) = 1
    BY DEF NoFile, Item, WriteItem, ChunkItem
  <2>2. QED
    BY <2>1, ElementOfSeq
<1>3. Detached \notin Seq(WriteItem)
  <2>1. Detached[1] \notin WriteItem /\ Len(Detached) = 1
    BY DEF Detached, WriteItem
  <2>2. QED
    BY <2>1, ElementOfSeq
<1>4. QED
  BY <1>1, <1>2, <1>3, EmptySeq DEF Closed

(* What an operation that gives the link up leaves: no link, and everything  *)
(* else as it was.                                                           *)
GivenUp(s, t) ==
  /\ t \in Server /\ NoLink(t) /\ t.replstate = "connect"
  /\ t.masterhost = s.masterhost /\ t.data = s.data

LEMMA CloseLast ==
  ASSUME NEW s \in Server, NEW fd, OnlyOpen(s, fd)
  PROVE  /\ close(s, fd) \in Server
         /\ \A g \in Descriptors : close(s, fd).conn[g] = Closed
         /\ close(s, fd) = [s EXCEPT !.conn = close(s, fd).conn]
  BY Distinct DEF OnlyOpen, close, Server

LEMMA CloseIs ==
  ASSUME NEW s \in Server, NEW fd \in Descriptors
  PROVE  /\ close(s, fd) \in Server
         /\ close(s, fd).conn = [s.conn EXCEPT ![fd] = Closed]
         /\ close(s, fd).master = s.master /\ close(s, fd).tmpfile = s.tmpfile
         /\ close(s, fd).masterhost = s.masterhost /\ close(s, fd).data = s.data
         /\ close(s, fd).copy = s.copy /\ close(s, fd).replstate = s.replstate
         /\ close(s, fd).s = s.s
  BY Distinct DEF close, Server

LEMMA AbortIs ==
  ASSUME NEW s \in Server, OnlyOpen(s, s.s), s.master = 0
  PROVE  /\ GivenUp(s, replicationAbortSyncTransfer(s))
         /\ replicationAbortSyncTransfer(s).copy = s.copy
<1>1. s.s \in Descriptors /\ \A g \in Descriptors : close(s, s.s).conn[g] = Closed
  BY CloseLast DEF OnlyOpen
<1>2. close(s, s.s) \in Server /\ close(s, s.s).master = 0
      /\ close(s, s.s).masterhost = s.masterhost /\ close(s, s.s).data = s.data
      /\ close(s, s.s).copy = s.copy
  BY <1>1, CloseIs
<1> DEFINE c == close(s, s.s)
<1>3. replicationAbortSyncTransfer(s) = [c EXCEPT !.tmpfile = NoFile, !.replstate = "connect"]
  BY DEF replicationAbortSyncTransfer
<1> HIDE DEF c
<1>4. c \in Server /\ c.master = 0 /\ c.masterhost = s.masterhost /\ c.data = s.data
      /\ c.copy = s.copy /\ \A g \in Descriptors : c.conn[g] = Closed
  BY <1>1, <1>2 DEF c
<1>5. QED
  BY <1>3, <1>4 DEF GivenUp, NoLink, Server, States

LEMMA UndoIs ==
  ASSUME NEW s \in Server, OnlyOpen(s, s.s), s.master = 0, s.tmpfile = NoFile
  PROVE  /\ GivenUp(s, undoConnectWithMaster(s))
         /\ undoConnectWithMaster(s).copy = s.copy
<1> DEFINE c == close(s, s.s)
<1>1. undoConnectWithMaster(s) = [c EXCEPT !.s = 0, !.replstate = "connect"]
  BY DEF undoConnectWithMaster
<1>2. c \in Server /\ c.master = 0 /\ c.masterhost = s.masterhost /\ c.data = s.data
      /\ c.copy = s.copy /\ c.tmpfile = NoFile /\ \A g \in Descriptors : c.conn[g] = Closed
  <2>1. s.s \in Descriptors /\ \A g \in Descriptors : close(s, s.s).conn[g] = Closed
    BY CloseLast DEF OnlyOpen
  <2>2. close(s, s.s) \in Server /\ close(s, s.s).master = 0
        /\ close(s, s.s).masterhost = s.masterhost /\ close(s, s.s).data = s.data
        /\ close(s, s.s).copy = s.copy /\ close(s, s.s).tmpfile = NoFile
    BY <2>1, CloseIs
  <2>3. QED
    BY <2>1, <2>2
<1> HIDE DEF c
<1>3. QED
  BY <1>1, <1>2 DEF GivenUp, NoLink, Server, States

LEMMA DisconnectIs ==
  ASSUME NEW s \in Server
  PROVE  /\ disconnectSlaves(s) \in Server
         /\ \A x \in SubSlaves : disconnectSlaves(s).copy[x] = Detached
         /\ disconnectSlaves(s).conn = s.conn /\ disconnectSlaves(s).master = s.master
         /\ disconnectSlaves(s).tmpfile = s.tmpfile /\ disconnectSlaves(s).data = s.data
         /\ disconnectSlaves(s).masterhost = s.masterhost
         /\ disconnectSlaves(s).replstate = s.replstate /\ disconnectSlaves(s).s = s.s
  BY DEF disconnectSlaves, Server

LEMMA FreeMasterIs ==
  ASSUME NEW s \in Server, OnlyOpen(s, s.master), s.tmpfile = NoFile
  PROVE  /\ GivenUp(s, freeMaster(s))
         /\ s.masterhost = NoHost => freeMaster(s).copy = s.copy
         /\ s.masterhost # NoHost => \A x \in SubSlaves : freeMaster(s).copy[x] = Detached
<1> DEFINE c == close(s, s.master)
           t == [c EXCEPT !.master = 0, !.replstate = "connect"]
<1>1. freeMaster(s) = IF t.masterhost = NoHost THEN t ELSE disconnectSlaves(t)
  BY DEF freeMaster
<1>2. c \in Server /\ c.masterhost = s.masterhost /\ c.data = s.data
      /\ c.copy = s.copy /\ c.tmpfile = NoFile /\ \A g \in Descriptors : c.conn[g] = Closed
  <2>1. s.master \in Descriptors /\ \A g \in Descriptors : close(s, s.master).conn[g] = Closed
    BY CloseLast DEF OnlyOpen
  <2>2. close(s, s.master) \in Server
        /\ close(s, s.master).masterhost = s.masterhost /\ close(s, s.master).data = s.data
        /\ close(s, s.master).copy = s.copy /\ close(s, s.master).tmpfile = NoFile
    BY <2>1, CloseIs
  <2>3. QED
    BY <2>1, <2>2
<1> HIDE DEF c
<1>3. GivenUp(s, t) /\ t.copy = s.copy
  BY <1>2 DEF GivenUp, NoLink, Server, States
<1> HIDE DEF t
<1>4. CASE s.masterhost = NoHost
  BY <1>1, <1>3, <1>4 DEF GivenUp
<1>5. CASE s.masterhost # NoHost
  BY <1>1, <1>3, <1>5, DisconnectIs DEF GivenUp, NoLink
<1>6. QED
  BY <1>4, <1>5

(* A link that has been given up leaves the invariant, when the slaves of    *)
(* this server are gone.                                                     *)
LEMMA GivenUpInv ==
  ASSUME NEW s \in Server, NEW t, GivenUp(s, t), s.masterhost # NoHost,
         \A x \in SubSlaves : t.copy[x] = Detached
  PROVE  Unlinked(t) /\ Served(t)
  BY DEF GivenUp, Unlinked, Served

(* connect, on the least free descriptor.                                    *)
LEMMA ConnectIs ==
  ASSUME NEW s \in Server, Unlinked(s), s.replstate = "connect", NEW fd \in Descriptors,
         Served(s)
  PROVE  /\ connectWithMaster(s, fd) \in Server /\ Connecting(connectWithMaster(s, fd))
         /\ Served(connectWithMaster(s, fd))
<1> DEFINE new == [Closed EXCEPT !.peer = s.masterhost, !.handler = "syncWithMaster"]
           t == [s EXCEPT !.conn[fd] = new, !.s = fd, !.replstate = "connecting"]
<1>1. connectWithMaster(s, fd) = t
  BY DEF connectWithMaster
<1>2. s.masterhost \in Hosts /\ s.masterhost # NoHost
  BY DEF Server, Unlinked
<1>3. /\ new \in Conn /\ new.peer = s.masterhost /\ new.handler = "syncWithMaster"
      /\ ~new.asked /\ ~new.online /\ new.sent = <<>>
  BY <1>2, Distinct DEF Closed, Conn
<1> HIDE DEF new
<1>4. /\ t \in Server /\ t.s = fd /\ t.replstate = "connecting" /\ t.conn[fd] = new
      /\ t.masterhost = s.masterhost /\ t.master = s.master /\ t.tmpfile = s.tmpfile
      /\ t.copy = s.copy /\ t.data = s.data
      /\ \A g \in Descriptors : g # fd => t.conn[g] = s.conn[g]
  BY <1>3 DEF Server, States
<1> HIDE DEF t
<1>5. Connecting(t)
  BY <1>2, <1>3, <1>4 DEF Connecting, LinkedBy, OnlyOpen, Unlinked, NoLink
<1>6. Served(t)
  BY <1>2, <1>4 DEF Served
<1>7. QED
  BY <1>1, <1>4, <1>5, <1>6

(* A nonempty set of descriptors has a least one.                            *)
LEMMA LeastDescriptor ==
  ASSUME NEW free \in SUBSET Descriptors, free # {}
  PROVE  (CHOOSE fd \in free : \A g \in free : fd <= g) \in Descriptors
<1> DEFINE Less == OpToRel(<, Nat)
<1>1. \A x, y \in Nat : x < y => <<x, y>> \in Less
  BY DEF OpToRel
<1>2. IsWellFoundedOn(Less, Nat)
  BY NatLessThanWellFounded
<1>3. free \subseteq Nat
  OBVIOUS
<1>4. PICK fd \in free : \A g \in free : ~(<<g, fd>> \in Less)
  <2> HIDE DEF Less
  <2> QED BY <1>2, <1>3, WFMin
<1>5. ASSUME NEW g \in free
      PROVE  fd <= g
  <2>1. fd \in Nat /\ g \in Nat
    BY <1>3
  <2> HIDE DEF Less
  <2>2. ~(g < fd)
    BY <1>1, <1>4, <2>1
  <2>3. QED
    BY <2>1, <2>2
<1>6. QED
  BY <1>5

-----------------------------------------------------------------------------
(* What the handler of a connection tells of the link *)

LEMMA HandlerIs ==
  ASSUME IInv, NEW fd \in Descriptors
  PROVE  /\ srv.conn[fd].handler = "syncWithMaster" => Connecting(srv) /\ fd = srv.s
         /\ srv.conn[fd].handler = "readSyncBulkPayload" =>
              Transferring(srv, written[srv.masterhost]) /\ fd = srv.s
         /\ srv.conn[fd].handler = "readQueryFromClient" =>
              Following(srv, written[srv.masterhost]) /\ fd = srv.master
         /\ srv.conn[fd] # Closed =>
              \/ Connecting(srv) /\ fd = srv.s
              \/ Transferring(srv, written[srv.masterhost]) /\ fd = srv.s
              \/ Following(srv, written[srv.masterhost]) /\ fd = srv.master
<1>1. CASE srv.conn[fd] = Closed
  BY <1>1, Distinct
<1>2. CASE srv.conn[fd] # Closed
  <2>1. CASE Unlinked(srv)
    BY <1>2, <2>1 DEF Unlinked, NoLink
  <2>2. CASE Connecting(srv)
    <3>1. fd = srv.s /\ srv.conn[fd].handler = "syncWithMaster"
      BY <1>2, <2>2 DEF Connecting, LinkedBy, OnlyOpen
    <3>2. QED
      BY <2>2, <3>1
  <2>3. CASE Transferring(srv, written[srv.masterhost])
    <3>1. fd = srv.s /\ srv.conn[fd].handler = "readSyncBulkPayload"
      BY <1>2, <2>3 DEF Transferring, LinkedBy, OnlyOpen
    <3>2. QED
      BY <2>3, <3>1
  <2>4. CASE Following(srv, written[srv.masterhost])
    <3>1. fd = srv.master /\ srv.conn[fd].handler = "readQueryFromClient"
      BY <1>2, <2>4 DEF Following, LinkedBy, OnlyOpen
    <3>2. QED
      BY <2>4, <3>1
  <2>5. QED
    BY <2>1, <2>2, <2>3, <2>4 DEF IInv, Linked
<1>3. QED
  BY <1>1, <1>2

(* Before the link is up, no slave of this server has anything.              *)
NotUp(s) == /\ s \in Server /\ OnlyOpen(s, s.s) /\ s.master = 0 /\ s.masterhost # NoHost
            /\ \A x \in SubSlaves : s.copy[x] = Detached

LEMMA ConnectingIs ==
  ASSUME IInv, Connecting(srv)
  PROVE  /\ NotUp(srv) /\ srv.tmpfile = NoFile /\ srv.replstate = "connecting"
         /\ srv.conn[srv.s] \in Conn
<1>1. srv \in Server /\ srv.s \in Descriptors /\ srv.masterhost # NoHost
      /\ srv.replstate = "connecting" /\ srv.master = 0 /\ srv.tmpfile = NoFile
      /\ OnlyOpen(srv, srv.s)
  BY DEF IInv, TypeOK, Connecting, LinkedBy, OnlyOpen
<1>2. srv.conn[srv.s] \in Conn
  BY <1>1 DEF Server
<1>3. QED
  BY <1>1, <1>2 DEF IInv, Served, NotUp

LEMMA TransferringIs ==
  ASSUME IInv, Transferring(srv, written[srv.masterhost])
  PROVE  /\ NotUp(srv) /\ srv.tmpfile # NoFile /\ srv.replstate = "transfer"
         /\ srv.conn[srv.s] \in Conn /\ srv.tmpfile \in Seq(Item)
<1>1. srv \in Server /\ srv.s \in Descriptors /\ srv.masterhost # NoHost
      /\ srv.replstate = "transfer" /\ srv.master = 0 /\ srv.tmpfile # NoFile
      /\ OnlyOpen(srv, srv.s)
  BY DEF IInv, TypeOK, Transferring, LinkedBy, OnlyOpen
<1>2. srv.conn[srv.s] \in Conn /\ srv.tmpfile \in Seq(Item)
  BY <1>1 DEF Server
<1>3. QED
  BY <1>1, <1>2 DEF IInv, Served, NotUp

(* The transfer goes on, in any of its three parts.                          *)
LEMMA StillTransferring ==
  ASSUME NEW t, NotUp(t), t.replstate = "transfer", t.tmpfile # NoFile, NEW w,
         t.conn[t.s].peer = t.masterhost, t.conn[t.s].handler = "readSyncBulkPayload",
         t.conn[t.s].asked,
         \/ Unanswered(t, t.conn[t.s])
         \/ Answered(t, t.conn[t.s], w[t.masterhost])
         \/ Receiving(t, t.conn[t.s], w[t.masterhost])
  PROVE  Good(t, w)
<1>1. Transferring(t, w[t.masterhost])
  BY DEF NotUp, Transferring, LinkedBy
<1>2. QED
  BY <1>1 DEF NotUp, Good, Linked, Served

LEMMA AbortGood ==
  ASSUME NEW s, NotUp(s), NEW w
  PROVE  Good(replicationAbortSyncTransfer(s), w)
<1>1. s \in Server /\ OnlyOpen(s, s.s) /\ s.master = 0 /\ s.masterhost # NoHost
  BY DEF NotUp
<1>2. GivenUp(s, replicationAbortSyncTransfer(s))
      /\ \A x \in SubSlaves : replicationAbortSyncTransfer(s).copy[x] = Detached
  BY <1>1, AbortIs DEF NotUp
<1>3. QED
  BY <1>1, <1>2, GivenUpInv DEF Good, Linked, GivenUp

LEMMA UndoGood ==
  ASSUME NEW s, NotUp(s), s.tmpfile = NoFile, NEW w
  PROVE  Good(undoConnectWithMaster(s), w)
<1>1. s \in Server /\ OnlyOpen(s, s.s) /\ s.master = 0 /\ s.masterhost # NoHost
  BY DEF NotUp
<1>2. GivenUp(s, undoConnectWithMaster(s))
      /\ \A x \in SubSlaves : undoConnectWithMaster(s).copy[x] = Detached
  BY <1>1, UndoIs DEF NotUp
<1>3. QED
  BY <1>1, <1>2, GivenUpInv DEF Good, Linked, GivenUp

LEMMA FreeMasterGood ==
  ASSUME IInv, Following(srv, written[srv.masterhost]), NEW w
  PROVE  Good(freeMaster(srv), w)
<1>1. srv \in Server /\ OnlyOpen(srv, srv.master) /\ srv.tmpfile = NoFile
      /\ srv.masterhost # NoHost
  BY DEF IInv, TypeOK, Following, LinkedBy
<1>2. GivenUp(srv, freeMaster(srv))
      /\ \A x \in SubSlaves : freeMaster(srv).copy[x] = Detached
  BY <1>1, FreeMasterIs
<1>3. QED
  BY <1>1, <1>2, GivenUpInv DEF Good, Linked, GivenUp

-----------------------------------------------------------------------------
(* One connection changes, and nothing else *)

SameElse(s, t) ==
  /\ t.masterhost = s.masterhost /\ t.replstate = s.replstate /\ t.master = s.master
  /\ t.s = s.s /\ t.left = s.left /\ t.tmpfile = s.tmpfile /\ t.data = s.data
  /\ t.copy = s.copy

WithConn(s, fd, new) == [s EXCEPT !.conn[fd] = new]

LEMMA NewConnection ==
  ASSUME NEW s \in Server, NEW fd \in Descriptors, NEW new \in Conn, NEW t,
         t = WithConn(s, fd, new)
  PROVE  /\ t \in Server /\ t.conn[fd] = new /\ SameElse(s, t)
         /\ \A g \in Descriptors : g # fd => t.conn[g] = s.conn[g]
         /\ OnlyOpen(s, fd) => OnlyOpen(t, fd)
<1> DEFINE conns == [s.conn EXCEPT ![fd] = new]
<1>1. t = [s EXCEPT !.conn = conns]
  BY DEF WithConn
<1>2. /\ conns \in [Descriptors -> Conn] /\ conns[fd] = new
      /\ \A g \in Descriptors : g # fd => conns[g] = s.conn[g]
  BY DEF Server
<1> HIDE DEF conns
<1>3. t \in Server /\ t.conn = conns /\ SameElse(s, t)
  BY <1>1, <1>2 DEF Server, SameElse
<1>4. QED
  BY <1>2, <1>3 DEF OnlyOpen

SameConn(c, d) == /\ d.peer = c.peer /\ d.handler = c.handler /\ (d.asked <=> c.asked)
                  /\ (d.online <=> c.online) /\ (d.lost <=> c.lost)

(* What is sent on a connection is read, or more of it is sent.              *)
LEMMA NewSent ==
  ASSUME NEW c \in Conn, NEW q \in Seq(Item), NEW d, d = [c EXCEPT !.sent = q]
  PROVE  d \in Conn /\ d.sent = q /\ SameConn(c, d)
<1>1. d \in Conn
  BY DEF Conn
<1>2. /\ d.sent = q /\ d.peer = c.peer /\ d.handler = c.handler /\ d.asked = c.asked
      /\ d.online = c.online /\ d.lost = c.lost
  BY Zenon DEF Conn
<1>3. QED
  BY <1>1, <1>2 DEF SameConn

ReadSent(s, fd) == [s EXCEPT !.conn[fd].sent = Tail(@)]

LEMMA ReadOne ==
  ASSUME NEW s \in Server, NEW fd \in Descriptors, s.conn[fd].sent # <<>>, NEW t,
         t = ReadSent(s, fd)
  PROVE  /\ t \in Server /\ SameElse(s, t) /\ SameConn(s.conn[fd], t.conn[fd])
         /\ s.conn[fd].sent \in Seq(Item) /\ t.conn[fd].sent = Tail(s.conn[fd].sent)
         /\ OnlyOpen(s, fd) => OnlyOpen(t, fd)
<1>1. s.conn[fd] \in Conn /\ s.conn[fd].sent \in Seq(Item)
      /\ Tail(s.conn[fd].sent) \in Seq(Item)
  BY HeadTailProperties DEF Server, Conn
<1> DEFINE rest == Tail(s.conn[fd].sent)
           new == [s.conn[fd] EXCEPT !.sent = rest]
<1>2. t = WithConn(s, fd, new)
  BY DEF WithConn, ReadSent
<1> HIDE DEF rest
<1>3. new \in Conn /\ new.sent = rest /\ SameConn(s.conn[fd], new)
  <2>1. rest \in Seq(Item)
    BY <1>1 DEF rest
  <2>2. QED
    BY <1>1, <2>1, NewSent
<1>4. /\ t \in Server /\ t.conn[fd] = new /\ SameElse(s, t)
      /\ OnlyOpen(s, fd) => OnlyOpen(t, fd)
  <2> HIDE DEF new
  <2>1. new \in Conn
    BY <1>3
  <2>2. QED
    BY <1>2, <2>1, NewConnection
<1>5. QED
  BY <1>1, <1>3, <1>4 DEF rest

-----------------------------------------------------------------------------
(* Every handler keeps the invariant *)

LEMMA syncWithMasterGood ==
  ASSUME IInv, NEW fd \in Descriptors, syncWithMaster(fd)
  PROVE  Good(srv', written')
<1>1. Connecting(srv) /\ fd = srv.s /\ srv.replstate = "connecting" /\ NotUp(srv)
      /\ srv.tmpfile = NoFile /\ srv.conn[fd] \in Conn /\ srv \in Server
  BY HandlerIs, ConnectingIs DEF syncWithMaster, IInv, TypeOK
<1> DEFINE failed == [close(srv, fd) EXCEPT !.replstate = "connect"]
           new == [srv.conn[fd] EXCEPT !.handler = "readSyncBulkPayload", !.asked = TRUE]
           begun == [srv EXCEPT !.conn[fd] = new, !.replstate = "transfer", !.left = -1,
                                !.tmpfile = <<>>]
<1>2. srv' = failed \/ srv' = begun
  BY <1>1 DEF syncWithMaster
<1>3. CASE srv' = failed
  <2> DEFINE c == close(srv, fd)
  <2>1. c \in Server /\ c.master = 0 /\ c.tmpfile = NoFile /\ c.masterhost = srv.masterhost
        /\ c.copy = srv.copy /\ c.data = srv.data
        /\ \A g \in Descriptors : c.conn[g] = Closed
    <3>1. /\ close(srv, fd) \in Server
          /\ \A g \in Descriptors : close(srv, fd).conn[g] = Closed
      BY <1>1, CloseLast DEF NotUp
    <3>2. close(srv, fd).master = 0 /\ close(srv, fd).tmpfile = NoFile
          /\ close(srv, fd).masterhost = srv.masterhost
          /\ close(srv, fd).copy = srv.copy /\ close(srv, fd).data = srv.data
      BY <1>1, CloseIs DEF NotUp
    <3>3. QED
      BY <3>1, <3>2
  <2>2. srv' = [c EXCEPT !.replstate = "connect"]
    BY <1>3
  <2> HIDE DEF c
  <2>3. GivenUp(srv, srv') /\ srv'.copy = srv.copy
    BY <2>1, <2>2 DEF GivenUp, NoLink, Server, States
  <2>4. QED
    BY <1>1, <2>3, GivenUpInv DEF Good, Linked, GivenUp, NotUp
<1>4. CASE srv' = begun
  <2>1. ~srv.conn[fd].online /\ srv.conn[fd].sent = <<>> /\ srv.conn[fd].peer = srv.masterhost
    BY <1>1 DEF Connecting, LinkedBy
  <2>2. /\ new \in Conn /\ new.handler = "readSyncBulkPayload" /\ new.asked
        /\ ~new.online /\ new.sent = <<>> /\ new.peer = srv.masterhost
    BY <1>1, <2>1 DEF Conn
  <2> HIDE DEF new
  <2>3. [srv.conn EXCEPT ![fd] = new] \in [Descriptors -> Conn]
    BY <1>1, <2>2 DEF Server
  <2>4. /\ srv'.conn = [srv.conn EXCEPT ![fd] = new]
        /\ srv'.replstate = "transfer" /\ srv'.left = -1 /\ srv'.tmpfile = <<>>
        /\ srv'.master = srv.master /\ srv'.masterhost = srv.masterhost
        /\ srv'.s = srv.s /\ srv'.copy = srv.copy /\ srv' \in Server
    <3> DEFINE conns == [srv.conn EXCEPT ![fd] = new]
    <3>1. srv' = [srv EXCEPT !.conn = conns, !.replstate = "transfer", !.left = -1,
                             !.tmpfile = <<>>]
      BY <1>4
    <3>2. conns \in [Descriptors -> Conn] /\ -1 \in Int /\ <<>> \in Seq(Item)
          /\ "transfer" \in States
      BY <2>3, Distinct DEF States
    <3> HIDE DEF conns
    <3>3. QED
      BY <1>1, <3>1, <3>2 DEF Server, conns
  <2>5. /\ srv'.conn[fd] = new /\ fd \in Descriptors
        /\ \A g \in Descriptors : g # fd => srv'.conn[g] = srv.conn[g]
    BY <1>1, <2>4 DEF Server
  <2>6. Unanswered(srv', srv'.conn[srv'.s])
    BY <1>1, <2>2, <2>4, <2>5, Distinct DEF Unanswered
  <2>7. OnlyOpen(srv', fd)
    BY <1>1, <2>5 DEF OnlyOpen, NotUp
  <2>8. Transferring(srv', written'[srv'.masterhost])
    BY <1>1, <2>2, <2>4, <2>5, <2>6, <2>7, Distinct DEF Transferring, LinkedBy, NotUp
  <2>9. QED
    BY <1>1, <2>4, <2>8 DEF Good, Linked, Served, NotUp
<1>5. QED
  BY <1>2, <1>3, <1>4

(* The first line of the answer: a newline, the length, or an error.         *)
LEMMA BulkCountGood ==
  ASSUME IInv, Transferring(srv, written[srv.masterhost]), NEW s, srv.left = -1,
         srv.conn[srv.s].sent # <<>>,
         s = ReadSent(srv, srv.s)
  PROVE  Good(BulkCount(s, Head(srv.conn[srv.s].sent)), written)
<1> DEFINE fd == srv.s
           sent == srv.conn[fd].sent
           all == written[srv.masterhost]
<1>1. srv \in Server /\ fd \in Descriptors /\ NotUp(srv) /\ OnlyOpen(srv, fd)
  BY TransferringIs DEF IInv, TypeOK, NotUp, OnlyOpen
<1>2. /\ s \in Server /\ SameElse(srv, s) /\ SameConn(srv.conn[fd], s.conn[fd])
      /\ sent \in Seq(Item) /\ s.conn[fd].sent = Tail(sent) /\ OnlyOpen(s, fd)
  <2>1. srv.conn[srv.s].sent # <<>> /\ srv.s \in Descriptors /\ OnlyOpen(srv, srv.s)
    BY <1>1
  <2>2. QED
    BY <1>1, <2>1, ReadOne
<1>3. /\ NotUp(s) /\ s.s = fd /\ s.left = -1 /\ s.tmpfile = srv.tmpfile
      /\ s.masterhost = srv.masterhost
      /\ s.replstate = "transfer" /\ s.tmpfile # NoFile
      /\ s.conn[fd].peer = s.masterhost /\ s.conn[fd].handler = "readSyncBulkPayload"
      /\ s.conn[fd].asked
  <2>1. NotUp(s) /\ s.s = fd /\ s.left = -1 /\ s.tmpfile = srv.tmpfile
        /\ s.masterhost = srv.masterhost /\ s.replstate = srv.replstate
    BY <1>1, <1>2 DEF NotUp, SameElse
  <2>2. /\ srv.replstate = "transfer" /\ srv.tmpfile # NoFile /\ srv.conn[fd].asked
        /\ srv.conn[fd].peer = srv.masterhost /\ srv.conn[fd].handler = "readSyncBulkPayload"
    BY DEF Transferring, LinkedBy
  <2>3. QED
    BY <1>2, <2>1, <2>2 DEF SameConn
<1>4. CASE Unanswered(srv, srv.conn[fd])
  <2>1. Head(sent).kind \in {"newline", "error"}
    BY <1>2, <1>4 DEF Unanswered
  <2>2. CASE Head(sent).kind = "newline"
    <3>1. BulkCount(s, Head(sent)) = s
      BY <2>2 DEF BulkCount
    <3>2. ~s.conn[fd].lost => s.conn[fd].sent = <<>>
      <4>1. s.conn[fd].lost <=> srv.conn[fd].lost
        BY <1>2 DEF SameConn
      <4>2. ~srv.conn[fd].lost => sent \in {<<>>, <<Newline>>}
        BY <1>4 DEF Unanswered
      <4>3. ASSUME sent = <<Newline>>
            PROVE  Tail(sent) = <<>>
        BY <4>3
      <4>4. sent # <<>> /\ s.conn[fd].sent = Tail(sent)
        BY <1>2
      <4>5. QED
        BY <4>1, <4>2, <4>3, <4>4
    <3>3. \A i \in 1..Len(s.conn[fd].sent) : s.conn[fd].sent[i].kind \in {"newline", "error"}
      <4> DEFINE q == srv.conn[srv.s].sent
      <4>1. /\ q \in Seq(Item) /\ q # <<>> /\ s.conn[fd].sent = Tail(q)
            /\ \A i \in 1..Len(q) : q[i].kind \in {"newline", "error"}
        BY <1>2, <1>4 DEF Unanswered
      <4> HIDE DEF q
      <4>2. Len(Tail(q)) = Len(q) - 1 /\ Len(q) \in Nat
            /\ \A i \in 1..Len(q) - 1 : Tail(q)[i] = q[i + 1]
        BY <4>1
      <4>3. \A i \in 1..Len(q) - 1 : i + 1 \in 1..Len(q)
        BY <4>2
      <4>4. QED
        <5> DEFINE r == s.conn[fd].sent
                   n == Len(q) - 1
        <5>1. r = Tail(q) /\ Len(r) = n /\ n \in Int
          BY <4>1, <4>2
        <5>2. \A i \in 1..n : r[i] = q[i + 1] /\ i + 1 \in 1..Len(q)
          BY <4>2, <4>3, <5>1
        <5> HIDE DEF r, n
        <5>3. \A i \in 1..n : r[i].kind \in {"newline", "error"}
          BY <4>1, <5>2
        <5>4. QED
          BY <5>1, <5>3 DEF r
    <3>4. Unanswered(s, s.conn[fd])
      BY <1>2, <1>3, <1>4, <3>2, <3>3 DEF Unanswered, SameConn
    <3>5. QED
      BY <1>3, <1>4, <3>1, <3>4, StillTransferring
  <2>3. CASE Head(sent).kind = "error"
    <3>1. BulkCount(s, Head(sent)) = replicationAbortSyncTransfer(s)
      BY <2>3 DEF BulkCount
    <3>2. QED
      BY <1>3, <3>1, AbortGood
  <2>4. QED
    BY <2>1, <2>2, <2>3
<1>5. CASE Answered(srv, srv.conn[fd], all)
  <2>1. PICK k \in Nat, w \in Nat, before \in {<<>>, <<Newline>>} :
          /\ k <= w /\ UpTo(srv.conn[fd], w, all)
          /\ sent = before \o Answer(srv.masterhost, k, w)
    BY <1>5 DEF Answered
  <2> DEFINE rest == Stream(srv.masterhost, k, w)
             answer == Answer(srv.masterhost, k, w)
  <2>2. /\ rest \in Seq(Item) /\ answer \in Seq(Item)
        /\ Head(answer).kind = "bulk" /\ Tail(answer) = rest
    BY <1>1, <2>1, AnswerIs DEF Server
  <2>3. sent = before \o answer
    BY <2>1
  <2> HIDE DEF rest, answer
  <2>5. CASE before = <<Newline>>
    <3>1. Head(sent) = Newline /\ Tail(sent) = answer
      BY <2>2, <2>3, <2>5 DEF Newline, Item
    <3>2. BulkCount(s, Head(sent)) = s
      BY <3>1 DEF BulkCount, Newline
    <3>3. s.conn[fd].sent = <<>> \o answer
      <4>1. s.conn[fd].sent = answer
        BY <1>2, <3>1
      <4>2. QED
        BY <2>2, <4>1, ConcatSimplifications
    <3>4. UpTo(s.conn[fd], w, all)
      BY <1>2, <2>1 DEF UpTo, SameConn
    <3>5. s.conn[fd].online /\ s.tmpfile = <<>>
      BY <1>2, <1>3, <1>5 DEF Answered, SameConn
    <3>6. Answered(s, s.conn[fd], all)
      BY <1>3, <2>1, <3>3, <3>4, <3>5 DEF Answered, answer
    <3>7. QED
      BY <1>3, <3>2, <3>6, StillTransferring
  <2>6. CASE before = <<>>
    <3>1. Head(sent).kind = "bulk" /\ Tail(sent) = rest
      <4>1. sent = answer
        BY <2>2, <2>3, <2>6, ConcatSimplifications
      <4>2. QED
        BY <2>2, <4>1
    <3> DEFINE t == [s EXCEPT !.left = Parts]
    <3>2. BulkCount(s, Head(sent)) = t
      BY <3>1 DEF BulkCount
    <3>3. t \in Server /\ t.conn = s.conn /\ t.left = Parts
      <4>1. s \in Server /\ Parts \in Int
        BY <1>2
      <4>2. QED
        BY <4>1 DEF Server
    <3>4. /\ t.tmpfile = s.tmpfile /\ t.s = s.s /\ t.masterhost = s.masterhost
          /\ t.replstate = s.replstate /\ t.master = s.master /\ t.copy = s.copy
      BY <1>2 DEF Server
    <3>5. t.tmpfile = <<>>
      BY <1>3, <1>5, <3>4 DEF Answered
    <3> HIDE DEF t
    <3>6. NotUp(t)
      BY <1>3, <3>3, <3>4 DEF NotUp, OnlyOpen
    <3>7. UpTo(t.conn[fd], w, all) /\ t.conn[fd].online
      <4>1. t.conn[fd].lost <=> srv.conn[fd].lost
        BY <1>2, <3>3 DEF SameConn
      <4>2. t.conn[fd].online
        BY <1>2, <1>5, <3>3 DEF SameConn, Answered
      <4>3. QED
        BY <2>1, <4>1, <4>2 DEF UpTo
    <3>8. t.tmpfile \o t.conn[fd].sent = rest
      <4>1. t.conn[fd].sent = rest
        BY <1>2, <3>1, <3>3
      <4>2. QED
        BY <2>2, <3>5, <4>1, ConcatSimplifications
    <3>9. Receiving(t, t.conn[fd], all)
      <4>1. t.left \in 1..Parts /\ t.tmpfile \in Seq(Item) /\ Len(t.tmpfile) = Parts - t.left
        BY <3>3, <3>5, Distinct
      <4>2. t.tmpfile \o t.conn[fd].sent = Stream(t.masterhost, k, w)
        BY <1>3, <3>4, <3>8 DEF rest
      <4>3. QED
        BY <2>1, <3>7, <4>1, <4>2 DEF Receiving
    <3>10. QED
      BY <1>3, <3>2, <3>3, <3>4, <3>5, <3>6, <3>9, Distinct, StillTransferring
  <2>7. QED
    BY <2>5, <2>6
<1>6. CASE Receiving(srv, srv.conn[fd], all)
  BY <1>6 DEF Receiving
<1>7. QED
  BY <1>4, <1>5, <1>6 DEF Transferring

(* All the parts of the dump are there: it is loaded.                        *)
LEMMA LoadedGood ==
  ASSUME NEW t, NotUp(t), NEW ws, NEW k \in Nat, NEW w \in Nat, k <= w,
         t.conn[t.s].peer = t.masterhost, t.conn[t.s].online,
         UpTo(t.conn[t.s], w, ws[t.masterhost]),
         t.tmpfile \in Seq(Item), Len(t.tmpfile) = Parts,
         t.tmpfile \o t.conn[t.s].sent = Stream(t.masterhost, k, w)
  PROVE  Good(Loaded(t), ws)
<1> DEFINE fd == t.s
           m == t.masterhost
           c == t.conn[fd]
           all == ws[m]
           dump == Dump(m, k)
           u == Loaded(t)
<1>1. t \in Server /\ fd \in Descriptors /\ m \in Hosts /\ m # NoHost
      /\ \A g \in Descriptors : g # fd => t.conn[g] = Closed
  BY DEF NotUp, OnlyOpen, Server
<1>2. c \in Conn /\ c.sent \in Seq(Item) /\ t.conn \in [Descriptors -> Conn]
  BY <1>1 DEF Server, Conn
<1>3. t.tmpfile = Whole(dump) /\ c.sent = Writes(m, k, w)
  <2> DEFINE a == t.tmpfile
             b == c.sent
             d == Whole(dump)
             e == Writes(m, k, w)
  <2>1. d \in Seq(Item) /\ Len(d) = Parts /\ e \in Seq(Item)
    BY <1>1, StreamIs
  <2>2. a \in Seq(Item) /\ b \in Seq(Item) /\ Len(a) = Parts
    BY <1>2
  <2>3. a \o b = d \o e
    BY DEF Stream
  <2> HIDE DEF a, b, d, e
  <2>4. a = d /\ b = e
    BY <2>1, <2>2, <2>3, SplitAt
  <2>5. QED
    BY <2>4 DEF a, b, d, e
<1>4. dump \in Seq(WriteItem) /\ rdbLoad(t.tmpfile) = dump
  <2>1. dump \in Seq(WriteItem)
    BY <1>1, DumpIs
  <2>2. QED
    BY <1>3, <2>1, LoadOfWhole
<1>5. dump \o c.sent = Dump(m, w)
  BY <1>1, <1>3, DumpConcat
<1> DEFINE new == [c EXCEPT !.handler = "readQueryFromClient"]
           conns == [t.conn EXCEPT ![fd] = new]
<1>6. u = [t EXCEPT !.data = dump, !.tmpfile = NoFile, !.master = fd, !.conn = conns,
                    !.replstate = "connected"]
  BY <1>4 DEF Loaded
<1>7. /\ new \in Conn /\ new.handler = "readQueryFromClient" /\ new.peer = m
      /\ new.sent = c.sent
  BY <1>2 DEF Conn
<1>8. new.online = c.online /\ new.lost = c.lost
  BY <1>2, Zenon DEF Conn
<1>9. new.online /\ UpTo(new, w, all)
  <2> HIDE DEF new
  <2>1. QED
    BY <1>8 DEF UpTo
<1> HIDE DEF new
<1>10. conns \in [Descriptors -> Conn] /\ conns[fd] = new
       /\ \A g \in Descriptors : g # fd => conns[g] = Closed
  BY <1>1, <1>2, <1>7
<1> HIDE DEF conns, dump
<1>11. /\ u \in Server /\ u.data = dump /\ u.tmpfile = NoFile /\ u.master = fd
       /\ u.conn = conns /\ u.replstate = "connected" /\ u.masterhost = m /\ u.copy = t.copy
  <2>1. t \in Server /\ dump \in Seq(WriteItem) /\ conns \in [Descriptors -> Conn]
        /\ fd \in Descriptors /\ "connected" \in States
    BY <1>1, <1>4, <1>10 DEF States
  <2> HIDE DEF u
  <2>2. QED
    BY <1>6, <2>1 DEF Server
<1> HIDE DEF u
<1>12. LinkedBy(u, fd, "readQueryFromClient")
  BY <1>1, <1>7, <1>10, <1>11 DEF LinkedBy, OnlyOpen
<1>13. u.data \o new.sent = Dump(m, w)
  BY <1>5, <1>7, <1>11
<1>14. Following(u, ws[u.masterhost])
  BY <1>9, <1>10, <1>11, <1>12, <1>13 DEF Following
<1>15. Served(u)
  BY <1>11 DEF Served, NotUp
<1>16. QED
  BY <1>11, <1>14, <1>15 DEF Good, Linked, u

(* A part of the dump is received, and perhaps the last.                     *)
LEMMA ReceivedGood ==
  ASSUME IInv, Transferring(srv, written[srv.masterhost]), NEW s, srv.left # -1,
         srv.conn[srv.s].sent # <<>>, s = ReadSent(srv, srv.s), NEW t,
         t = Received(s, Head(srv.conn[srv.s].sent))
  PROVE  /\ NotUp(s) /\ NotUp(t)
         /\ Good(IF t.left = 0 THEN Loaded(t) ELSE t, written)
<1> DEFINE fd == srv.s
           old == srv.tmpfile
           left == srv.left
           sent == srv.conn[fd].sent
           all == written[srv.masterhost]
           file == Append(old, Head(sent))
           more == Tail(sent)
<1>1. srv \in Server /\ fd \in Descriptors /\ NotUp(srv) /\ OnlyOpen(srv, fd)
      /\ srv.replstate = "transfer"
  BY TransferringIs DEF IInv, TypeOK, NotUp, OnlyOpen
<1>2. /\ s \in Server /\ SameElse(srv, s) /\ SameConn(srv.conn[fd], s.conn[fd])
      /\ sent \in Seq(Item) /\ s.conn[fd].sent = more /\ OnlyOpen(s, fd)
  <2>1. srv.conn[srv.s].sent # <<>> /\ srv.s \in Descriptors /\ OnlyOpen(srv, srv.s)
    BY <1>1
  <2>2. QED
    BY <1>1, <2>1, ReadOne
<1>3. Receiving(srv, srv.conn[fd], all)
  BY DEF Transferring, Unanswered, Answered
<1>4. PICK k \in Nat, w \in Nat :
        /\ k <= w /\ UpTo(srv.conn[fd], w, all)
        /\ old \o sent = Stream(srv.masterhost, k, w)
  BY <1>3 DEF Receiving
<1>5. old \in Seq(Item) /\ left \in 1..Parts /\ Len(old) = Parts - left
  BY <1>3 DEF Receiving
<1>6. /\ file \o more = Stream(srv.masterhost, k, w)
      /\ file \in Seq(Item) /\ Len(file) = Len(old) + 1
  <2>1. sent \in Seq(Item) /\ sent # <<>>
    BY <1>2
  <2> HIDE DEF old, sent
  <2>2. file \o more = old \o sent /\ file \in Seq(Item) /\ Head(sent) \in Item
    BY <1>5, <2>1, MoveOne
  <2>3. Len(file) = Len(old) + 1
    BY <1>5, <2>2, AppendProperties
  <2>4. QED
    BY <1>4, <2>2, <2>3
<1>7. t = [s EXCEPT !.tmpfile = file, !.left = left - 1]
  BY <1>2 DEF SameElse, Received
<1> HIDE DEF file, more
<1>8. /\ t.tmpfile = file /\ t.left = left - 1 /\ t \in Server /\ t.conn = s.conn
      /\ t.masterhost = s.masterhost /\ t.replstate = s.replstate /\ t.master = s.master
      /\ t.s = s.s /\ t.copy = s.copy
  <2>1. left - 1 \in Int /\ s \in Server /\ file \in Seq(Item)
    BY <1>2, <1>5, <1>6
  <2> HIDE DEF left
  <2>2. QED
    BY <1>7, <2>1 DEF Server
<1>9. /\ t.masterhost = srv.masterhost /\ t.replstate = "transfer" /\ t.s = fd
      /\ t.master = srv.master /\ t.copy = srv.copy
  BY <1>1, <1>2, <1>8 DEF SameElse
<1>10. NotUp(s) /\ NotUp(t)
  <2>1. NotUp(s)
    BY <1>1, <1>2 DEF NotUp, SameElse
  <2>2. OnlyOpen(t, fd)
    BY <1>2, <1>8 DEF OnlyOpen
  <2>3. NotUp(t)
    BY <1>1, <1>8, <1>9, <2>2 DEF NotUp
  <2>4. QED
    BY <2>1, <2>3
<1>11. /\ t.conn[fd].peer = t.masterhost /\ t.conn[fd].handler = "readSyncBulkPayload"
       /\ t.conn[fd].asked /\ t.conn[fd].online /\ UpTo(t.conn[fd], w, all)
       /\ t.conn[fd].sent = more
  <2>1. srv.conn[fd].asked /\ srv.conn[fd].online
        /\ srv.conn[fd].peer = srv.masterhost /\ srv.conn[fd].handler = "readSyncBulkPayload"
    BY <1>3 DEF Transferring, LinkedBy, Receiving
  <2>2. UpTo(s.conn[fd], w, all)
    BY <1>2, <1>4 DEF SameConn, UpTo
  <2>3. /\ s.conn[fd].asked /\ s.conn[fd].online /\ s.conn[fd].peer = srv.masterhost
        /\ s.conn[fd].handler = "readSyncBulkPayload"
    BY <1>2, <2>1 DEF SameConn
  <2>4. t.conn[fd] = s.conn[fd] /\ t.masterhost = srv.masterhost /\ s.conn[fd].sent = more
    BY <1>2, <1>8, <1>9
  <2>5. QED
    BY <2>2, <2>3, <2>4
<1>12. t.tmpfile \o t.conn[fd].sent = Stream(t.masterhost, k, w)
  BY <1>6, <1>8, <1>9, <1>11
<1>13. Len(t.tmpfile) = Parts - t.left /\ t.left \in 0..Parts
  <2>1. Len(t.tmpfile) = Len(old) + 1
    BY <1>6, <1>8
  <2>2. t.left = left - 1
    BY <1>8
  <2> HIDE DEF left, old
  <2>3. QED
    BY <1>5, <2>1, <2>2
<1>14. t.tmpfile \in Seq(Item) /\ t.tmpfile # NoFile
  BY <1>6, <1>8, Distinct
<1> HIDE DEF sent, old, left
<1>15. CASE t.left = 0
  <2>1. Len(t.tmpfile) = Parts
    BY <1>13, <1>15
  <2>2. UpTo(t.conn[t.s], w, written[t.masterhost]) /\ t.conn[t.s].online
        /\ t.conn[t.s].peer = t.masterhost
        /\ t.tmpfile \o t.conn[t.s].sent = Stream(t.masterhost, k, w)
    BY <1>9, <1>11, <1>12
  <2>3. Good(Loaded(t), written)
    BY <1>4, <1>10, <1>14, <2>1, <2>2, LoadedGood
  <2>4. QED
    BY <1>10, <1>15, <2>3
<1>16. CASE t.left # 0
  <2>1. t.left \in 1..Parts
    BY <1>13, <1>16
  <2>2. Receiving(t, t.conn[fd], all)
    BY <1>4, <1>11, <1>12, <1>13, <1>14, <2>1 DEF Receiving
  <2>3. Receiving(t, t.conn[t.s], written[t.masterhost]) /\ t.conn[t.s].asked
        /\ t.conn[t.s].peer = t.masterhost /\ t.conn[t.s].handler = "readSyncBulkPayload"
    BY <1>9, <1>11, <2>2
  <2>4. Good(t, written)
    BY <1>9, <1>10, <1>14, <2>3, StillTransferring
  <2>5. QED
    BY <1>10, <1>16, <2>4
<1>17. QED
  BY <1>15, <1>16

(* The transfer fails at its end: the dataset is gone already.               *)
LEMMA NotLoadedGood ==
  ASSUME NEW t, NotUp(t), NEW w
  PROVE  Good(NotLoaded(t), w)
<1> DEFINE a == replicationAbortSyncTransfer(t)
           u == [a EXCEPT !.data = <<>>]
<1>1. Good(a, w) /\ GivenUp(t, a) /\ a.copy = t.copy
  BY AbortGood, AbortIs DEF NotUp
<1>2. NotLoaded(t) = u
  BY DEF NotLoaded
<1> HIDE DEF a
<1>3. /\ u \in Server /\ u.conn = a.conn /\ u.master = a.master /\ u.tmpfile = a.tmpfile
      /\ u.replstate = a.replstate /\ u.masterhost = a.masterhost /\ u.copy = a.copy
  <2>1. a \in Server /\ <<>> \in Seq(WriteItem)
    BY <1>1 DEF GivenUp
  <2>2. QED
    BY <2>1 DEF Server
<1> HIDE DEF u
<1>4. Unlinked(u) /\ Served(u)
  BY <1>1, <1>3 DEF GivenUp, NoLink, Unlinked, Served, NotUp
<1>5. QED
  BY <1>2, <1>3, <1>4 DEF Good, Linked

LEMMA readSyncBulkPayloadGood ==
  ASSUME IInv, NEW fd \in Descriptors, readSyncBulkPayload(fd)
  PROVE  Good(srv', written')
<1>1. /\ Transferring(srv, written[srv.masterhost]) /\ fd = srv.s /\ NotUp(srv)
      /\ srv \in Server /\ OnlyOpen(srv, fd) /\ written' = written
  BY HandlerIs, TransferringIs DEF readSyncBulkPayload, NotUp
<1> DEFINE sent == srv.conn[fd].sent
           s == ReadSent(srv, fd)
           t == Received(s, Head(sent))
<1>2. \/ sent = <<>> /\ srv' = replicationAbortSyncTransfer(srv)
      \/ sent # <<>> /\ srv.left = -1 /\ srv' = BulkCount(s, Head(sent))
      \/ sent # <<>> /\ srv.left # -1 /\ srv' = (IF t.left = 0 THEN Loaded(t) ELSE t)
      \/ sent # <<>> /\ srv' = replicationAbortSyncTransfer(s)
      \/ sent # <<>> /\ srv.left = 1 /\ srv' = NotLoaded(t)
  BY DEF readSyncBulkPayload, ReadSent
<1>3. CASE sent = <<>> /\ srv' = replicationAbortSyncTransfer(srv)
  BY <1>1, <1>3, AbortGood
<1>4. CASE sent # <<>> /\ srv.left = -1 /\ srv' = BulkCount(s, Head(sent))
  BY <1>1, <1>4, BulkCountGood
<1>5. CASE sent # <<>> /\ srv.left # -1 /\ srv' = (IF t.left = 0 THEN Loaded(t) ELSE t)
  BY <1>1, <1>5, ReceivedGood
<1>6. CASE sent # <<>> /\ srv' = replicationAbortSyncTransfer(s)
  <2>1. s \in Server /\ SameElse(srv, s) /\ OnlyOpen(s, fd)
    BY <1>1, <1>6, ReadOne
  <2>2. NotUp(s)
    BY <1>1, <2>1 DEF NotUp, SameElse
  <2>3. QED
    BY <1>6, <2>2, AbortGood
<1>7. CASE sent # <<>> /\ srv.left = 1 /\ srv' = NotLoaded(t)
  <2>1. NotUp(t)
    BY <1>1, <1>7, ReceivedGood
  <2>2. QED
    BY <1>7, <2>1, NotLoadedGood
<1>8. QED
  BY <1>2, <1>3, <1>4, <1>5, <1>6, <1>7

(* A write is run: the slaves of this server run it as well.                 *)
LEMMA RunIs ==
  ASSUME NEW s \in Server, NEW item \in WriteItem, Served(s),
         s.masterhost = NoHost \/ s.replstate = "connected", NEW t, t = Run(s, item)
  PROVE  /\ t \in Server /\ t.data = Append(s.data, item) /\ t.conn = s.conn
         /\ t.masterhost = s.masterhost /\ t.replstate = s.replstate /\ t.master = s.master
         /\ t.tmpfile = s.tmpfile /\ Served(t)
<1> DEFINE data == Append(s.data, item)
           copy == [x \in SubSlaves |-> IF s.copy[x] = Detached THEN s.copy[x]
                                        ELSE Append(s.copy[x], item)]
<1>1. data \in Seq(WriteItem) /\ copy \in [SubSlaves -> Seq(WriteItem) \cup {Detached}]
  <2>1. s.data \in Seq(WriteItem) /\ s.copy \in [SubSlaves -> Seq(WriteItem) \cup {Detached}]
    BY DEF Server
  <2>2. QED
    BY <2>1, AppendProperties
<1>2. \A x \in SubSlaves : copy[x] # Detached => copy[x] = data
  BY DEF Served
<1>3. t = [s EXCEPT !.data = data, !.copy = copy]
  BY DEF Run
<1> HIDE DEF data, copy
<1>4. /\ t \in Server /\ t.data = data /\ t.conn = s.conn /\ t.copy = copy
      /\ t.masterhost = s.masterhost /\ t.replstate = s.replstate /\ t.master = s.master
      /\ t.tmpfile = s.tmpfile
  BY <1>1, <1>3 DEF Server
<1>5. QED
  BY <1>2, <1>4 DEF Served, data

LEMMA readQueryFromClientGood ==
  ASSUME IInv, NEW fd \in Descriptors, readQueryFromClient(fd)
  PROVE  Good(srv', written')
<1> DEFINE sent == srv.conn[fd].sent
           s == ReadSent(srv, fd)
<1>1. /\ Following(srv, written[srv.masterhost]) /\ fd = srv.master /\ written' = written
      /\ srv \in Server /\ OnlyOpen(srv, fd) /\ srv.masterhost # NoHost
      /\ srv.replstate = "connected" /\ srv.tmpfile = NoFile /\ srv.conn[fd].online
  BY HandlerIs DEF readQueryFromClient, Following, LinkedBy, IInv, TypeOK
<1>2. srv' = IF sent # <<>> THEN Run(s, Head(sent)) ELSE freeMaster(srv)
  BY DEF readQueryFromClient, ReadSent
<1>3. CASE sent # <<>>
  <2>1. /\ s \in Server /\ SameElse(srv, s) /\ SameConn(srv.conn[fd], s.conn[fd])
        /\ sent \in Seq(Item) /\ s.conn[fd].sent = Tail(sent) /\ OnlyOpen(s, fd)
    BY <1>1, <1>3, ReadOne
  <2>2. PICK w \in Nat : /\ UpTo(srv.conn[fd], w, written[srv.masterhost])
                         /\ srv.data \o sent = Dump(srv.masterhost, w)
    BY <1>1 DEF Following
  <2>3. srv.data \in Seq(WriteItem) /\ srv.data \in Seq(Item) /\ srv.masterhost \in Hosts
    BY <1>1 DEF Server, Item
  <2>4. Dump(srv.masterhost, w) \in Seq(WriteItem)
    BY <2>3, DumpIs
  <2>5. Head(sent) \in WriteItem
    <3> DEFINE d == srv.data
               q == srv.conn[fd].sent
    <3>1. d \in Seq(Item) /\ q \in Seq(Item) /\ q # <<>> /\ d \o q \in Seq(WriteItem)
      BY <1>3, <2>1, <2>2, <2>3, <2>4
    <3> HIDE DEF d, q
    <3>2. /\ Len(d \o q) = Len(d) + Len(q) /\ Len(d) \in Nat /\ Len(q) \in Nat \ {0}
          /\ (d \o q)[Len(d) + 1] = q[1]
      BY <3>1
    <3>3. q[1] \in WriteItem
      BY <3>1, <3>2
    <3>4. Head(q) = q[1]
      BY <3>1
    <3>5. QED
      BY <3>3, <3>4 DEF q
  <2>6. Append(srv.data, Head(sent)) \o Tail(sent) = srv.data \o sent
    <3> DEFINE d == srv.data
               q == srv.conn[fd].sent
    <3>1. d \in Seq(Item) /\ q \in Seq(Item) /\ q # <<>>
      BY <1>3, <2>1, <2>3
    <3> HIDE DEF d, q
    <3>2. Append(d, Head(q)) \o Tail(q) = d \o q
      BY <3>1, MoveOne
    <3>3. QED
      BY <3>2 DEF d, q
  <2>7. Served(s) /\ s.replstate = "connected" /\ s.master = fd /\ s.data = srv.data
        /\ s.masterhost = srv.masterhost /\ s.tmpfile = NoFile
    BY <1>1, <2>1 DEF Served, SameElse, IInv
  <2> DEFINE t == Run(s, Head(sent))
  <2>8. /\ t \in Server /\ t.data = Append(srv.data, Head(sent)) /\ t.conn = s.conn
        /\ t.masterhost = srv.masterhost /\ t.replstate = "connected" /\ t.master = fd
        /\ t.tmpfile = NoFile /\ Served(t)
    BY <2>1, <2>5, <2>7, RunIs
  <2> HIDE DEF s
  <2>9. srv' = t
    BY <1>2, <1>3
  <2> HIDE DEF t
  <2>10. /\ t.conn[fd].online /\ t.conn[fd].peer = t.masterhost
         /\ t.conn[fd].handler = "readQueryFromClient" /\ t.conn[fd].sent = Tail(sent)
         /\ UpTo(t.conn[fd], w, written[t.masterhost])
    <3>1. srv.conn[fd].peer = srv.masterhost /\ srv.conn[fd].handler = "readQueryFromClient"
      BY <1>1 DEF Following, LinkedBy
    <3>2. UpTo(s.conn[fd], w, written[srv.masterhost])
      BY <2>1, <2>2 DEF SameConn, UpTo
    <3>3. s.conn[fd].online /\ s.conn[fd].peer = srv.masterhost
          /\ s.conn[fd].handler = "readQueryFromClient"
      BY <1>1, <2>1, <3>1 DEF SameConn
    <3>4. QED
      BY <2>1, <2>8, <3>2, <3>3
  <2>11. t.data \o t.conn[fd].sent = Dump(t.masterhost, w)
    BY <2>2, <2>6, <2>8, <2>10
  <2>12. LinkedBy(t, fd, "readQueryFromClient")
    BY <1>1, <2>1, <2>8, <2>10 DEF LinkedBy, OnlyOpen
  <2>13. Following(t, written[t.masterhost])
    BY <2>8, <2>10, <2>11, <2>12 DEF Following
  <2>14. QED
    BY <1>1, <2>8, <2>9, <2>13 DEF Good, Linked
<1>4. CASE sent = <<>>
  BY <1>1, <1>2, <1>4, FreeMasterGood
<1>5. QED
  BY <1>3, <1>4

-----------------------------------------------------------------------------
(* Every command, and the cron, keeps it                                     *)

(* A link there is not, to whatever master, or none.                         *)
LEMMA UnlinkedGood ==
  ASSUME NEW s \in Server, NoLink(s), NEW state,
         state = IF s.masterhost = NoHost THEN "none" ELSE "connect",
         Served([s EXCEPT !.replstate = state]), NEW w
  PROVE  Good([s EXCEPT !.replstate = state], w)
  BY DEF Server, States, NoLink, Unlinked, Good, Linked

(* The configured master becomes h, before anything else is done.            *)
SetHost(h) == [srv EXCEPT !.masterhost = h]

LEMMA SetHostIs ==
  ASSUME IInv, NEW h \in Hosts, NEW s, s = SetHost(h)
  PROVE  /\ s \in Server /\ s.masterhost = h /\ s.replstate = srv.replstate
         /\ s.master = srv.master /\ s.s = srv.s /\ s.tmpfile = srv.tmpfile
         /\ s.data = srv.data /\ s.conn = srv.conn /\ s.copy = srv.copy
  BY DEF IInv, TypeOK, Server, SetHost

LEMMA slaveofCommandGood ==
  ASSUME IInv, ~SlaveofWhileConnecting, NEW m \in Masters, slaveofCommand(m)
  PROVE  Good(srv', written')
<1> DEFINE a == SetHost(m)
           b == FreeMasterIf(a)
           s == disconnectSlaves(b)
           t == IF s.replstate = "transfer" THEN replicationAbortSyncTransfer(s) ELSE s
<1>1. srv' = [t EXCEPT !.replstate = "connect"] /\ srv.replstate # "connecting"
  BY DEF slaveofCommand, SetHost
<1>2. m # NoHost /\ m \in Hosts
  BY DEF Hosts
<1>3. /\ a \in Server /\ a.masterhost = m /\ a.replstate = srv.replstate
      /\ a.master = srv.master /\ a.s = srv.s /\ a.tmpfile = srv.tmpfile
      /\ a.conn = srv.conn
  BY <1>2, SetHostIs
<1> HIDE DEF a
<1>4. t \in Server /\ NoLink(t) /\ t.masterhost = m /\ \A x \in SubSlaves : t.copy[x] = Detached
  <2>1. CASE Unlinked(srv)
    <3>1. b = a
      BY <1>3, <2>1 DEF FreeMasterIf, Unlinked, NoLink
    <3>2. NoLink(a) /\ a.replstate # "transfer"
      BY <1>3, <2>1 DEF Unlinked, NoLink
    <3>3. /\ s \in Server /\ s.replstate # "transfer" /\ NoLink(s) /\ s.masterhost = m
          /\ \A x \in SubSlaves : s.copy[x] = Detached
      BY <1>3, <3>1, <3>2, DisconnectIs DEF NoLink
    <3>4. QED
      BY <3>3
  <2>2. CASE Transferring(srv, written[srv.masterhost])
    <3>1. srv.master = 0 /\ OnlyOpen(srv, srv.s) /\ srv.replstate = "transfer"
      BY <2>2 DEF Transferring, LinkedBy
    <3>2. b = a
      BY <1>3, <3>1 DEF FreeMasterIf
    <3>3. OnlyOpen(a, a.s) /\ a.master = 0 /\ a.replstate = "transfer"
      BY <1>3, <3>1 DEF OnlyOpen
    <3>4. /\ s \in Server /\ s.replstate = "transfer" /\ OnlyOpen(s, s.s) /\ s.masterhost = m
          /\ s.master = 0 /\ \A x \in SubSlaves : s.copy[x] = Detached
      BY <1>3, <3>2, <3>3, DisconnectIs DEF OnlyOpen
    <3> HIDE DEF s
    <3>5. GivenUp(s, t) /\ t.copy = s.copy
      BY <3>4, AbortIs
    <3>6. QED
      BY <3>4, <3>5 DEF GivenUp
  <2>3. CASE Following(srv, written[srv.masterhost])
    <3>1. OnlyOpen(srv, srv.master) /\ srv.tmpfile = NoFile
      BY <2>3 DEF Following, LinkedBy
    <3>2. OnlyOpen(a, a.master) /\ a.tmpfile = NoFile /\ a.master # 0
      BY <1>3, <3>1 DEF OnlyOpen
    <3>3. b = freeMaster(a)
      BY <3>2 DEF FreeMasterIf
    <3>4. GivenUp(a, b)
      BY <1>3, <3>2, <3>3, FreeMasterIs
    <3> HIDE DEF b
    <3>5. b \in Server /\ NoLink(b) /\ b.replstate = "connect" /\ b.masterhost = m
      BY <1>3, <3>4 DEF GivenUp
    <3>6. /\ s \in Server /\ s.replstate # "transfer" /\ NoLink(s) /\ s.masterhost = m
          /\ \A x \in SubSlaves : s.copy[x] = Detached
      BY <3>5, DisconnectIs DEF NoLink
    <3>7. QED
      BY <3>6
  <2>4. QED
    BY <1>1, <2>1, <2>2, <2>3 DEF IInv, Linked, Connecting
<1> HIDE DEF t
<1>5. Served([t EXCEPT !.replstate = "connect"])
  BY <1>4 DEF Served, Server
<1>6. QED
  BY <1>1, <1>2, <1>4, <1>5, UnlinkedGood

LEMMA slaveofNoOneGood ==
  ASSUME IInv, slaveofNoOne
  PROVE  Good(srv', written')
<1> DEFINE a == SetHost(NoHost)
           s == FreeMasterIf(a)
           t == CASE s.replstate = "transfer" -> replicationAbortSyncTransfer(s)
                  [] s.replstate = "connecting" -> undoConnectWithMaster(s)
                  [] OTHER -> s
<1>1. srv' = [t EXCEPT !.replstate = "none"] /\ srv.masterhost # NoHost
  BY DEF slaveofNoOne, SetHost
<1>2. /\ a \in Server /\ a.masterhost = NoHost /\ a.replstate = srv.replstate
      /\ a.master = srv.master /\ a.s = srv.s /\ a.tmpfile = srv.tmpfile
      /\ a.conn = srv.conn /\ a.data = srv.data /\ a.copy = srv.copy
  BY SetHostIs DEF Hosts
<1> HIDE DEF a
<1>3. /\ t \in Server /\ NoLink(t) /\ t.masterhost = NoHost
      /\ t.copy = srv.copy /\ t.data = srv.data
  <2>1. CASE Unlinked(srv)
    <3>1. s = a
      BY <1>2, <2>1 DEF FreeMasterIf, Unlinked, NoLink
    <3>2. NoLink(a) /\ a.replstate = "connect"
      BY <1>1, <1>2, <2>1 DEF Unlinked, NoLink
    <3>3. t = a
      BY <3>1, <3>2
    <3>4. QED
      BY <1>2, <3>2, <3>3
  <2>2. CASE Transferring(srv, written[srv.masterhost])
    <3>1. srv.master = 0 /\ OnlyOpen(srv, srv.s) /\ srv.replstate = "transfer"
      BY <2>2 DEF Transferring, LinkedBy
    <3>2. s = a
      BY <1>2, <3>1 DEF FreeMasterIf
    <3>3. OnlyOpen(a, a.s) /\ a.master = 0 /\ t = replicationAbortSyncTransfer(a)
      BY <1>2, <3>1, <3>2 DEF OnlyOpen
    <3>4. GivenUp(a, t) /\ t.copy = a.copy
      BY <1>2, <3>3, AbortIs
    <3>5. QED
      BY <1>2, <3>4 DEF GivenUp
  <2>3. CASE Connecting(srv)
    <3>1. srv.master = 0 /\ OnlyOpen(srv, srv.s) /\ srv.replstate = "connecting"
          /\ srv.tmpfile = NoFile
      BY <2>3 DEF Connecting, LinkedBy
    <3>2. s = a
      BY <1>2, <3>1 DEF FreeMasterIf
    <3>3. /\ OnlyOpen(a, a.s) /\ a.master = 0 /\ a.tmpfile = NoFile
          /\ t = undoConnectWithMaster(a)
      BY <1>2, <3>1, <3>2 DEF OnlyOpen
    <3>4. GivenUp(a, t) /\ t.copy = a.copy
      BY <1>2, <3>3, UndoIs
    <3>5. QED
      BY <1>2, <3>4 DEF GivenUp
  <2>4. CASE Following(srv, written[srv.masterhost])
    <3>1. OnlyOpen(srv, srv.master) /\ srv.tmpfile = NoFile
      BY <2>4 DEF Following, LinkedBy
    <3>2. OnlyOpen(a, a.master) /\ a.tmpfile = NoFile /\ a.master # 0
      BY <1>2, <3>1 DEF OnlyOpen
    <3>3. s = freeMaster(a)
      BY <3>2 DEF FreeMasterIf
    <3>4. GivenUp(a, s) /\ s.copy = a.copy
      BY <1>2, <3>2, <3>3, FreeMasterIs
    <3> HIDE DEF s
    <3>5. t = s
      BY <3>4 DEF GivenUp
    <3>6. QED
      BY <1>2, <3>4, <3>5 DEF GivenUp
  <2>5. QED
    BY <2>1, <2>2, <2>3, <2>4 DEF IInv, Linked
<1> HIDE DEF t
<1>4. Served([t EXCEPT !.replstate = "none"])
  BY <1>3 DEF Served, Server, IInv
<1>5. QED
  BY <1>1, <1>3, <1>4, UnlinkedGood

(* The cron connects when there is no link, on the least free descriptor.    *)
Connects(s, t) ==
  IF s.replstate # "connect" THEN t = s
  ELSE LET free == {fd \in Descriptors : s.conn[fd] = Closed}
       IN  IF free = {} THEN t = s
           ELSE t = connectWithMaster(s, CHOOSE fd \in free : \A g \in free : fd <= g)

LEMMA ConnectsGood ==
  ASSUME NEW s, NEW w, Good(s, w), NEW t, Connects(s, t)
  PROVE  Good(t, w)
<1>1. CASE t = s
  BY <1>1
<1>2. CASE t # s
  <2> DEFINE free == {fd \in Descriptors : s.conn[fd] = Closed}
             fd == CHOOSE d \in free : \A g \in free : d <= g
  <2>1. s.replstate = "connect" /\ free # {} /\ t = connectWithMaster(s, fd)
    BY <1>2 DEF Connects
  <2>2. fd \in Descriptors
    <3>1. free \in SUBSET Descriptors /\ free # {}
      BY <2>1
    <3> HIDE DEF free
    <3>2. QED
      BY <3>1, LeastDescriptor
  <2> HIDE DEF fd
  <2>3. Unlinked(s) /\ s \in Server /\ Served(s)
    BY <2>1 DEF Good, Linked, Connecting, Transferring, Following
  <2>4. QED
    BY <2>1, <2>2, <2>3, ConnectIs DEF Good, Linked
<1>3. QED
  BY <1>1, <1>2

LEMMA replicationCronGood ==
  ASSUME IInv, replicationCron
  PROVE  Good(srv', written')
<1>1. Good(srv, written) /\ written' = written
  BY DEF Good, IInv, TypeOK, replicationCron
<1>2. Connects(srv, srv') \/ srv' = srv \/ (Late /\ Connects(TimedOut(srv), srv'))
  BY DEF replicationCron, Connects
<1>3. CASE Connects(srv, srv')
  BY <1>1, <1>3, ConnectsGood
<1>4. CASE Late /\ Connects(TimedOut(srv), srv')
  <2>1. CASE srv.replstate = "connecting"
    <3>1. Connecting(srv) /\ TimedOut(srv) = undoConnectWithMaster(srv)
      BY <2>1 DEF TimedOut, IInv, Linked, Unlinked, Transferring, Following
    <3>2. Good(TimedOut(srv), written)
      BY <3>1, ConnectingIs, UndoGood
    <3>3. QED
      BY <1>1, <1>4, <3>2, ConnectsGood
  <2>2. CASE srv.replstate = "transfer"
    <3>1. /\ Transferring(srv, written[srv.masterhost])
          /\ TimedOut(srv) = replicationAbortSyncTransfer(srv)
      BY <2>2 DEF TimedOut, IInv, Linked, Unlinked, Connecting, Following
    <3>2. Good(TimedOut(srv), written)
      BY <3>1, TransferringIs, AbortGood
    <3>3. QED
      BY <1>1, <1>4, <3>2, ConnectsGood
  <2>3. CASE srv.replstate = "connected"
    <3>1. Following(srv, written[srv.masterhost]) /\ TimedOut(srv) = freeMaster(srv)
      BY <2>3 DEF TimedOut, IInv, Linked, Unlinked, Connecting, Transferring
    <3>2. Good(TimedOut(srv), written)
      BY <3>1, FreeMasterGood
    <3>3. QED
      BY <1>1, <1>4, <3>2, ConnectsGood
  <2>4. QED
    BY <1>4, <2>1, <2>2, <2>3 DEF Late
<1>5. QED
  BY <1>1, <1>2, <1>3, <1>4

(* What only changes the slaves of this server changes no link.              *)
LEMMA CopyGood ==
  ASSUME IInv, NEW t, NEW copy \in [SubSlaves -> Seq(WriteItem) \cup {Detached}],
         t = [srv EXCEPT !.copy = copy], Served(t)
  PROVE  Good(t, written)
<1>1. /\ t \in Server /\ t.conn = srv.conn /\ t.replstate = srv.replstate /\ t.data = srv.data
      /\ t.masterhost = srv.masterhost /\ t.master = srv.master /\ t.s = srv.s
      /\ t.left = srv.left /\ t.tmpfile = srv.tmpfile
  BY DEF IInv, TypeOK, Server
<1>2. /\ Unlinked(srv) => Unlinked(t)
      /\ Connecting(srv) => Connecting(t)
  <2>1. Unlinked(srv) => Unlinked(t)
    BY <1>1 DEF Unlinked, NoLink
  <2>2. Connecting(srv) => Connecting(t)
    BY <1>1 DEF Connecting, LinkedBy, OnlyOpen
  <2>3. QED
    BY <2>1, <2>2
<1>3. Following(srv, written[srv.masterhost]) => Following(t, written[t.masterhost])
  BY <1>1 DEF Following, LinkedBy, OnlyOpen
<1>4. Transferring(srv, written[srv.masterhost]) => Transferring(t, written[t.masterhost])
  <2> DEFINE all == written[srv.masterhost]
  <2>1. /\ t.conn[t.s] = srv.conn[srv.s] /\ t.left = srv.left /\ t.tmpfile = srv.tmpfile
        /\ t.masterhost = srv.masterhost
    BY <1>1
  <2>2. Unanswered(srv, srv.conn[srv.s]) => Unanswered(t, t.conn[t.s])
    BY <2>1, Zenon DEF Unanswered
  <2>3. /\ Answered(srv, srv.conn[srv.s], all) => Answered(t, t.conn[t.s], all)
        /\ Receiving(srv, srv.conn[srv.s], all) => Receiving(t, t.conn[t.s], all)
    BY <2>1, Zenon DEF Answered, Receiving
  <2>4. LinkedBy(srv, srv.s, "readSyncBulkPayload") => LinkedBy(t, t.s, "readSyncBulkPayload")
    BY <1>1 DEF LinkedBy, OnlyOpen
  <2>5. QED
    BY <1>1, <2>2, <2>3, <2>4 DEF Transferring
<1>5. QED
  BY <1>1, <1>2, <1>3, <1>4 DEF IInv, Good, Linked

LEMMA syncCommandGood ==
  ASSUME IInv, NEW x \in SubSlaves, syncCommand(x)
  PROVE  Good(srv', written')
<1> DEFINE copy == [srv.copy EXCEPT ![x] = srv.data]
<1>1. srv' = [srv EXCEPT !.copy = copy] /\ written' = written
      /\ (srv.masterhost = NoHost \/ srv.replstate = "connected")
  BY DEF syncCommand
<1>2. srv \in Server /\ copy \in [SubSlaves -> Seq(WriteItem) \cup {Detached}]
  BY DEF IInv, TypeOK, Server
<1>3. \A y \in SubSlaves : copy[y] # Detached => copy[y] = srv.data
  BY <1>2 DEF IInv, Served, Server
<1> HIDE DEF copy
<1>4. /\ srv'.copy = copy /\ srv'.data = srv.data /\ srv'.masterhost = srv.masterhost
      /\ srv'.replstate = srv.replstate
  BY <1>1, <1>2 DEF Server
<1>5. Served(srv')
  BY <1>1, <1>3, <1>4 DEF Served
<1>6. QED
  BY <1>1, <1>2, <1>5, CopyGood

LEMMA disconnectGood ==
  ASSUME IInv, NEW x \in SubSlaves, disconnect(x)
  PROVE  Good(srv', written')
<1> DEFINE copy == [srv.copy EXCEPT ![x] = Detached]
<1>1. srv' = [srv EXCEPT !.copy = copy] /\ written' = written
  BY DEF disconnect
<1>2. srv \in Server /\ copy \in [SubSlaves -> Seq(WriteItem) \cup {Detached}]
  BY DEF IInv, TypeOK, Server
<1>3. \A y \in SubSlaves : copy[y] = srv.copy[y] \/ copy[y] = Detached
  BY <1>2 DEF Server
<1> HIDE DEF copy
<1>4. /\ srv'.copy = copy /\ srv'.data = srv.data /\ srv'.masterhost = srv.masterhost
      /\ srv'.replstate = srv.replstate
  BY <1>1, <1>2 DEF Server
<1>5. Served(srv')
  BY <1>3, <1>4 DEF Served, IInv
<1>6. QED
  BY <1>1, <1>2, <1>5, CopyGood

LEMMA writeCommandGood ==
  ASSUME IInv, writeCommand
  PROVE  Good(srv', written')
<1> DEFINE item == Write(NoHost, Len(srv.data) + 1)
<1>1. srv' = Run(srv, item) /\ srv.masterhost = NoHost /\ written' = written
  BY DEF writeCommand
<1>2. srv \in Server /\ Served(srv) /\ item \in WriteItem
  <2>1. srv \in Server /\ Served(srv)
    BY DEF IInv, TypeOK
  <2>2. Len(srv.data) + 1 \in Nat
    BY <2>1 DEF Server
  <2>3. QED
    BY <2>1, <2>2 DEF Write, WriteItem, Hosts
<1>3. Unlinked(srv)
  BY <1>1 DEF IInv, Linked, Connecting, Transferring, Following, LinkedBy
<1> HIDE DEF item
<1>4. /\ srv' \in Server /\ srv'.conn = srv.conn /\ srv'.masterhost = srv.masterhost
      /\ srv'.replstate = srv.replstate /\ srv'.master = srv.master
      /\ srv'.tmpfile = srv.tmpfile /\ Served(srv')
  BY <1>1, <1>2, RunIs
<1>5. QED
  BY <1>3, <1>4 DEF Good, Linked, Unlinked, NoLink

-----------------------------------------------------------------------------
(* Everything a master does, and the loss of a connection, keeps it          *)

(* The connection of a link changes, and nothing else.                       *)
LEMMA LinkChanges ==
  ASSUME NEW s \in Server, Served(s), NEW fd, OnlyOpen(s, fd), NEW new \in Conn, NEW t,
         t = WithConn(s, fd, new), new.peer = s.conn[fd].peer,
         new.handler = s.conn[fd].handler, new.asked = s.conn[fd].asked
  PROVE  /\ t \in Server /\ Served(t) /\ SameElse(s, t) /\ t.conn[fd] = new
         /\ \A h : LinkedBy(s, fd, h) => LinkedBy(t, fd, h)
         /\ OnlyOpen(t, fd)
<1>1. fd \in Descriptors
  BY DEF OnlyOpen
<1>2. t \in Server /\ t.conn[fd] = new /\ SameElse(s, t) /\ OnlyOpen(t, fd)
  BY <1>1, NewConnection
<1>3. Served(t)
  BY <1>2 DEF Served, SameElse
<1>4. \A h : LinkedBy(s, fd, h) => LinkedBy(t, fd, h)
  BY <1>2 DEF LinkedBy, SameElse
<1>5. QED
  BY <1>2, <1>3, <1>4

LEMMA ConnectionLostGood ==
  ASSUME IInv, NEW fd \in Descriptors, ConnectionLost(fd)
  PROVE  Good(srv', written')
<1> DEFINE c == srv.conn[fd]
           new == [c EXCEPT !.lost = TRUE]
           all == written[srv.masterhost]
<1>1. srv' = WithConn(srv, fd, new) /\ written' = written /\ c # Closed
      /\ srv \in Server /\ Served(srv)
  BY Distinct DEF ConnectionLost, WithConn, IInv, TypeOK
<1>2. c \in Conn
  BY <1>1 DEF Server
<1>3. /\ new \in Conn /\ new.peer = c.peer /\ new.handler = c.handler
      /\ new.sent = c.sent /\ new.lost
  BY <1>2 DEF Conn
<1>4. new.asked = c.asked /\ new.online = c.online
  BY <1>2, Zenon DEF Conn
<1> HIDE DEF new
<1>5. CASE Connecting(srv) /\ fd = srv.s
  <2>1. OnlyOpen(srv, fd)
    BY <1>5 DEF Connecting, LinkedBy
  <2>2. /\ srv' \in Server /\ Served(srv') /\ SameElse(srv, srv') /\ srv'.conn[fd] = new
        /\ LinkedBy(srv, fd, "syncWithMaster") => LinkedBy(srv', fd, "syncWithMaster")
    BY <1>1, <1>3, <1>4, <2>1, LinkChanges
  <2>3. Connecting(srv')
    BY <1>3, <1>4, <1>5, <2>2 DEF Connecting, SameElse
  <2>4. QED
    BY <2>2, <2>3 DEF Good, Linked
<1>6. CASE Transferring(srv, all) /\ fd = srv.s
  <2>1. OnlyOpen(srv, fd)
    BY <1>6 DEF Transferring, LinkedBy
  <2>2. /\ srv' \in Server /\ Served(srv') /\ SameElse(srv, srv') /\ srv'.conn[fd] = new
        /\ LinkedBy(srv, fd, "readSyncBulkPayload") => LinkedBy(srv', fd, "readSyncBulkPayload")
    BY <1>1, <1>3, <1>4, <2>1, LinkChanges
  <2>3. srv'.left = srv.left /\ srv'.tmpfile = srv.tmpfile /\ srv'.masterhost = srv.masterhost
        /\ srv'.s = fd
    BY <1>6, <2>2 DEF SameElse
  <2>4. Unanswered(srv, c) => Unanswered(srv', new)
    BY <1>3, <1>4, <2>3 DEF Unanswered
  <2>5. \A w : UpTo(c, w, all) => UpTo(new, w, all)
    BY <1>3 DEF UpTo
  <2>6. Answered(srv, c, all) => Answered(srv', new, all)
    BY <1>3, <1>4, <2>3, <2>5 DEF Answered
  <2>7. Receiving(srv, c, all) => Receiving(srv', new, all)
    BY <1>3, <1>4, <2>3, <2>5 DEF Receiving
  <2>8. Transferring(srv', all)
    <3>1. /\ srv'.replstate = "transfer" /\ srv'.master = 0 /\ srv'.tmpfile # NoFile
          /\ srv'.conn[srv'.s] = new /\ LinkedBy(srv', srv'.s, "readSyncBulkPayload")
          /\ new.asked
      BY <1>4, <1>6, <2>2, <2>3 DEF Transferring, SameElse
    <3>2. Unanswered(srv', new) \/ Answered(srv', new, all) \/ Receiving(srv', new, all)
      BY <1>6, <2>4, <2>6, <2>7 DEF Transferring
    <3>3. QED
      BY <3>1, <3>2 DEF Transferring
  <2>9. QED
    BY <1>1, <2>2, <2>3, <2>8 DEF Good, Linked
<1>7. CASE Following(srv, all) /\ fd = srv.master
  <2>1. OnlyOpen(srv, fd)
    BY <1>7 DEF Following, LinkedBy
  <2>2. /\ srv' \in Server /\ Served(srv') /\ SameElse(srv, srv') /\ srv'.conn[fd] = new
        /\ LinkedBy(srv, fd, "readQueryFromClient") => LinkedBy(srv', fd, "readQueryFromClient")
    BY <1>1, <1>3, <1>4, <2>1, LinkChanges
  <2>3. \A w : UpTo(c, w, all) => UpTo(new, w, all)
    BY <1>3 DEF UpTo
  <2>4. Following(srv', all)
    BY <1>3, <1>4, <1>7, <2>2, <2>3 DEF Following, SameElse
  <2>5. QED
    BY <1>1, <2>2, <2>4 DEF Good, Linked, SameElse
<1>8. QED
  BY <1>1, <1>5, <1>6, <1>7, HandlerIs

(* The answer is sent, or an error, or a newline.                            *)
LEMMA MasterAnswersGood ==
  ASSUME IInv, NEW fd \in Descriptors, MasterAnswers(fd)
  PROVE  Good(srv', written')
<1> DEFINE c == srv.conn[fd]
           m == srv.masterhost
           all == written[m]
           dump == <<[kind |-> "bulk"]>> \o Whole(Dump(m, all))
<1>1. c # Closed /\ c.asked /\ ~c.online /\ ~c.lost /\ written' = written
  BY Distinct DEF MasterAnswers
<1>2. Transferring(srv, all) /\ fd = srv.s /\ Unanswered(srv, c)
  BY <1>1, HandlerIs DEF Connecting, Transferring, Following, Answered, Receiving
<1>3. /\ srv \in Server /\ Served(srv) /\ c \in Conn /\ OnlyOpen(srv, fd)
      /\ m \in Masters /\ all \in Nat /\ c.peer = m /\ NotUp(srv)
      /\ LinkedBy(srv, fd, "readSyncBulkPayload") /\ srv.replstate = "transfer"
      /\ srv.tmpfile # NoFile /\ srv.left = -1 /\ srv.tmpfile = <<>>
  <2>1. srv \in Server /\ written \in [Masters -> Nat] /\ Served(srv)
    BY DEF IInv, TypeOK
  <2>2. c.peer = m /\ m # NoHost /\ OnlyOpen(srv, fd) /\ NotUp(srv)
        /\ LinkedBy(srv, fd, "readSyncBulkPayload") /\ srv.replstate = "transfer"
        /\ srv.tmpfile # NoFile /\ srv.left = -1 /\ srv.tmpfile = <<>>
    BY <1>2, TransferringIs DEF Transferring, LinkedBy, Unanswered
  <2>3. QED
    BY <2>1, <2>2 DEF Server, Hosts
<1>4. c.sent \in {<<>>, <<Newline>>} /\ c.sent \in Seq(Item)
  BY <1>1, <1>2, <1>3 DEF Unanswered, Conn
(* Items are sent, and then the connection is in the state of new.           *)
<1>5. ASSUME NEW items \in Seq(Item), NEW n, n = [c EXCEPT !.sent = c.sent \o items]
      PROVE  /\ n \in Conn /\ n.sent = c.sent \o items /\ SameConn(c, n)
             /\ Sends(srv, fd, items) = WithConn(srv, fd, n)
  <2> DEFINE q == c.sent \o items
  <2>1. q \in Seq(Item) /\ n = [c EXCEPT !.sent = q]
    BY <1>4, <1>5, ConcatProperties
  <2>2. Sends(srv, fd, items) = WithConn(srv, fd, n)
    BY <1>1, <1>5 DEF Sends, WithConn
  <2> HIDE DEF q
  <2>3. n \in Conn /\ n.sent = q /\ SameConn(c, n)
    BY <1>3, <2>1, NewSent
  <2>4. QED
    BY <2>2, <2>3 DEF q
<1>6. ASSUME NEW new \in Conn, NEW t, t \in Server, Served(t), SameElse(srv, t),
             t.conn[fd] = new, LinkedBy(t, fd, "readSyncBulkPayload"), new.asked,
             Unanswered(t, new) \/ Answered(t, new, all)
      PROVE  Good(t, written)
  <2>1. /\ t.masterhost = m /\ t.s = fd /\ t.master = 0 /\ t.replstate = "transfer"
        /\ t.tmpfile # NoFile
    BY <1>2, <1>3, <1>6 DEF SameElse, NotUp
  <2>2. Transferring(t, written[t.masterhost])
    BY <1>6, <2>1 DEF Transferring
  <2>3. QED
    BY <1>6, <2>2 DEF Good, Linked
<1>7. CASE srv' = [Sends(srv, fd, dump) EXCEPT !.conn[fd].online = TRUE]
  <2> DEFINE n == [c EXCEPT !.sent = c.sent \o dump]
             new == [n EXCEPT !.online = TRUE]
  <2>1. dump \in Seq(Item) /\ dump = Answer(m, all, all)
    <3>1. m \in Hosts
      BY <1>3 DEF Hosts
    <3>2. dump = Answer(m, all, all)
      BY <1>3, <3>1, StreamOfNone DEF Answer
    <3>3. Answer(m, all, all) \in Seq(Item)
      BY <1>3, <3>1, AnswerIs
    <3>4. QED
      BY <3>2, <3>3
  <2> HIDE DEF dump
  <2>2. /\ n \in Conn /\ n.sent = c.sent \o dump /\ SameConn(c, n)
        /\ Sends(srv, fd, dump) = WithConn(srv, fd, n)
    BY <1>5, <2>1
  <2> HIDE DEF n
  <2> DEFINE s == WithConn(srv, fd, n)
  <2>3. n.peer = c.peer /\ n.handler = c.handler /\ n.asked = c.asked /\ ~n.lost /\ n.asked
    BY <1>1, <1>3, <2>2 DEF SameConn, Conn
  <2>4. /\ s \in Server /\ Served(s) /\ SameElse(srv, s) /\ s.conn[fd] = n
        /\ LinkedBy(s, fd, "readSyncBulkPayload") /\ OnlyOpen(s, fd)
    BY <1>3, <2>2, <2>3, LinkChanges
  <2>5. srv' = WithConn(s, fd, new)
    BY <1>7, <2>2, <2>4 DEF WithConn
  <2>6. /\ new \in Conn /\ new.peer = n.peer /\ new.handler = n.handler
        /\ new.asked = n.asked /\ new.sent = n.sent
    BY <2>2 DEF Conn
  <2>7. new.online /\ ~new.lost
    BY <2>2, <2>3, Zenon DEF Conn
  <2> HIDE DEF s, new
  <2>8. /\ srv' \in Server /\ Served(srv') /\ SameElse(s, srv') /\ srv'.conn[fd] = new
        /\ LinkedBy(srv', fd, "readSyncBulkPayload")
    BY <2>4, <2>5, <2>6, LinkChanges
  <2>9. SameElse(srv, srv')
    BY <2>4, <2>8 DEF SameElse
  <2>10. Answered(srv', new, all)
    <3>1. srv'.left = -1 /\ srv'.tmpfile = <<>> /\ srv'.masterhost = m
      BY <1>3, <2>9 DEF SameElse
    <3>2. UpTo(new, all, all)
      BY <1>3 DEF UpTo
    <3>3. new.sent = c.sent \o Answer(m, all, all)
      BY <2>1, <2>2, <2>6
    <3> DEFINE q == c.sent
    <3>4. q \in {<<>>, <<Newline>>} /\ new.sent = q \o Answer(srv'.masterhost, all, all)
      BY <1>4, <3>1, <3>3
    <3>5. all \in Nat /\ all <= all
      BY <1>3
    <3> HIDE DEF q
    <3>6. QED
      BY <2>7, <3>1, <3>2, <3>4, <3>5 DEF Answered
  <2>11. QED
    BY <1>1, <1>6, <2>3, <2>6, <2>8, <2>9, <2>10
<1>8. CASE srv' = [Sends(srv, fd, <<[kind |-> "error"]>>) EXCEPT !.conn[fd].lost = TRUE]
  <2> DEFINE error == <<[kind |-> "error"]>>
             n == [c EXCEPT !.sent = c.sent \o error]
             new == [n EXCEPT !.lost = TRUE]
  <2>1. error \in Seq(Item)
    BY DEF Item
  <2>2. \A i \in 1..Len(c.sent \o error) : (c.sent \o error)[i].kind \in {"newline", "error"}
    <3>1. CASE c.sent = <<>>
      BY <3>1
    <3>2. CASE c.sent = <<Newline>>
      BY <3>2 DEF Newline
    <3>3. QED
      BY <1>4, <3>1, <3>2
  <2> HIDE DEF error
  <2>3. /\ n \in Conn /\ n.sent = c.sent \o error /\ SameConn(c, n)
        /\ Sends(srv, fd, error) = WithConn(srv, fd, n)
    BY <1>5, <2>1
  <2> HIDE DEF n
  <2> DEFINE s == WithConn(srv, fd, n)
  <2>4. n.peer = c.peer /\ n.handler = c.handler /\ n.asked = c.asked /\ ~n.online /\ n.asked
    BY <1>1, <1>3, <2>3 DEF SameConn, Conn
  <2>5. /\ s \in Server /\ Served(s) /\ SameElse(srv, s) /\ s.conn[fd] = n
        /\ LinkedBy(s, fd, "readSyncBulkPayload") /\ OnlyOpen(s, fd)
    BY <1>3, <2>3, <2>4, LinkChanges
  <2>6. srv' = WithConn(s, fd, new)
    BY <1>8, <2>3, <2>5 DEF WithConn, error
  <2>7. /\ new \in Conn /\ new.peer = n.peer /\ new.handler = n.handler
        /\ new.asked = n.asked /\ new.sent = n.sent
    BY <2>3 DEF Conn
  <2>8. ~new.online /\ new.lost
    BY <2>3, <2>4, Zenon DEF Conn
  <2> HIDE DEF s, new
  <2>9. /\ srv' \in Server /\ Served(srv') /\ SameElse(s, srv') /\ srv'.conn[fd] = new
        /\ LinkedBy(srv', fd, "readSyncBulkPayload")
    BY <2>5, <2>6, <2>7, LinkChanges
  <2>10. SameElse(srv, srv')
    BY <2>5, <2>9 DEF SameElse
  <2>11. Unanswered(srv', new)
    BY <1>3, <2>2, <2>3, <2>7, <2>8, <2>10 DEF Unanswered, SameElse
  <2>12. QED
    BY <1>1, <1>6, <2>4, <2>7, <2>9, <2>10, <2>11
<1>9. CASE c.sent = <<>> /\ srv' = Sends(srv, fd, <<Newline>>)
  <2> DEFINE items == <<Newline>>
             n == [c EXCEPT !.sent = c.sent \o items]
  <2>1. items \in Seq(Item)
    BY DEF Item, Newline
  <2>2. /\ n \in Conn /\ n.sent = c.sent \o items /\ SameConn(c, n)
        /\ Sends(srv, fd, items) = WithConn(srv, fd, n)
    BY <1>5, <2>1
  <2>3. n.sent = <<Newline>>
    BY <1>9, <2>1, <2>2, ConcatSimplifications
  <2> HIDE DEF n
  <2>4. /\ n.peer = c.peer /\ n.handler = c.handler /\ n.asked = c.asked /\ ~n.online
        /\ ~n.lost /\ n.asked
    BY <1>1, <1>3, <2>2 DEF SameConn, Conn
  <2>5. /\ srv' \in Server /\ Served(srv') /\ SameElse(srv, srv') /\ srv'.conn[fd] = n
        /\ LinkedBy(srv', fd, "readSyncBulkPayload")
    BY <1>3, <1>9, <2>2, <2>4, LinkChanges
  <2>6. Unanswered(srv', n)
    BY <1>3, <2>3, <2>4, <2>5 DEF Unanswered, SameElse, Newline
  <2>7. QED
    BY <1>1, <1>6, <2>2, <2>4, <2>5, <2>6
<1>10. QED
  BY <1>3, <1>7, <1>8, <1>9 DEF MasterAnswers, Newline

(* A master has one more write, and feeds it to those that follow it.        *)
LEMMA MasterWritesGood ==
  ASSUME IInv, NEW m \in Masters, MasterWrites(m)
  PROVE  Good(srv', written')
<1> DEFINE item == Write(m, written[m] + 1)
           Fed(conn) == IF conn.peer = m /\ conn.online /\ ~conn.lost
                        THEN [conn EXCEPT !.sent = Append(@, item)] ELSE conn
<1>1. /\ srv \in Server /\ Served(srv) /\ written \in [Masters -> Nat] /\ written[m] \in Nat
      /\ srv' = [srv EXCEPT !.conn = [fd \in Descriptors |-> Fed(srv.conn[fd])]]
      /\ written' = [written EXCEPT ![m] = written[m] + 1]
  BY DEF IInv, TypeOK, MasterWrites
<1>2. Fed(Closed) = Closed
  BY Distinct
<1>3. item \in WriteItem /\ item \in Item
  <2>1. written[m] + 1 \in Nat
    BY <1>1
  <2>2. QED
    BY <2>1 DEF Write, WriteItem, Item, Hosts
<1>4. ASSUME NEW fd \in Descriptors, OnlyOpen(srv, fd)
      PROVE  srv' = WithConn(srv, fd, Fed(srv.conn[fd]))
  <2> DEFINE conns == [g \in Descriptors |-> Fed(srv.conn[g])]
             new == Fed(srv.conn[fd])
  <2>1. \A g \in Descriptors : conns[g] = IF g = fd THEN new ELSE srv.conn[g]
    BY <1>2, <1>4 DEF OnlyOpen
  <2>2. srv' = [srv EXCEPT !.conn = conns]
    BY <1>1
  <2> HIDE DEF new
  <2>3. conns = [srv.conn EXCEPT ![fd] = new]
    BY <1>1, <2>1 DEF Server
  <2>4. srv' = [srv EXCEPT !.conn[fd] = new]
    <3> HIDE DEF conns
    <3>1. QED
      BY <2>2, <2>3
  <2>5. QED
    BY <2>4 DEF WithConn, new
<1>5. ASSUME NEW fd \in Descriptors, Fed(srv.conn[fd]) = srv.conn[fd], OnlyOpen(srv, fd)
      PROVE  srv' = srv
  <2>1. srv' = WithConn(srv, fd, srv.conn[fd])
    BY <1>4, <1>5
  <2> DEFINE conns == [srv.conn EXCEPT ![fd] = srv.conn[fd]]
  <2>2. conns = srv.conn
    BY <1>1 DEF Server
  <2>3. srv' = [srv EXCEPT !.conn = conns]
    BY <2>1 DEF WithConn
  <2> HIDE DEF conns
  <2>4. QED
    BY <1>1, <2>2, <2>3 DEF Server
(* Unless it is the master of this server, that has answered.                *)
<1>6. ASSUME NEW c \in Conn, c.peer # m \/ ~c.online \/ c.lost
      PROVE  Fed(c) = c
  BY <1>6
<1>7. ASSUME NEW c \in Conn, c.peer = m, c.online, ~c.lost
      PROVE  /\ Fed(c) \in Conn /\ Fed(c).sent = Append(c.sent, item)
             /\ SameConn(c, Fed(c))
  <2> DEFINE q == Append(c.sent, item)
             d == [c EXCEPT !.sent = q]
  <2>1. q \in Seq(Item) /\ Fed(c) = d
    <3>1. c.sent \in Seq(Item)
      BY DEF Conn
    <3>2. QED
      BY <1>3, <1>7, <3>1, AppendProperties
  <2> HIDE DEF q
  <2>2. d \in Conn /\ d.sent = q /\ SameConn(c, d)
    BY <2>1, NewSent
  <2>3. QED
    BY <2>1, <2>2 DEF q
<1> HIDE DEF Fed, item
<1>8. CASE Unlinked(srv)
  <2>1. [fd \in Descriptors |-> Fed(srv.conn[fd])] = srv.conn
    BY <1>1, <1>2, <1>8 DEF Unlinked, NoLink, Server
  <2>2. srv' = srv
    BY <1>1, <2>1 DEF Server
  <2>3. QED
    BY <1>1, <1>8, <2>2 DEF Good, Linked
<1>9. CASE Connecting(srv)
  <2> DEFINE fd == srv.s
  <2>1. fd \in Descriptors /\ OnlyOpen(srv, fd) /\ ~srv.conn[fd].online /\ srv.conn[fd] \in Conn
    BY <1>1, <1>9 DEF Connecting, LinkedBy, OnlyOpen, Server
  <2>2. srv' = srv
    BY <1>5, <1>6, <2>1
  <2>3. QED
    BY <1>1, <1>9, <2>2 DEF Good, Linked
<1> DEFINE h == srv.masterhost
           fed(c) == c.peer = m /\ c.online /\ ~c.lost
<1>10. ASSUME NEW c, c.peer = h, h \in Masters, c.peer # m \/ c.lost,
              NEW w \in Nat, UpTo(c, w, written[h])
       PROVE  UpTo(c, w, written'[h])
  <2>1. written[h] \in Nat /\ written'[h] = IF h = m THEN written[h] + 1 ELSE written[h]
    BY <1>1, <1>10
  <2>2. QED
    BY <1>10, <2>1 DEF UpTo
<1>11. ASSUME NEW c \in Conn, c.peer = h, fed(c), NEW w \in Nat, UpTo(c, w, written[h])
       PROVE  item = Write(h, w + 1) /\ UpTo(Fed(c), w + 1, written'[h])
  <2>1. h = m /\ w = written[m] /\ written'[h] = w + 1
    BY <1>1, <1>11 DEF UpTo
  <2>2. UpTo(Fed(c), w + 1, written'[h])
    <3>1. w + 1 <= w + 1
      OBVIOUS
    <3>2. QED
      BY <2>1, <3>1 DEF UpTo
  <2>3. QED
    BY <2>1, <2>2 DEF item
(* The writer is the master of this server: its link changes like this.      *)
<1>12. ASSUME NEW fd, OnlyOpen(srv, fd), fed(srv.conn[fd]), NEW hn, LinkedBy(srv, fd, hn)
       PROVE  /\ srv' \in Server /\ Served(srv') /\ SameElse(srv, srv')
              /\ srv'.conn[fd] = Fed(srv.conn[fd]) /\ LinkedBy(srv', fd, hn)
              /\ Fed(srv.conn[fd]).sent = Append(srv.conn[fd].sent, item)
              /\ SameConn(srv.conn[fd], Fed(srv.conn[fd]))
              /\ srv.conn[fd].sent \in Seq(Item) /\ srv.conn[fd] \in Conn
              /\ srv.conn[fd].peer = h /\ h \in Masters
  <2> DEFINE c == srv.conn[fd]
             new == Fed(c)
  <2>1. fd \in Descriptors /\ c \in Conn /\ c.sent \in Seq(Item) /\ c.peer = h /\ h \in Masters
    BY <1>1, <1>12 DEF OnlyOpen, Server, Conn, LinkedBy
  <2>2. new \in Conn /\ new.sent = Append(c.sent, item) /\ SameConn(c, new)
    BY <1>7, <1>12, <2>1
  <2>3. new.peer = c.peer /\ new.handler = c.handler /\ new.asked = c.asked
    BY <2>1, <2>2 DEF SameConn, Conn
  <2>4. srv' = WithConn(srv, fd, new)
    BY <1>4, <1>12, <2>1
  <2> HIDE DEF new
  <2>5. /\ srv' \in Server /\ Served(srv') /\ SameElse(srv, srv')
        /\ srv'.conn[fd] = new /\ LinkedBy(srv', fd, hn)
    <3>1. srv \in Server /\ Served(srv) /\ OnlyOpen(srv, fd) /\ LinkedBy(srv, fd, hn)
      BY <1>1, <1>12
    <3>2. /\ new \in Conn /\ srv' = WithConn(srv, fd, new) /\ new.peer = srv.conn[fd].peer
          /\ new.handler = srv.conn[fd].handler /\ new.asked = srv.conn[fd].asked
      BY <2>2, <2>3, <2>4
    <3>3. QED
      BY <3>1, <3>2, LinkChanges
  <2>6. QED
    BY <2>1, <2>2, <2>5 DEF new
<1>13. CASE Transferring(srv, written[h])
  <2> DEFINE fd == srv.s
             c == srv.conn[fd]
  <2>1. /\ fd \in Descriptors /\ OnlyOpen(srv, fd) /\ LinkedBy(srv, fd, "readSyncBulkPayload")
        /\ c \in Conn /\ c.peer = h /\ h \in Masters /\ NotUp(srv)
        /\ srv.replstate = "transfer" /\ srv.tmpfile # NoFile /\ c.asked
    <3>1. NotUp(srv) /\ srv.tmpfile # NoFile /\ srv.replstate = "transfer" /\ c \in Conn
      BY <1>13, TransferringIs
    <3>2. /\ fd \in Descriptors /\ OnlyOpen(srv, fd) /\ LinkedBy(srv, fd, "readSyncBulkPayload")
          /\ c.peer = h /\ h # NoHost /\ c.asked
      BY <1>13 DEF Transferring, LinkedBy, OnlyOpen
    <3>3. QED
      BY <1>1, <3>1, <3>2 DEF Server, Hosts
  <2>2. CASE ~fed(c)
    <3>1. srv' = srv
      BY <1>5, <1>6, <2>1, <2>2
    <3>2. Unanswered(srv, c) => Unanswered(srv', c)
      BY <3>1
    <3>3. c.online => \A w \in Nat : UpTo(c, w, written[h]) => UpTo(c, w, written'[h])
      BY <1>10, <2>1, <2>2
    <3>4. Answered(srv, c, written[h]) => Answered(srv', c, written'[h])
      BY <3>1, <3>3 DEF Answered
    <3>5. Receiving(srv, c, written[h]) => Receiving(srv', c, written'[h])
      BY <3>1, <3>3 DEF Receiving
    <3>6. Unanswered(srv, c) \/ Answered(srv, c, written'[h]) \/ Receiving(srv, c, written'[h])
      BY <1>13, <3>1, <3>2, <3>4, <3>5 DEF Transferring
    <3>7. LinkedBy(srv, fd, "readSyncBulkPayload") => srv.conn[fd].handler = "readSyncBulkPayload"
      BY DEF LinkedBy
    <3>8. Good(srv, written')
      BY <2>1, <3>6, <3>7, StillTransferring
    <3>9. QED
      BY <3>1, <3>8
  <2>3. CASE fed(c)
    <3> DEFINE new == Fed(c)
    <3>1. /\ srv' \in Server /\ Served(srv') /\ SameElse(srv, srv') /\ srv'.conn[fd] = new
          /\ LinkedBy(srv', fd, "readSyncBulkPayload")
          /\ new.sent = Append(c.sent, item) /\ SameConn(c, new) /\ c.sent \in Seq(Item)
      BY <1>12, <2>1, <2>3
    <3>2. /\ srv'.s = fd /\ srv'.masterhost = h /\ srv'.left = srv.left /\ srv'.master = 0
          /\ srv'.tmpfile = srv.tmpfile /\ srv'.replstate = "transfer" /\ new.online /\ new.asked
      BY <2>1, <2>3, <3>1 DEF SameElse, SameConn, NotUp
    <3>3. \A w \in Nat : UpTo(c, w, written[h]) =>
            item = Write(h, w + 1) /\ UpTo(new, w + 1, written'[h])
      BY <1>11, <2>1, <2>3
    <3> HIDE DEF new
    <3>4. ASSUME Answered(srv, c, written[h])
          PROVE  Answered(srv', new, written'[h])
      <4>1. PICK k \in Nat, w \in Nat, before \in {<<>>, <<Newline>>} :
              k <= w /\ UpTo(c, w, written[h]) /\ c.sent = before \o Answer(h, k, w)
        BY <3>4 DEF Answered
      <4> DEFINE x == w + 1
                 a == Answer(h, k, w)
      <4>2. x \in Nat /\ k <= x /\ UpTo(new, x, written'[h]) /\ item = Write(h, x)
        BY <3>3, <4>1
      <4>3. Append(a, item) = Answer(h, k, x) /\ a \in Seq(Item)
        <5>1. h \in Hosts /\ k \in Nat /\ w \in Nat /\ k <= w
          BY <2>1, <4>1 DEF Hosts
        <5>2. Append(Answer(h, k, w), Write(h, w + 1)) = Answer(h, k, w + 1)
          BY <5>1, StreamAppend
        <5>3. Answer(h, k, w) \in Seq(Item)
          BY <5>1, AnswerIs
        <5>4. QED
          BY <4>2, <5>2, <5>3
      <4>4. before \in Seq(Item)
        <5>1. Newline \in Item
          BY DEF Newline, Item
        <5>2. <<>> \in Seq(Item) /\ <<Newline>> \in Seq(Item)
          BY <5>1
        <5>3. QED
          BY <4>1, <5>2
      <4>5. c.sent = before \o a
        BY <4>1
      <4> HIDE DEF a, x
      <4>6. Append(before \o a, item) = before \o Append(a, item)
        BY <1>3, <4>3, <4>4, AppendConcat
      <4>7. new.sent = before \o Answer(srv'.masterhost, k, x)
        BY <3>1, <3>2, <4>3, <4>5, <4>6
      <4>8. srv'.left = -1 /\ srv'.tmpfile = <<>>
        BY <3>2, <3>4 DEF Answered
      <4>9. QED
        BY <3>2, <4>1, <4>2, <4>7, <4>8 DEF Answered
    <3>5. ASSUME Receiving(srv, c, written[h])
          PROVE  Receiving(srv', new, written'[h])
      <4>1. PICK k \in Nat, w \in Nat :
              k <= w /\ UpTo(c, w, written[h]) /\ srv.tmpfile \o c.sent = Stream(h, k, w)
        BY <3>5 DEF Receiving
      <4> DEFINE x == w + 1
                 f == srv.tmpfile
                 q == c.sent
      <4>2. x \in Nat /\ k <= x /\ UpTo(new, x, written'[h]) /\ item = Write(h, x)
        BY <3>3, <4>1
      <4>3. Append(Stream(h, k, w), item) = Stream(h, k, x)
        <5>1. h \in Hosts /\ k \in Nat /\ w \in Nat /\ k <= w
          BY <2>1, <4>1 DEF Hosts
        <5>2. Append(Stream(h, k, w), Write(h, w + 1)) = Stream(h, k, w + 1)
          BY <5>1, StreamAppend
        <5>3. QED
          BY <4>2, <5>2
      <4>4. f \in Seq(Item) /\ q \in Seq(Item) /\ f \o q = Stream(h, k, w)
        BY <3>1, <3>5, <4>1 DEF Receiving
      <4>5. new.sent = Append(q, item) /\ srv'.tmpfile = f
        BY <3>1, <3>2
      <4> HIDE DEF f, q, x
      <4>6. Append(f \o q, item) = f \o Append(q, item)
        BY <1>3, <4>4, AppendConcat
      <4>7. srv'.tmpfile \o new.sent = Stream(srv'.masterhost, k, x)
        BY <3>2, <4>3, <4>4, <4>5, <4>6
      <4>8. srv'.left \in 1..Parts /\ srv'.tmpfile \in Seq(Item) /\ Len(srv'.tmpfile) = Parts - srv'.left
        BY <3>2, <3>5 DEF Receiving
      <4>9. QED
        BY <3>2, <4>2, <4>7, <4>8 DEF Receiving
    <3>6. ~Unanswered(srv, c)
      BY <2>3 DEF Unanswered
    <3>7. Answered(srv', new, written'[h]) \/ Receiving(srv', new, written'[h])
      BY <1>13, <3>4, <3>5, <3>6 DEF Transferring
    <3>8. Transferring(srv', written'[srv'.masterhost])
      BY <2>1, <3>1, <3>2, <3>7 DEF Transferring
    <3>9. QED
      BY <3>1, <3>8 DEF Good, Linked
  <2>4. QED
    BY <2>2, <2>3
<1>14. CASE Following(srv, written[h])
  <2> DEFINE fd == srv.master
             c == srv.conn[fd]
  <2>1. /\ fd \in Descriptors /\ OnlyOpen(srv, fd) /\ LinkedBy(srv, fd, "readQueryFromClient")
        /\ c \in Conn /\ c.peer = h /\ h \in Masters
        /\ srv.replstate = "connected" /\ srv.tmpfile = NoFile /\ c.online
    BY <1>1, <1>14 DEF Following, LinkedBy, OnlyOpen, Server, Hosts
  <2>2. PICK w \in Nat : UpTo(c, w, written[h]) /\ srv.data \o c.sent = Dump(h, w)
    BY <1>14 DEF Following
  <2>3. CASE ~fed(c)
    <3>1. srv' = srv
      BY <1>5, <1>6, <2>1, <2>3
    <3>2. UpTo(c, w, written'[h])
      BY <1>10, <2>1, <2>2, <2>3
    <3>3. Following(srv, written'[h])
      BY <2>1, <2>2, <3>2 DEF Following
    <3>4. QED
      BY <1>1, <3>1, <3>3 DEF Good, Linked
  <2>4. CASE fed(c)
    <3> DEFINE new == Fed(c)
               x == w + 1
               d == srv.data
               q == c.sent
    <3>1. /\ srv' \in Server /\ Served(srv') /\ SameElse(srv, srv') /\ srv'.conn[fd] = new
          /\ LinkedBy(srv', fd, "readQueryFromClient")
          /\ new.sent = Append(q, item) /\ SameConn(c, new) /\ q \in Seq(Item)
      BY <1>12, <2>1, <2>4
    <3>2. UpTo(new, x, written'[h]) /\ item = Write(h, x) /\ x \in Nat
      BY <1>11, <2>1, <2>2, <2>4
    <3>3. /\ srv'.master = fd /\ srv'.masterhost = h /\ srv'.replstate = "connected"
          /\ srv'.tmpfile = NoFile /\ srv'.data = d /\ new.online
      BY <2>1, <3>1 DEF SameElse, SameConn
    <3>4. d \in Seq(Item) /\ d \o q = Dump(h, w)
      BY <1>1, <2>2 DEF Server, Item
    <3>5. Append(Dump(h, w), item) = Dump(h, x)
      <4>1. h \in Hosts /\ 0 \in Nat /\ 0 <= w /\ x \in Nat
        BY <2>1, <3>2 DEF Hosts
      <4>2. Append(Writes(h, 0, w), Write(h, w + 1)) = Writes(h, 0, w + 1)
        BY <4>1, WritesAppend
      <4>3. Dump(h, w) = Writes(h, 0, w)
        BY <4>1, DumpIs
      <4>4. Dump(h, x) = Writes(h, 0, x)
        <5> HIDE DEF x
        <5>1. QED
          BY <4>1, DumpIs
      <4>5. QED
        BY <3>2, <4>2, <4>3, <4>4
    <3> HIDE DEF new, x, d, q
    <3>6. Append(d \o q, item) = d \o Append(q, item)
      BY <1>3, <3>1, <3>4, AppendConcat
    <3>7. srv'.data \o new.sent = Dump(h, x)
      BY <3>1, <3>3, <3>4, <3>5, <3>6
    <3>8. Following(srv', written'[h])
      BY <3>1, <3>2, <3>3, <3>7 DEF Following
    <3>9. QED
      BY <3>1, <3>3, <3>8 DEF Good, Linked
  <2>5. QED
    BY <2>3, <2>4
<1>15. QED
  BY <1>8, <1>9, <1>13, <1>14 DEF IInv, Linked

-----------------------------------------------------------------------------
(* The invariant, and what follows from it *)

LEMMA InitGood ==
  ASSUME Init
  PROVE  IInv
<1>1. Closed \in Conn /\ NoHost \in Hosts /\ <<>> \in Seq(WriteItem)
  BY Distinct DEF Hosts
<1>2. srv \in Server /\ written \in [Masters -> Nat] /\ troubles \in Nat
  BY <1>1 DEF Init, Server, States
<1>3. Unlinked(srv) /\ Served(srv)
  BY DEF Init, Unlinked, NoLink, Served
<1>4. QED
  BY <1>2, <1>3 DEF IInv, TypeOK, Linked

LEMMA NextGood ==
  ASSUME IInv, ~SlaveofWhileConnecting, [Next]_vars
  PROVE  IInv'
<1>1. Good(srv', written')
  <2>1. ASSUME NEW fd \in Descriptors, Handlers(fd) \/ MasterAnswers(fd) \/ ConnectionLost(fd)
        PROVE  Good(srv', written')
    BY <2>1, syncWithMasterGood, readSyncBulkPayloadGood, readQueryFromClientGood,
       MasterAnswersGood, ConnectionLostGood DEF Handlers
  <2>2. ASSUME NEW m \in Masters, slaveofCommand(m) \/ MasterWrites(m)
        PROVE  Good(srv', written')
    BY <2>2, slaveofCommandGood, MasterWritesGood
  <2>3. ASSUME slaveofNoOne \/ replicationCron \/ writeCommand
        PROVE  Good(srv', written')
    BY <2>3, slaveofNoOneGood, replicationCronGood, writeCommandGood
  <2>4. ASSUME NEW x \in SubSlaves, syncCommand(x) \/ disconnect(x)
        PROVE  Good(srv', written')
    BY <2>4, syncCommandGood, disconnectGood
  <2>5. ASSUME UNCHANGED vars
        PROVE  Good(srv', written')
    BY <2>5 DEF vars, Good, IInv, TypeOK
  <2>6. QED
    BY <2>1, <2>2, <2>3, <2>4, <2>5 DEF Next
<1>2. written' \in [Masters -> Nat] /\ troubles' \in Nat
  <2>1. ASSUME NEW m \in Masters, MasterWrites(m)
        PROVE  written' \in [Masters -> Nat]
    BY <2>1 DEF MasterWrites, IInv, TypeOK
  <2>2. written' = written \/ \E m \in Masters : MasterWrites(m)
    BY DEF Next, vars, Handlers, syncWithMaster, readSyncBulkPayload, readQueryFromClient,
           MasterAnswers, ConnectionLost, slaveofCommand, slaveofNoOne, replicationCron,
           syncCommand, disconnect, writeCommand
  <2>3. troubles' = troubles \/ troubles' = troubles + 1
    BY DEF Next, vars, Handlers, syncWithMaster, readSyncBulkPayload, readQueryFromClient,
           MasterAnswers, ConnectionLost, slaveofCommand, slaveofNoOne, replicationCron,
           syncCommand, disconnect, writeCommand, MasterWrites, Trouble, NoTrouble
  <2>4. QED
    BY <2>1, <2>2, <2>3 DEF IInv, TypeOK
<1>3. QED
  BY <1>1, <1>2 DEF IInv, TypeOK, Good

LEMMA Invariance ==
  ASSUME ~SlaveofWhileConnecting
  PROVE  Spec => []IInv
<1>1. Init => IInv
  BY InitGood
<1>2. IInv /\ [Next]_vars => IInv'
  BY NextGood
<1>3. QED
  BY <1>1, <1>2, PTL DEF Spec

(* Whatever handlers, timeouts, failures and commands come, in any order,    *)
(* with any masters and descriptors: the slave has one connection at most,   *)
(* the one its state speaks of, and a temporary file while it fills it.      *)
THEOREM ThereIsOneLink ==
  ASSUME ~SlaveofWhileConnecting
  PROVE  Spec => []OneLink
<1>1. IInv => OneLink
  <2> SUFFICES ASSUME IInv PROVE OneLink
    OBVIOUS
  <2>1. /\ HandlerOf.connecting = "syncWithMaster" /\ HandlerOf.transfer = "readSyncBulkPayload"
        /\ HandlerOf.connected = "readQueryFromClient"
        /\ DOMAIN HandlerOf = {"connecting", "transfer", "connected"}
    BY DEF HandlerOf
  <2>2. HandlerOf["connecting"] = HandlerOf.connecting
        /\ HandlerOf["transfer"] = HandlerOf.transfer
        /\ HandlerOf["connected"] = HandlerOf.connected
    BY DEF HandlerOf
  <2>3. CASE Unlinked(srv)
    <3>1. /\ srv.replstate \notin DOMAIN HandlerOf /\ NoLink(srv)
          /\ (srv.masterhost = NoHost) <=> (srv.replstate = "none")
      BY <2>1, <2>3 DEF Unlinked
    <3>2. QED
      BY <3>1, <2>1, <2>3 DEF OneLink, NoLink, Unlinked
  <2>4. CASE Connecting(srv)
    BY <2>1, <2>2, <2>4, Distinct DEF OneLink, Link, Connecting, LinkedBy, OnlyOpen
  <2>5. CASE Transferring(srv, written[srv.masterhost])
    BY <2>1, <2>2, <2>5, Distinct DEF OneLink, Link, Transferring, LinkedBy, OnlyOpen
  <2>6. CASE Following(srv, written[srv.masterhost])
    <3>1. srv.master # 0
      BY <2>6 DEF Following, LinkedBy, OnlyOpen
    <3>2. QED
      BY <2>1, <2>2, <2>6, <3>1, Distinct DEF OneLink, Link, Following, LinkedBy, OnlyOpen
  <2>7. QED
    BY <2>3, <2>4, <2>5, <2>6 DEF IInv, Linked
<1>2. QED
  BY <1>1, Invariance, PTL

(* And when the link is up, the dataset and what is still on its way are the *)
(* first writes of that master, all of them unless the connection is lost;   *)
(* and the slaves of the slave have its dataset.                             *)
THEOREM TheDataIsTheMasters ==
  ASSUME ~SlaveofWhileConnecting
  PROVE  Spec => []LinkedDataIsMasters
<1>1. IInv => LinkedDataIsMasters
  <2> SUFFICES ASSUME IInv PROVE LinkedDataIsMasters
    OBVIOUS
  <2>1. \A x \in SubSlaves : srv.copy[x] # Detached => srv.copy[x] = srv.data
    BY DEF IInv, Served
  <2>2. ASSUME srv.replstate = "connected"
        PROVE  LET conn == srv.conn[srv.master]
                   all == Dump(srv.masterhost, written[srv.masterhost])
               IN  /\ IsPrefix(srv.data \o conn.sent, all)
                   /\ ~conn.lost => srv.data \o conn.sent = all
    <3> DEFINE m == srv.masterhost
               n == written[m]
               c == srv.conn[srv.master]
    <3>1. Following(srv, n)
      BY <2>2 DEF IInv, Linked, Unlinked, Connecting, Transferring
    <3>2. PICK w \in Nat : UpTo(c, w, n) /\ srv.data \o c.sent = Dump(m, w)
      BY <3>1 DEF Following
    <3>3. m \in Hosts /\ n \in Nat
      <4>1. m \in Hosts /\ m # NoHost /\ written \in [Masters -> Nat]
        BY <3>1 DEF IInv, TypeOK, Server, Following, LinkedBy
      <4>2. QED
        BY <4>1 DEF Hosts
    <3>4. w <= n /\ (~c.lost => w = n)
      BY <3>2 DEF UpTo
    <3>5. IsPrefix(Dump(m, w), Dump(m, n))
      <4> DEFINE p == Dump(m, w)
                 t == Dump(m, n)
      <4>1. p \in Seq(WriteItem) /\ t \in Seq(WriteItem) /\ Len(p) = w /\ Len(t) = n
        BY <3>2, <3>3, DumpIs
      <4>2. \A i \in 1..w : p[i] = t[i]
        BY <3>3, <3>4 DEF Dump
      <4> HIDE DEF p, t
      <4>3. SubSeq(t, 1, Len(p)) = p
        <5>1. 1 \in Int /\ w \in Int /\ SubSeq(t, 1, w) \in Seq(WriteItem) /\ Len(SubSeq(t, 1, w)) = w
              /\ \A i \in 1..w : SubSeq(t, 1, w)[i] = t[i]
          BY <3>3, <3>4, <4>1, SubSeqProperties
        <5>2. QED
          BY <4>1, <4>2, <5>1, SeqEqual
      <4>4. QED
        BY <3>4, <4>1, <4>3 DEF IsPrefix, p, t
    <3>6. QED
      BY <3>2, <3>4, <3>5
  <2>3. QED
    BY <2>1, <2>2 DEF LinkedDataIsMasters
<1>2. QED
  BY <1>1, Invariance, PTL
==============================================================================
