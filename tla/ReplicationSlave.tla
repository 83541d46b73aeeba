-------------------------- MODULE ReplicationSlave ---------------------------
(***************************************************************************)
(* The slave's side of replication.c: connecting to a master, receiving    *)
(* its dump, following its stream, and serving slaves of its own.          *)
(*                                                                         *)
(* srv is the server, which one thread changes from handler to handler:    *)
(*   masterhost, replstate, master (the descriptor of server.master)       *)
(*   s, left, tmpfile  repl_transfer_s, _left and what is in _tmpfile      *)
(*   data         the dataset, as the writes that made it                  *)
(*   conn         of a descriptor: the peer, the handler, what the peer    *)
(*                has sent and is still to be read                         *)
(*   copy         of a slave of this server, the dataset it has            *)
(* A master is the writes it has run.  How it serves a SYNC is modelled in *)
(* ReplicationMaster: here it answers with a dump, as Parts reads, and     *)
(* with every later write.                                                 *)
(***************************************************************************)
EXTENDS Integers, Sequences, SequencesExt

CONSTANTS Masters, NoHost, Descriptors, SubSlaves,
          Parts,                \* reads that a dump takes
          MaxWrites,            \* bound of the writes of a master, and of our own
          MaxTroubles,          \* bound of SLAVEOF commands, failures and timeouts
          SlaveofWhileConnecting \* SLAVEOF another master before the connect is done

ASSUME ReplicationSlaveAssumption ==
  /\ NoHost \notin Masters /\ Descriptors \subseteq Nat \ {0}
  /\ Parts \in Nat \ {0} /\ MaxWrites \in Nat /\ MaxTroubles \in Nat
  /\ SlaveofWhileConnecting \in BOOLEAN

VARIABLES srv,
          written, \* of a master, the number of its writes
          troubles

vars == <<srv, written, troubles>>

Closed == [peer |-> NoHost, handler |-> "none", asked |-> FALSE, online |-> FALSE,
           lost |-> FALSE, sent |-> <<>>]
NoFile == <<[kind |-> "no file"]>>
Detached == <<[kind |-> "detached"]>>

Write(m, n) == [kind |-> "write", of |-> m, n |-> n]
Dump(m, n) == [i \in 1..n |-> Write(m, i)]
Chunk(d, i) == [kind |-> "chunk", dump |-> d, part |-> i]
Whole(d) == [i \in 1..Parts |-> Chunk(d, i)]

(* rdbLoad ends the process when the file is not a dump: Corrupt is that end. *)
Corrupt == <<[kind |-> "corrupt"]>>
rdbLoad(file) ==
  IF file[1].kind = "chunk" /\ file = Whole(file[1].dump) THEN file[1].dump ELSE Corrupt

-----------------------------------------------------------------------------
(* The operations on the link *)

close(s, fd) == [s EXCEPT !.conn[fd] = Closed]

replicationAbortSyncTransfer(s) ==
  [close(s, s.s) EXCEPT !.tmpfile = NoFile, !.replstate = "connect"]

undoConnectWithMaster(s) == [close(s, s.s) EXCEPT !.s = 0, !.replstate = "connect"]

disconnectSlaves(s) == [s EXCEPT !.copy = [x \in SubSlaves |-> Detached]]

(* Mutation: the slaves of this server are kept when its master is lost.     *)
freeMaster_KeepsSlaves(s) == [close(s, s.master) EXCEPT !.master = 0, !.replstate = "connect"]

(* freeClient(server.master)                                                 *)
freeMaster(s) ==
  LET t == [close(s, s.master) EXCEPT !.master = 0, !.replstate = "connect"]
  IN  IF t.masterhost = NoHost THEN t ELSE disconnectSlaves(t)

FreeMasterIf(s) == IF s.master # 0 THEN freeMaster(s) ELSE s

connectWithMaster(s, fd) ==
  [s EXCEPT !.conn[fd] = [Closed EXCEPT !.peer = s.masterhost, !.handler = "syncWithMaster"],
            !.s = fd, !.replstate = "connecting"]

Trouble == troubles < MaxTroubles /\ troubles' = troubles + 1
NoTrouble == UNCHANGED troubles

-----------------------------------------------------------------------------
(* Event handlers *)

(* AUTH, SYNC, the temporary file or the event may fail.                     *)
syncWithMaster(fd) ==
  LET failed == [close(srv, fd) EXCEPT !.replstate = "connect"]
      begun == [srv EXCEPT !.conn[fd] = [@ EXCEPT !.handler = "readSyncBulkPayload", !.asked = TRUE],
                           !.replstate = "transfer", !.left = -1, !.tmpfile = <<>>]
  IN  /\ srv.conn[fd].handler = "syncWithMaster"
      /\ \/ srv.replstate = "none" /\ srv' = close(srv, fd) /\ NoTrouble
         \/ srv.replstate # "none" /\ ~srv.conn[fd].lost /\ srv' = begun /\ NoTrouble
         \/ srv.replstate # "none" /\ srv.conn[fd].lost /\ srv' = failed /\ NoTrouble
         \/ srv.replstate # "none" /\ srv' = failed /\ Trouble
      /\ UNCHANGED written

(* The first line of the answer.                                             *)
BulkCount(s, item) ==
  CASE item.kind = "newline" -> s
    [] item.kind = "bulk" -> [s EXCEPT !.left = Parts]
    [] OTHER -> replicationAbortSyncTransfer(s)

(* Mutation: the old dataset is not emptied before the dump is loaded.       *)
Loaded_OnTop(s) ==
  [s EXCEPT !.data = @ \o rdbLoad(s.tmpfile), !.tmpfile = NoFile, !.master = s.s,
            !.conn[s.s].handler = "readQueryFromClient", !.replstate = "connected"]

(* The dump is complete: it replaces dump.rdb and the dataset, and the       *)
(* connection becomes that of server.master.                                 *)
Loaded(s) ==
  [s EXCEPT !.data = rdbLoad(s.tmpfile), !.tmpfile = NoFile, !.master = s.s,
            !.conn[s.s].handler = "readQueryFromClient", !.replstate = "connected"]

(* emptyDb is done by the time the file cannot be opened.                    *)
NotLoaded(s) == [replicationAbortSyncTransfer(s) EXCEPT !.data = <<>>]

Received(s, item) == [s EXCEPT !.tmpfile = Append(@, item), !.left = @ - 1]

readSyncBulkPayload(fd) ==
  LET sent == srv.conn[fd].sent
      s == [srv EXCEPT !.conn[fd].sent = Tail(@)]
      t == Received(s, Head(sent))
  IN  /\ srv.conn[fd].handler = "readSyncBulkPayload"
      /\ \/ /\ sent = <<>> /\ srv.conn[fd].lost
            /\ srv' = replicationAbortSyncTransfer(srv) /\ NoTrouble
         \/ /\ sent # <<>> /\ srv.left = -1
            /\ srv' = BulkCount(s, Head(sent)) /\ NoTrouble
         \/ /\ sent # <<>> /\ srv.left # -1
            /\ srv' = (IF t.left = 0 THEN Loaded(t) ELSE t) /\ NoTrouble
         \/ /\ sent # <<>> \* a failed read, write or rename
            /\ srv' = replicationAbortSyncTransfer(s) /\ Trouble
         \/ /\ sent # <<>> /\ srv.left = 1
            /\ srv' = NotLoaded(t) /\ Trouble
      /\ UNCHANGED written

(* What the master runs is run, and fed to the slaves of this server.        *)
Run(s, w) ==
  [s EXCEPT !.data = Append(@, w),
            !.copy = [x \in SubSlaves |-> IF @[x] = Detached THEN @[x] ELSE Append(@[x], w)]]

readQueryFromClient(fd) ==
  LET sent == srv.conn[fd].sent
  IN  /\ srv.conn[fd].handler = "readQueryFromClient"
      /\ srv' = IF sent # <<>> THEN Run([srv EXCEPT !.conn[fd].sent = Tail(@)], Head(sent))
                ELSE freeMaster(srv)
      /\ sent = <<>> => srv.conn[fd].lost
      /\ UNCHANGED <<written, troubles>>

-----------------------------------------------------------------------------
(* Commands and the cron *)

slaveofCommand(m) ==
  LET s == disconnectSlaves(FreeMasterIf([srv EXCEPT !.masterhost = m]))
      t == IF s.replstate = "transfer" THEN replicationAbortSyncTransfer(s) ELSE s
  IN  /\ srv.replstate = "connecting" => SlaveofWhileConnecting
      /\ srv' = [t EXCEPT !.replstate = "connect"]
      /\ Trouble
      /\ UNCHANGED written

slaveofNoOne ==
  LET s == FreeMasterIf([srv EXCEPT !.masterhost = NoHost])
      t == CASE s.replstate = "transfer" -> replicationAbortSyncTransfer(s)
             [] s.replstate = "connecting" -> undoConnectWithMaster(s)
             [] OTHER -> s
  IN  /\ srv.masterhost # NoHost
      /\ srv' = [t EXCEPT !.replstate = "none"]
      /\ Trouble
      /\ UNCHANGED written

(* Mutation: a timeout only gives the state up, not the connection.          *)
TimedOut_KeepsLink(s) == [s EXCEPT !.replstate = "connect"]

(* The time of what goes on is over.                                         *)
TimedOut(s) ==
  CASE s.replstate = "connecting" -> undoConnectWithMaster(s)
    [] s.replstate = "transfer" -> replicationAbortSyncTransfer(s)
    [] s.replstate = "connected" -> freeMaster(s)

Late == /\ srv.masterhost # NoHost
        /\ srv.replstate \in {"connecting", "transfer", "connected"}

replicationCron ==
  LET Connected(s) ==
        IF s.replstate # "connect" THEN srv' = s
        ELSE LET free == {fd \in Descriptors : s.conn[fd] = Closed}
             IN  IF free = {} THEN srv' = s
                 ELSE srv' = connectWithMaster(s, CHOOSE fd \in free : \A g \in free : fd <= g)
  IN  /\ \/ Connected(srv) /\ NoTrouble
         \/ srv.replstate = "connect" /\ srv' = srv /\ Trouble
         \/ Late /\ Connected(TimedOut(srv)) /\ Trouble
      /\ UNCHANGED written

(* A slave of this server asks for the dataset, and has it after a while;    *)
(* syncCommand refuses it while the link to the master is not up.            *)
syncCommand(x) ==
  /\ srv.copy[x] = Detached
  /\ srv.masterhost = NoHost \/ srv.replstate = "connected"
  /\ srv' = [srv EXCEPT !.copy[x] = srv.data]
  /\ UNCHANGED <<written, troubles>>

disconnect(x) ==
  /\ srv.copy[x] # Detached
  /\ srv' = [srv EXCEPT !.copy[x] = Detached]
  /\ UNCHANGED <<written, troubles>>

(* Without a master, the server has writes of its own.                       *)
writeCommand ==
  /\ srv.masterhost = NoHost /\ Len(srv.data) < MaxWrites
  /\ srv' = Run(srv, Write(NoHost, Len(srv.data) + 1))
  /\ UNCHANGED <<written, troubles>>

-----------------------------------------------------------------------------
(* The masters *)

Sends(s, fd, items) ==
  [s EXCEPT !.conn[fd].sent = IF s.conn[fd].lost THEN @ ELSE @ \o items]

MasterAnswers(fd) ==
  LET m == srv.conn[fd].peer
      dump == <<[kind |-> "bulk"]>> \o Whole(Dump(m, written[m]))
  IN  /\ srv.conn[fd].asked /\ ~srv.conn[fd].online /\ ~srv.conn[fd].lost
      /\ \/ srv' = [Sends(srv, fd, dump) EXCEPT !.conn[fd].online = TRUE] /\ NoTrouble
         \/ srv' = [Sends(srv, fd, <<[kind |-> "error"]>>) EXCEPT !.conn[fd].lost = TRUE] /\ Trouble
         \/ srv.conn[fd].sent = <<>> /\ srv' = Sends(srv, fd, <<[kind |-> "newline"]>>) /\ Trouble
      /\ UNCHANGED written

MasterWrites(m) ==
  LET w == Write(m, written[m] + 1)
      Fed(conn) == IF conn.peer = m /\ conn.online /\ ~conn.lost
                   THEN [conn EXCEPT !.sent = Append(@, w)] ELSE conn
  IN  /\ written[m] < MaxWrites
      /\ written' = [written EXCEPT ![m] = @ + 1]
      /\ srv' = [srv EXCEPT !.conn = [fd \in Descriptors |-> Fed(@[fd])]]
      /\ UNCHANGED troubles

ConnectionLost(fd) ==
  /\ srv.conn[fd].peer # NoHost /\ ~srv.conn[fd].lost
  /\ srv' = [srv EXCEPT !.conn[fd].lost = TRUE]
  /\ Trouble
  /\ UNCHANGED written

-----------------------------------------------------------------------------
Init ==
  /\ srv = [masterhost |-> NoHost, replstate |-> "none", master |-> 0, s |-> 0, left |-> 0,
            tmpfile |-> NoFile, data |-> <<>>, conn |-> [fd \in Descriptors |-> Closed],
            copy |-> [x \in SubSlaves |-> Detached]]
  /\ written = [m \in Masters |-> 0]
  /\ troubles = 0

Handlers(fd) == syncWithMaster(fd) \/ readSyncBulkPayload(fd) \/ readQueryFromClient(fd)

Next ==
  \/ \E fd \in Descriptors : Handlers(fd) \/ MasterAnswers(fd) \/ ConnectionLost(fd)
  \/ \E m \in Masters : slaveofCommand(m) \/ MasterWrites(m)
  \/ slaveofNoOne
  \/ replicationCron
  \/ \E x \in SubSlaves : syncCommand(x) \/ disconnect(x)
  \/ writeCommand

(* The event loop runs every handler whose descriptor is ready, and the cron *)
(* every second; a master answers a SYNC.                                    *)
Fairness ==
  /\ WF_vars(replicationCron)
  /\ \A fd \in Descriptors : WF_vars(Handlers(fd)) /\ WF_vars(MasterAnswers(fd))

Spec == Init /\ [][Next]_vars /\ Fairness

-----------------------------------------------------------------------------
(* Properties *)

Link == IF srv.replstate = "connected" THEN srv.master ELSE srv.s
HandlerOf ==
  [connecting |-> "syncWithMaster", transfer |-> "readSyncBulkPayload",
   connected |-> "readQueryFromClient"]

(* Whatever is aborted, undone or timed out, and in whatever order: there is *)
(* one connection at most, to the configured master, with the handler of the *)
(* state the link is in, and the temporary file exists while it is filled.   *)
(* (Aborting asserts the state, and closes what repl_transfer_s says.)       *)
OneLink ==
  /\ \A fd \in Descriptors :
       srv.conn[fd] # Closed =>
         /\ srv.replstate \in DOMAIN HandlerOf /\ fd = Link
         /\ srv.conn[fd].handler = HandlerOf[srv.replstate]
         /\ srv.conn[fd].peer = srv.masterhost
  /\ srv.replstate \in DOMAIN HandlerOf => srv.conn[Link] # Closed
  /\ (srv.masterhost = NoHost) <=> (srv.replstate = "none")
  /\ (srv.master # 0) <=> (srv.replstate = "connected")
  /\ (srv.tmpfile # NoFile) <=> (srv.replstate = "transfer")

(* A slave whose link is up has a whole dataset of its master: what it holds *)
(* and what is on its way are the writes of that master, in their order,     *)
(* none missing unless the connection is already lost; and every slave of    *)
(* its own has the same dataset.                                             *)
LinkedDataIsMasters ==
  /\ srv.replstate = "connected" =>
       LET conn == srv.conn[srv.master]
           all == Dump(srv.masterhost, written[srv.masterhost])
       IN  /\ IsPrefix(srv.data \o conn.sent, all)
           /\ ~conn.lost => srv.data \o conn.sent = all
  /\ \A x \in SubSlaves : srv.copy[x] # Detached => srv.copy[x] = srv.data

(* Once nobody changes the configuration and nothing fails any more, the     *)
(* slave catches up with its master and stays there.                         *)
SyncConverges ==
  <>[](srv.masterhost # NoHost =>
         /\ srv.replstate = "connected"
         /\ srv.data = Dump(srv.masterhost, written[srv.masterhost]))
=============================================================================
