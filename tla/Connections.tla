---------------------------- MODULE Connections ------------------------------
(***************************************************************************)
(* The event loop (ae.c) and what it serves: connections, their queries    *)
(* and replies (networking.c), publish and subscribe (pubsub.c), and the   *)
(* clients that a push or a timeout wakes (t_list.c, redis.c).             *)
(*                                                                         *)
(* srv is the server, which one thread changes from handler to handler:    *)
(*   client       the client structure of a connection: its descriptor,    *)
(*                query (querybuf), buf and reply (the output), the flags  *)
(*                blocked, unblocked and closing, channels and patterns    *)
(*   events       of a descriptor, the mask and the client of its event    *)
(*   fired        the events of this round that are still to be handled    *)
(*   channel, pattern   the subscribers, as pubsub_channels and _patterns  *)
(*   clients      server.clients, in the order in which they came          *)
(*   waiting, items     the clients blocked on the list, and its length    *)
(*   ready        unblocked_clients                                        *)
(* peer is the other end of a connection: what it has sent and is not yet  *)
(* read, the number of answers it has received, whether it is closed.      *)
(* An answer is the number of its command; a published message is Message. *)
(***************************************************************************)
EXTENDS Integers, Sequences, FiniteSets, FiniteSetsExt, SequencesExt

CONSTANTS Connections,  \* one per connect, and per client structure
          Descriptors,
          BufRoom,      \* answers that fit in the static buffer
          Settings      \* to try: maxclients, the commands that are sent and the
                        \* bound of their number, by all together, and waitsWoken: a
                        \* client that was woken may block again before the loop has
                        \* gone on with what was left of its query

ASSUME ConnectionsAssumption ==
  /\ IsFiniteSet(Connections) /\ Descriptors \subseteq Nat \ {0}
  /\ BufRoom \in Nat
  /\ Settings \subseteq
       [maxclients : Nat \ {0}, maxcommands : Nat, waitsWoken : BOOLEAN,
        kinds : SUBSET {"ping", "bad", "quit", "blpop", "push", "subscribe", "unsubscribe",
                        "psubscribe", "punsubscribe", "publish", "kill"}]

VARIABLES srv, peer, phase, setting

vars == <<srv, peer, phase, setting>>

Message == 0
Listener == 0     \* the descriptor connections are accepted on
NoClient == [live |-> FALSE]
NoEvent == [mask |-> {}, client |-> {}]
Commands ==
  [do : setting.kinds \ {"kill"}] \cup [do : setting.kinds \cap {"kill"}, victim : Connections]

Live(s) == {c \in Connections : s.client[c].live}
Pending(s, c) == s.client[c].buf \o s.client[c].reply

-----------------------------------------------------------------------------
(* The event table *)

aeCreateFileEvent(s, fd, m, c) ==
  [s EXCEPT !.events[fd] = [mask |-> @.mask \cup {m}, client |-> {c}]]
aeDeleteFileEvent(s, fd, m) == [s EXCEPT !.events[fd].mask = @ \ {m}]

(* Output: the buffer first, then the list of what it has no room for.       *)

_installWriteEvent(s, c) ==
  IF Pending(s, c) = <<>> THEN aeCreateFileEvent(s, s.client[c].fd, "writable", c) ELSE s

(* Mutation: the buffer is used again while the list is not empty.           *)
ToBuffer_Again(s, c) == Len(s.client[c].buf) < BufRoom

ToBuffer(s, c) == s.client[c].reply = <<>> /\ Len(s.client[c].buf) < BufRoom

addReply(s, c, answer) ==
  LET t == _installWriteEvent(s, c)
  IN  CASE s.client[c].closing -> t
        [] ~s.client[c].closing /\ ToBuffer(s, c) -> [t EXCEPT !.client[c].buf = Append(@, answer)]
        [] OTHER -> [t EXCEPT !.client[c].reply = Append(@, answer)]

Answer(s, c) == addReply(s, c, s.client[c].done)

-----------------------------------------------------------------------------
(* Publish and subscribe *)

Subscriptions(s, c) == s.client[c].channels \cup s.client[c].patterns

pubsubSubscribeChannel(s, c) ==
  IF "channel" \in s.client[c].channels THEN s
  ELSE [s EXCEPT !.client[c].channels = {"channel"}, !.channel = Append(@, c)]

pubsubUnsubscribeChannel(s, c) ==
  IF "channel" \notin s.client[c].channels THEN s
  ELSE [s EXCEPT !.client[c].channels = {}, !.channel = RemoveFirst(@, c)]

pubsubSubscribePattern(s, c) ==
  IF "pattern" \in s.client[c].patterns THEN s
  ELSE [s EXCEPT !.client[c].patterns = {"pattern"}, !.pattern = Append(@, c)]

pubsubUnsubscribePattern(s, c) ==
  IF "pattern" \notin s.client[c].patterns THEN s
  ELSE [s EXCEPT !.client[c].patterns = {}, !.pattern = RemoveFirst(@, c)]

pubsubPublishMessage(s) ==
  FoldLeft(LAMBDA t, c : addReply(t, c, Message), s, s.channel \o s.pattern)

-----------------------------------------------------------------------------
(* Blocking *)

blockForKeys(s, c) == [s EXCEPT !.client[c].blocked = TRUE, !.waiting = Append(@, c)]

(* Mutation: the client is not queued to have the rest of its query run.     *)
unblockClientWaitingData_NotReady(s, c) ==
  [s EXCEPT !.client[c].blocked = FALSE, !.waiting = RemoveFirst(@, c)]

unblockClientWaitingData(s, c) ==
  [s EXCEPT !.client[c].blocked = FALSE, !.client[c].unblocked = TRUE,
            !.waiting = RemoveFirst(@, c), !.ready = Append(@, c)]

(* A push gives its element to the first client that waits, if there is one. *)
pushCommand(s) ==
  IF s.waiting = <<>> THEN [s EXCEPT !.items = @ + 1]
  ELSE LET receiver == Head(s.waiting)
       IN  Answer(unblockClientWaitingData(s, receiver), receiver)

-----------------------------------------------------------------------------
(* Clients *)

createClient(s, c, fd) ==
  [aeCreateFileEvent(s, fd, "readable", c) EXCEPT
     !.clients = Append(@, c),
     !.client[c] = [live |-> TRUE, fd |-> fd, query |-> <<>>, buf |-> <<>>, reply |-> <<>>,
                    blocked |-> FALSE, unblocked |-> FALSE, closing |-> FALSE,
                    channels |-> {}, patterns |-> {}, done |-> 0]]

(* Mutation: a client that was woken is left to be resumed.                  *)
freeClient_StaysReady(s, c) ==
  LET fd == s.client[c].fd
      t == IF s.client[c].blocked THEN unblockClientWaitingData(s, c) ELSE s
      u == pubsubUnsubscribePattern(pubsubUnsubscribeChannel(t, c), c)
  IN  [u EXCEPT !.events[fd] = NoEvent, !.client[c] = NoClient, !.clients = RemoveFirst(@, c)]

freeClient(s, c) ==
  LET fd == s.client[c].fd
      t == IF s.client[c].blocked THEN unblockClientWaitingData(s, c) ELSE s
      u == pubsubUnsubscribePattern(pubsubUnsubscribeChannel(t, c), c)
      v == IF u.client[c].unblocked THEN [u EXCEPT !.ready = RemoveFirst(@, c)] ELSE u
  IN  [v EXCEPT !.events[fd] = NoEvent, !.client[c] = NoClient, !.clients = RemoveFirst(@, c)]

Closing(s, c) == [s EXCEPT !.client[c].closing = TRUE]

(* CLIENT KILL of a client that is gone is an error.                         *)
clientCommand(s, c, victim) ==
  CASE victim = c -> Closing(Answer(s, c), c)
    [] victim \in Live(s) \ {c} -> freeClient(Answer(s, c), victim)
    [] OTHER -> Answer(s, c)

(* A protocol error is answered, and the connection closed; so does QUIT.    *)
(* A subscriber may only subscribe, unsubscribe and quit.                    *)
Always == {"quit", "bad", "subscribe", "psubscribe", "unsubscribe", "punsubscribe"}

processCommand(s, c, command) ==
  CASE command.do \notin Always /\ Subscriptions(s, c) # {} -> Answer(s, c)
    [] command.do \in {"quit", "bad"} -> Closing(Answer(s, c), c)
    [] command.do = "subscribe" -> Answer(pubsubSubscribeChannel(s, c), c)
    [] command.do = "psubscribe" -> Answer(pubsubSubscribePattern(s, c), c)
    [] command.do = "unsubscribe" -> Answer(pubsubUnsubscribeChannel(s, c), c)
    [] command.do = "punsubscribe" -> Answer(pubsubUnsubscribePattern(s, c), c)
    [] OTHER ->
         CASE command.do = "ping" -> Answer(s, c)
           [] command.do = "push" -> Answer(pushCommand(s), c)
           [] command.do = "publish" -> Answer(pubsubPublishMessage(s), c)
           [] command.do = "kill" -> clientCommand(s, c, command.victim)
           [] command.do = "blpop" /\ s.items > 0 -> Answer([s EXCEPT !.items = @ - 1], c)
           [] command.do = "blpop" /\ s.items = 0 -> blockForKeys(s, c)

Busy(client) == client.blocked \/ client.closing

(* One request after the other, until the client blocks or is to be closed.  *)
processInputBuffer(s, c) ==
  LET Request(t, command) ==
        IF Busy(t.client[c]) THEN t
        ELSE processCommand([t EXCEPT !.client[c].query = Tail(@), !.client[c].done = @ + 1],
                            c, command)
  IN  FoldLeft(Request, s, s.client[c].query)

-----------------------------------------------------------------------------
(* Handlers *)

NewPeer == [state |-> "new", sent |-> <<>>, asked |-> 0, got |-> 0, closed |-> FALSE]

(* The server's end of a connection is closed with its client.               *)
Left(s, p) ==
  [c \in Connections |->
     IF p[c].state = "open" /\ ~s.client[c].live THEN [NewPeer EXCEPT !.state = "gone", !.asked = p[c].asked] ELSE p[c]]

(* A connection beyond maxclients is made a client, and freed.               *)
acceptTcpHandler ==
  LET free == Descriptors \ {srv.client[c].fd : c \in Live(srv)}
      fd == CHOOSE f \in free : \A g \in free : f <= g
  IN  IF free = {} THEN srv' = srv /\ UNCHANGED peer
      ELSE \E c \in {d \in Connections : peer[d].state = "backlog"} :
             LET s == createClient(srv, c, fd)
             IN  /\ srv' = IF Cardinality(Live(s)) > setting.maxclients THEN freeClient(s, c) ELSE s
                 /\ peer' = Left(srv', [peer EXCEPT ![c].state = "open"])

readQueryFromClient(c) ==
  LET sent == peer[c].sent
      Served(s) == srv' = s /\ peer' = Left(s, peer)
  IN  \/ /\ sent = <<>> /\ peer[c].closed
         /\ Served(freeClient(srv, c))
      \/ /\ sent = <<>> /\ ~peer[c].closed \* EAGAIN: the event was of an earlier client
         /\ UNCHANGED <<srv, peer>>
      \/ \E n \in 1..Len(sent) :
           LET s == [srv EXCEPT !.client[c].query = @ \o SubSeq(sent, 1, n)]
           IN  /\ srv' = processInputBuffer(s, c)
               /\ peer' = Left(srv', [peer EXCEPT ![c].sent = SubSeq(sent, n + 1, Len(sent))])

(* The whole reply is sent.                                                  *)
Sent(s, c) ==
  IF s.client[c].closing THEN freeClient(s, c)
  ELSE aeDeleteFileEvent(s, s.client[c].fd, "writable")

(* The buffer is written before the list, and as much as the socket takes.   *)
sendReplyToClient(c) ==
  LET pending == Pending(srv, c)
      buf == srv.client[c].buf
      reply == srv.client[c].reply
      Written(n) ==
        [srv EXCEPT !.client[c].buf = SubSeq(buf, n + 1, Len(buf)),
                    !.client[c].reply =
                       IF n <= Len(buf) THEN reply ELSE SubSeq(reply, n - Len(buf) + 1, Len(reply))]
      answers(n) == SelectSeq(SubSeq(pending, 1, n), LAMBDA a : a # Message)
  IN  \/ \E n \in 0..Len(pending) :
           /\ srv' = IF n = Len(pending) THEN Sent(Written(n), c) ELSE Written(n)
           /\ peer' = Left(srv', [peer EXCEPT ![c].got = @ + Len(answers(n))])
      \/ /\ peer[c].closed \* a write error
         /\ srv' = freeClient(srv, c) /\ peer' = Left(srv', peer)

-----------------------------------------------------------------------------
(* The loop *)

(* The clients that were woken go on with what is left of their query.       *)
beforeSleep ==
  /\ phase.at = "before"
  /\ IF srv.ready = <<>> THEN /\ phase' = [phase EXCEPT !.at = "sleep"]
                              /\ UNCHANGED <<srv, peer>>
     ELSE LET c == Head(srv.ready)
              s == [srv EXCEPT !.ready = Tail(@), !.client[c].unblocked = FALSE]
          IN  /\ srv' = processInputBuffer(s, c)
              /\ peer' = Left(srv', peer)
              /\ UNCHANGED phase
  /\ UNCHANGED setting

Readable(fd) ==
  IF fd = Listener THEN \E c \in Connections : peer[c].state = "backlog"
  ELSE \E c \in srv.events[fd].client : peer[c].sent # <<>> \/ peer[c].closed

(* What is readable, and what the sockets take, when epoll_wait returns.     *)
aeApiPoll ==
  LET readable == {fd \in DOMAIN srv.events : "readable" \in srv.events[fd].mask /\ Readable(fd)}
  IN  /\ phase.at = "sleep"
      /\ \E writable \in SUBSET {fd \in DOMAIN srv.events : "writable" \in srv.events[fd].mask} :
           phase' = [at |-> "events", turn |-> {}, readable |-> readable, writable |-> writable]
      /\ UNCHANGED <<srv, peer, setting>>

(* An event may have been removed by one that was handled before it.         *)
Valid(fd, m) == m \in srv.events[fd].mask

(* No client waits again that is still to be resumed.                        *)
WaitOnce(s) == \A c \in Live(s) : ~(s.client[c].blocked /\ s.client[c].unblocked)

ReadEvent(fd) ==
  /\ phase.at = "events" /\ phase.turn = {} /\ fd \in phase.readable
  /\ phase' = [phase EXCEPT !.readable = @ \ {fd},
                            !.turn = IF fd \in phase.writable THEN {fd} ELSE {}]
  /\ IF ~Valid(fd, "readable") THEN UNCHANGED <<srv, peer>>
     ELSE \/ fd = Listener /\ acceptTcpHandler
          \/ fd # Listener /\ \E c \in srv.events[fd].client : readQueryFromClient(c)
  /\ setting.waitsWoken \/ WaitOnce(srv')
  /\ UNCHANGED setting

WriteEvent(fd) ==
  /\ phase.at = "events" /\ fd \in phase.writable
  /\ phase.turn = {fd} \/ (phase.turn = {} /\ fd \notin phase.readable)
  /\ phase' = [phase EXCEPT !.writable = @ \ {fd}, !.turn = {}]
  /\ IF ~Valid(fd, "writable") THEN UNCHANGED <<srv, peer>>
     ELSE \E c \in srv.events[fd].client : sendReplyToClient(c)
  /\ UNCHANGED setting

(* No idle timeout for who waits or subscribes.  The shortest timeout is a   *)
(* second, and a round is shorter: a client that was woken and waits again   *)
(* in the same round is not late yet.                                        *)
closeTimedoutClients(idle, late) ==
  LET Visit(s, c) == CASE c \in idle -> freeClient(s, c)
                       [] c \in late -> unblockClientWaitingData(Answer(s, c), c)
                       [] OTHER -> s
  IN  FoldLeft(Visit, srv, srv.clients)

serverCron ==
  /\ phase.at = "events" /\ phase.readable \cup phase.writable = {}
  /\ \E idle \in SUBSET {c \in Live(srv) : ~srv.client[c].blocked /\ Subscriptions(srv, c) = {}},
        late \in SUBSET {c \in Live(srv) : srv.client[c].blocked /\ ~srv.client[c].unblocked} :
       srv' = closeTimedoutClients(idle, late)
  /\ peer' = Left(srv', peer)
  /\ phase' = [at |-> "before", turn |-> {}, readable |-> {}, writable |-> {}]
  /\ UNCHANGED setting

-----------------------------------------------------------------------------
(* The peers.  What they do while events are handled is as if they did it    *)
(* before the next poll.                                                     *)

Connect(c) ==
  /\ phase.at = "sleep" /\ peer[c].state = "new"
  /\ peer' = [peer EXCEPT ![c].state = "backlog"]
  /\ UNCHANGED <<srv, phase, setting>>

commands == FoldSet(LAMBDA c, n : n + peer[c].asked, 0, Connections)

Send(c, command) ==
  /\ phase.at = "sleep" /\ peer[c].state = "open" /\ ~peer[c].closed
  /\ commands < setting.maxcommands
  /\ peer' = [peer EXCEPT ![c].sent = Append(@, command), ![c].asked = @ + 1]
  /\ UNCHANGED <<srv, phase, setting>>

Close(c) ==
  /\ phase.at = "sleep" /\ peer[c].state = "open" /\ ~peer[c].closed
  /\ peer' = [peer EXCEPT ![c].closed = TRUE]
  /\ UNCHANGED <<srv, phase, setting>>

-----------------------------------------------------------------------------
Init ==
  /\ srv = [client |-> [c \in Connections |-> NoClient],
            events |-> [fd \in Descriptors \cup {Listener} |->
                          IF fd = Listener THEN [mask |-> {"readable"}, client |-> {}] ELSE NoEvent],
            clients |-> <<>>, channel |-> <<>>, pattern |-> <<>>, waiting |-> <<>>, items |-> 0, ready |-> <<>>]
  /\ peer = [c \in Connections |-> NewPeer]
  /\ phase = [at |-> "before", turn |-> {}, readable |-> {}, writable |-> {}]
  /\ setting \in Settings

Next ==
  \/ beforeSleep \/ aeApiPoll \/ serverCron
  \/ \E fd \in DOMAIN srv.events : ReadEvent(fd) \/ WriteEvent(fd)
  \/ \E c \in Connections :
       Connect(c) \/ Close(c) \/ \E command \in Commands : Send(c, command)

Spec == Init /\ [][Next]_vars

-----------------------------------------------------------------------------
(* Properties *)

(* Whatever is pipelined, blocked and woken, published in between, and in    *)
(* whatever pieces it is read and written: the answers reach a client in the *)
(* order of its commands, one each, none lost; a command that blocks is      *)
(* answered before those that follow it.                                     *)
AnswersInOrder ==
  \A c \in Live(srv) :
    LET client == srv.client[c]
        answers == SelectSeq(Pending(srv, c), LAMBDA a : a # Message)
    IN  /\ answers = [i \in 1..Len(answers) |-> peer[c].got + i]
        /\ peer[c].got + Len(answers) = client.done - (IF client.blocked THEN 1 ELSE 0)
        /\ client.done + Len(client.query) + Len(peer[c].sent) = peer[c].asked

(* When the loop goes to sleep nothing is left that no event would resume:   *)
(* output has a write event (and only output has one), a client to be closed *)
(* has output, and a query is only left to clients that are blocked, or to   *)
(* be closed.                                                                *)
NothingIsForgotten ==
  phase.at = "sleep" =>
    /\ srv.ready = <<>>
    /\ \A c \in Live(srv) :
         LET client == srv.client[c]
         IN  /\ "readable" \in srv.events[client.fd].mask
             /\ Pending(srv, c) # <<>> <=> "writable" \in srv.events[client.fd].mask
             /\ client.closing => Pending(srv, c) # <<>>
             /\ client.query # <<>> => Busy(client)

(* Whatever is killed, closed or timed out, and whatever is still to be      *)
(* handled in this round: the event table, the registries of subscribers,    *)
(* the clients that wait and those that were woken name live clients only,   *)
(* each once, and just the ones whose own structure says so; of two          *)
(* connections no descriptor is the same.  With more than two clients it     *)
(* needs ~waitsWoken (ResumedAreLive).                                       *)
RegistriesAgree ==
  LET Registered(list, member(_)) ==
        /\ IsInjective(list)
        /\ ToSet(list) = {c \in Live(srv) : member(srv.client[c])}
  IN  /\ Registered(srv.channel, LAMBDA r : r.channels # {})
      /\ Registered(srv.pattern, LAMBDA r : r.patterns # {})
      /\ Registered(srv.waiting, LAMBDA r : r.blocked)
      /\ Registered(srv.ready, LAMBDA r : r.unblocked)
      /\ \A fd \in Descriptors :
           srv.events[fd].client = {c \in Live(srv) : srv.client[c].fd = fd}
      /\ srv.waiting # <<>> => srv.items = 0

(* A client that is freed is not left among those to be resumed              *)
(* (networking.c, "When client was just unblocked because of a blocking      *)
(* operation, remove it from the list with unblocked clients").  The code    *)
(* does not keep it when three clients are connected and waitsWoken.         *)
ResumedAreLive == ToSet(srv.ready) \subseteq Live(srv)
=============================================================================
