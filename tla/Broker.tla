--------------------------------- MODULE Broker ---------------------------------
(***************************************************************************)
(* 06-tcp_multiplexed_stream_broker: the broker goroutine, the two         *)
(* goroutines of every connection, the mutex that makes a frame out of two *)
(* writes, and the repository's client at the other end.                   *)
(*                                                                         *)
(* A connection carries pieces: a frame's size, then its body.  register   *)
(* has no buffer: a send on it is a joint step with the broker's select.   *)
(***************************************************************************)
EXTENDS Integers, Sequences, FiniteSets

CONSTANTS
    Client,
    Topic,
    QueueCap,       \* capacity of the channel broadcast (20)
    SocketCap,      \* pieces a connection holds before a write blocks
    MaxEvents       \* bound: commands, departures and ticks of the broker

ASSUME BrokerAssumption ==
    /\ QueueCap \in Nat \ {0} /\ SocketCap \in Nat \ {0}
    /\ MaxEvents \in Nat

VARIABLES
    \* broker
    topics,         \* b.topics: [Topic -> set of clients]
    broadcast,      \* the channel of published messages
    fanout,         \* the frames the broker still has to write: <<client, frame>>
    events,         \* commands, departures and ticks so far
    \* server and clients
    conns,          \* s.conns
    clientTopics,   \* c.topics
    reader,         \* the command it carries out, or "none", "read", "done"
    closer,         \* "none", "wait", "failed", "close", "done"
    writing,        \* the WriteFrame a goroutine is in: see Call
    \* the connection
    conn,           \* "none", "open", "eof", "reset", "closed"
    stream,         \* the pieces written to it
    seen,           \* how many of them the peer has read
    \* history
    due             \* [Client -> [Topic -> frames routed while it subscribed]]

brokerVars == <<topics, broadcast, fanout, events>>
clientVars == <<conns, clientTopics, reader, closer>>
connVars == <<conn, stream, seen>>
systemVars == <<brokerVars, clientVars, writing, connVars, due>>

\* The goroutines that write frames.
Writer == {<<"broker">>} \cup ({"reader", "closer"} \X Client)
BrokerW == <<"broker">>
Nobody == <<>>
ErrorFrame == <<"error">>
Idle(w) == writing[w] = Nobody

BrokerInit ==
    /\ topics = [t \in Topic |-> {}]
    /\ broadcast = <<>>
    /\ fanout = {}
    /\ events = 0
    /\ conns = {}
    /\ clientTopics = [c \in Client |-> {}]
    /\ reader = [c \in Client |-> <<"none">>]
    /\ closer = [c \in Client |-> "none"]
    /\ writing = [w \in Writer |-> Nobody]
    /\ conn = [c \in Client |-> "none"]
    /\ stream = [c \in Client |-> <<>>]
    /\ seen = [c \in Client |-> 0]
    /\ due = [c \in Client |-> [t \in Topic |-> <<>>]]

-----------------------------------------------------------------------------
(* Client.WriteFrame.                                                      *)

\* Goroutine w calls WriteFrame(frame) on client c.
Call(w, c, frame) ==
    writing' = [writing EXCEPT ![w] = [to |-> c, frame |-> frame, piece |-> "size"]]

\* Mutant of Free: WriteFrame without its lock.
Always(c) == TRUE

\* c.mu is free: nobody is between the two writes.
Free(c) == \A w \in Writer : ~Idle(w) /\ writing[w].to = c => writing[w].piece = "size"

\* w has c.mu or, at its first write, takes it: a goroutine that waits for
\* room with the lock and one that waits for the lock are not told apart.
HasLock(w) == ~Idle(w) /\ (writing[w].piece = "size" => Free(writing[w].to))

\* One of the two conn.Write.  It blocks while the connection is full; what is
\* written after the peer has closed is lost and may bring a reset.
Write(w) ==
    /\ HasLock(w)
    /\ LET c == writing[w].to IN
          \/ /\ conn[c] = "open"
             /\ Len(stream[c]) - seen[c] < SocketCap
             /\ stream' = [stream EXCEPT ![c] = Append(@, <<writing[w].piece, writing[w].frame>>)]
             /\ UNCHANGED conn
          \/ /\ conn[c] = "eof"
             /\ conn' \in {conn, [conn EXCEPT ![c] = "reset"]}
             /\ UNCHANGED stream
    /\ writing' = IF writing[w].piece = "size" THEN [writing EXCEPT ![w].piece = "body"]
                                               ELSE [writing EXCEPT ![w] = Nobody]
    /\ UNCHANGED <<brokerVars, clientVars, seen, due>>

\* Mutant of WriteFails: the write is tried again for as long as it fails.
WriteAgain(w) ==
    /\ HasLock(w)
    /\ conn[writing[w].to] \in {"reset", "closed"}
    /\ UNCHANGED systemVars

\* An error ends WriteFrame; every caller ignores it.
WriteFails(w) ==
    /\ HasLock(w)
    /\ conn[writing[w].to] \in {"reset", "closed"}
    /\ writing' = [writing EXCEPT ![w] = Nobody]
    /\ UNCHANGED <<brokerVars, clientVars, connVars, due>>

WriteFrame(w) == Write(w) \/ WriteFails(w)

-----------------------------------------------------------------------------
(* Broker.Bootstrap.                                                       *)

\* The broker waits at its select.
AtSelect == fanout = {} /\ Idle(BrokerW)

\* AddTopic.
WithTopic(c, t) == [clientTopics EXCEPT ![c] = @ \cup {t}]

\* reg := <-b.register, with the send in routeCommand.
Register(c) ==
    /\ AtSelect
    /\ reader[c][1] = "SUB"
    /\ LET t == reader[c][2] IN
          /\ topics' = [topics EXCEPT ![t] = @ \cup {c}]
          /\ clientTopics' = WithTopic(c, t)
    /\ reader' = [reader EXCEPT ![c] = <<"read">>]
    /\ UNCHANGED <<broadcast, fanout, events, conns, closer, writing, connVars, due>>

\* unreg := <-b.unregister.  The server never sends on it, the tests do; c.topics
\* keeps the topic.
Unregister(c, t) ==
    /\ AtSelect
    /\ c \in topics[t]
    /\ events < MaxEvents
    /\ events' = events + 1
    /\ topics' = [topics EXCEPT ![t] = @ \ {c}]
    /\ UNCHANGED <<broadcast, fanout, clientVars, writing, connVars, due>>

\* The frame of every topic that has one is due to the clients that are
\* subscribed to it now.
DueTo(frame) ==
    [c \in Client |-> [t \in Topic |->
        IF t \in DOMAIN frame /\ c \in topics[t] THEN Append(due[c][t], frame[t])
                                                 ELSE due[c][t]]]

\* Mutant of Subscribers: a message goes to the subscribers of every topic.
AnySubscribers(t) == UNION {topics[u] : u \in Topic}

Subscribers(t) == topics[t]

\* msg := <-b.broadcast; routeMessage starts its loop.
RouteMessage ==
    /\ AtSelect
    /\ broadcast # <<>>
    /\ LET msg == Head(broadcast) IN
          /\ fanout' = Subscribers(msg[1]) \X {msg}
          /\ due' = DueTo([t \in {msg[1]} |-> msg])
    /\ broadcast' = Tail(broadcast)
    /\ UNCHANGED <<topics, events, clientVars, writing, connVars>>

Price(t) == <<t, "tick", events>>

\* The ticker: routeBroadcast writes a price to the clients of each topic.
RouteBroadcast ==
    /\ AtSelect
    /\ events < MaxEvents
    /\ events' = events + 1
    /\ fanout' = UNION {topics[t] \X {Price(t)} : t \in Topic}
    /\ due' = DueTo([t \in Topic |-> Price(t)])
    /\ UNCHANGED <<topics, broadcast, clientVars, writing, connVars>>

\* A turn of those loops: the next client, in any order.
FanoutNext ==
    /\ Idle(BrokerW)
    /\ \E f \in fanout :
          /\ fanout' = fanout \ {f}
          /\ Call(BrokerW, f[1], f[2])
    /\ UNCHANGED <<topics, broadcast, events, clientVars, connVars, due>>

-----------------------------------------------------------------------------
(* Server: Boostrap, handleConn, handleRead, routeCommand, CloseClient.    *)

HandleConn(c) ==
    /\ conn[c] = "none"
    /\ conn' = [conn EXCEPT ![c] = "open"]
    /\ conns' = conns \cup {c}
    /\ reader' = [reader EXCEPT ![c] = <<"read">>]
    /\ closer' = [closer EXCEPT ![c] = "wait"]
    /\ UNCHANGED <<brokerVars, clientTopics, writing, stream, seen, due>>

\* What a user can type into writeFrame: the last stands for a topic or a price that
\* is none, the one before for a word that is no command.
Commands == ({"SUB", "PUB"} \X Topic) \cup {<<"???">>, <<"bad">>}

AtRead(c) == reader[c] = <<"read">> /\ Idle(<<"reader", c>>)

\* A frame is read and routeCommand acts on it: a bad one is answered, an
\* unknown command is not.
ReadCommand(c) ==
    /\ AtRead(c)
    /\ conn[c] = "open"
    /\ events < MaxEvents
    /\ events' = events + 1
    /\ \E cmd \in Commands :
          /\ reader' = [reader EXCEPT ![c] = IF cmd[1] \in {"SUB", "PUB"}
                                              THEN <<cmd[1], cmd[2], events>> ELSE @]
          /\ IF cmd = <<"bad">> THEN Call(<<"reader", c>>, c, ErrorFrame)
                                ELSE UNCHANGED writing
    /\ UNCHANGED <<topics, broadcast, fanout, conns, clientTopics, closer, connVars, due>>

\* An EOF is not an error here: it is an empty command, answered as a bad one,
\* again and again while the connection stays half closed.
ReadEof(c) ==
    /\ AtRead(c)
    /\ conn[c] = "eof"
    /\ Call(<<"reader", c>>, c, ErrorFrame)
    /\ UNCHANGED <<brokerVars, clientVars, connVars, due>>

\* A read error, or an EOF inside a frame, goes to errCh.
ReadError(c) ==
    /\ AtRead(c)
    /\ conn[c] \in {"eof", "reset"}
    /\ reader' = [reader EXCEPT ![c] = <<"done">>]
    /\ closer' = [closer EXCEPT ![c] = "failed"]
    /\ UNCHANGED <<brokerVars, conns, clientTopics, writing, connVars, due>>

\* s.broker.broadcast <- msg, which waits for room.
Publish(c) ==
    /\ reader[c][1] = "PUB"
    /\ Len(broadcast) < QueueCap
    /\ broadcast' = Append(broadcast, <<reader[c][2], c, reader[c][3]>>)
    /\ reader' = [reader EXCEPT ![c] = <<"read">>]
    /\ UNCHANGED <<topics, fanout, events, conns, clientTopics, closer,
                   writing, connVars, due>>

\* <-errCh: the last frame ...
CloserWrites(c) ==
    /\ closer[c] = "failed"
    /\ closer' = [closer EXCEPT ![c] = "close"]
    /\ Call(<<"closer", c>>, c, ErrorFrame)
    /\ UNCHANGED <<brokerVars, conns, clientTopics, reader, connVars, due>>

\* ... and CloseClient; the broker is not told.
CloseClient(c) ==
    /\ closer[c] = "close"
    /\ Idle(<<"closer", c>>)
    /\ closer' = [closer EXCEPT ![c] = "done"]
    /\ conns' = conns \ {c}
    /\ conn' = [conn EXCEPT ![c] = "closed"]
    /\ UNCHANGED <<brokerVars, clientTopics, reader, writing,
                   stream, seen, due>>

-----------------------------------------------------------------------------
(* The client program.                                                     *)

\* readFrame.
PeerReads(c) ==
    /\ conn[c] = "open"
    /\ seen[c] < Len(stream[c])
    /\ seen' = [seen EXCEPT ![c] = @ + 1]
    /\ UNCHANGED <<brokerVars, clientVars, writing, conn, stream, due>>

\* main returns and the connection is closed, or it breaks: nobody looks at
\* what it carried.
PeerLeaves(c) ==
    /\ conn[c] = "open"
    /\ \E end \in {"eof", "reset"} : conn' = [conn EXCEPT ![c] = end]
    /\ stream' = [stream EXCEPT ![c] = <<>>]
    /\ seen' = [seen EXCEPT ![c] = 0]
    /\ events < MaxEvents
    /\ events' = events + 1
    /\ UNCHANGED <<topics, broadcast, fanout, clientVars, writing, due>>

-----------------------------------------------------------------------------
Bootstrap == RouteMessage \/ RouteBroadcast \/ FanoutNext
HandleRead(c) == ReadCommand(c) \/ ReadEof(c) \/ ReadError(c) \/ Publish(c)
Closer(c) == CloserWrites(c) \/ CloseClient(c)

\* A signal ends the context, and main returns with the accept loop: the
\* process stops at any point and hands nothing on, a behaviour cut short.
BrokerNext ==
    \/ Bootstrap \/ \E w \in Writer : WriteFrame(w)
    \/ \E c \in Client : HandleConn(c) \/ Register(c) \/ (\E t \in Topic : Unregister(c, t))
                         \/ HandleRead(c) \/ Closer(c)
                         \/ PeerReads(c) \/ PeerLeaves(c)

BrokerSpec == BrokerInit /\ [][BrokerNext]_systemVars

\* The goroutines run, Go's select and mutex let nobody wait for ever, and the
\* repository's client reads what it is sent for as long as it is connected.
BrokerFairSpec ==
    /\ BrokerSpec
    /\ WF_systemVars(FanoutNext) /\ SF_systemVars(WriteFrame(BrokerW))
    /\ \A c \in Client :
          /\ WF_systemVars(WriteFrame(<<"reader", c>>)) /\ WF_systemVars(WriteFrame(<<"closer", c>>))
          /\ WF_systemVars(PeerReads(c))

-----------------------------------------------------------------------------
Frame == (Topic \X Client \X Nat) \cup (Topic \X {"tick"} \X Nat) \cup {ErrorFrame}

BrokerTypeOK ==
    /\ topics \in [Topic -> SUBSET Client] /\ clientTopics \in [Client -> SUBSET Topic]
    /\ Len(broadcast) <= QueueCap /\ events \in 0..MaxEvents
    /\ fanout \subseteq Client \X Frame
    /\ conns \subseteq Client
    /\ closer \in [Client -> {"none", "wait", "failed", "close", "done"}]
    /\ conn \in [Client -> {"none", "open", "eof", "reset", "closed"}]
    /\ \A c \in Client :
          /\ reader[c] \in ({"SUB", "PUB"} \X Topic \X Nat) \cup {<<"none">>, <<"read">>, <<"done">>}
          /\ stream[c] \in Seq({"size", "body"} \X Frame)
          /\ seen[c] \in 0..Len(stream[c]) /\ Len(stream[c]) - seen[c] <= SocketCap
          /\ \A t \in Topic : c \in topics[t] => t \in clientTopics[c]

\* A peer can tell where frames begin: three goroutines write to a connection,
\* and a size is always followed by its own body (client.go 41-54).
FramesWhole ==
    /\ BrokerTypeOK
    /\ \A c \in Client : \A i \in DOMAIN stream[c] :
          /\ (stream[c][i][1] = "size") = (i % 2 = 1)
          /\ i % 2 = 0 => stream[c][i][2] = stream[c][i - 1][2]

\* A frame on topic t.
OnTopic(frame, t) == frame # ErrorFrame /\ frame[1] = t

\* Where the bodies on topic t are that c has been sent.
Sent(c, t) == {i \in DOMAIN stream[c] : stream[c][i][1] = "body" /\ OnTopic(stream[c][i][2], t)}

\* The writes to c on topic t that the broker has before it, or is in.
Ahead(c, t) ==
    {f \in fanout : f[1] = c /\ OnTopic(f[2], t)}
    \cup {w \in {BrokerW} : ~Idle(w) /\ writing[w].to = c /\ OnTopic(writing[w].frame, t)}

\* A subscriber is sent every frame of a topic that is routed while it is
\* subscribed, in the broker's order, none twice, and nothing else: the k-th
\* that it is sent is the k-th that was due (README: "receive only broadcasts
\* for those"; broker.go 55-100).
StreamIsTopicLog ==
    \A c \in Client, t \in Topic :
        conn[c] = "open" =>
            /\ \A i \in Sent(c, t) :
                  stream[c][i][2] = due[c][t][Cardinality({j \in Sent(c, t) : j <= i})]
            /\ Cardinality(Sent(c, t)) + Cardinality(Ahead(c, t)) = Len(due[c][t])

\* No subscriber holds the broker for ever: as long as each one reads or
\* leaves, it comes back to its select (broker.go 47-65, client.go 41-54).
BrokerComesBack == []<>AtSelect

=============================================================================
