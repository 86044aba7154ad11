---------------------------- MODULE TcpServerProofs ----------------------------
(***************************************************************************)
(* Theorems about the two TCP servers, the worker pool (03) and the stream *)
(* broker (06): two systems that share no constant and no variable.        *)
(* Those of Broker hold for any clients and topics, any size of the queue, *)
(* of a socket's buffer and of the bound; those of WorkerPool for any      *)
(* connections, workers, callers of Shutdown and queue size.               *)
(***************************************************************************)
EXTENDS Broker, WorkerPool, FiniteSetTheorems, TLAPS

-----------------------------------------------------------------------------
(* Types.                                                                  *)

\* Beside BrokerTypeOK, what the queue holds and what a goroutine writes to whom.
Calls == [to : Client, frame : Frame, piece : {"size", "body"}]

Types ==
    /\ topics \in [Topic -> SUBSET Client] /\ clientTopics \in [Client -> SUBSET Topic]
    /\ broadcast \in Seq(Topic \X Client \X Nat) /\ Len(broadcast) <= QueueCap
    /\ events \in 0..MaxEvents
    /\ fanout \in SUBSET (Client \X Frame)
    /\ conns \subseteq Client
    /\ closer \in [Client -> {"none", "wait", "failed", "close", "done"}]
    /\ conn \in [Client -> {"none", "open", "eof", "reset", "closed"}]
    /\ reader \in [Client -> ({"SUB", "PUB"} \X Topic \X Nat) \cup {<<"none">>, <<"read">>, <<"done">>}]
    /\ writing \in [Writer -> Calls \cup {Nobody}]
    /\ stream \in [Client -> Seq({"size", "body"} \X Frame)]
    /\ seen \in [Client -> Nat]
    /\ \A c \in Client : seen[c] <= Len(stream[c]) /\ Len(stream[c]) - seen[c] <= SocketCap
    /\ \A c \in Client, t \in Topic : c \in topics[t] => t \in clientTopics[c]

\* A call is not the absence of one.
LEMMA CallIsOne == \A r \in Calls : r # Nobody
<1> SUFFICES ASSUME NEW r \in Calls, r = Nobody PROVE FALSE
  OBVIOUS
<1>1. "to" \in DOMAIN r
  BY DEF Calls
<1>2. DOMAIN Nobody = {}
  BY DEF Nobody
<1> QED
  BY <1>1, <1>2

LEMMA CallType ==
  ASSUME Types, NEW w \in Writer, NEW c \in Client, NEW frame \in Frame, Call(w, c, frame)
  PROVE  /\ writing' \in [Writer -> Calls \cup {Nobody}]
         /\ writing'[w].to = c /\ writing'[w].piece = "size" /\ writing'[w].frame = frame
         /\ writing'[w] # Nobody
         /\ \A v \in Writer : v # w => writing'[v] = writing[v]
<1>1. [to |-> c, frame |-> frame, piece |-> "size"] \in Calls
  BY DEF Calls
<1>2. writing' = [writing EXCEPT ![w] = [to |-> c, frame |-> frame, piece |-> "size"]]
  BY DEF Call
<1>3. writing \in [Writer -> Calls \cup {Nobody}]
  BY DEF Types
<1> HIDE DEF Calls
<1>4. writing'[w] = [to |-> c, frame |-> frame, piece |-> "size"]
  BY <1>2, <1>3
<1>5. writing'[w] # Nobody
  BY <1>1, <1>4, CallIsOne
<1> QED
  BY <1>1, <1>2, <1>3, <1>4, <1>5

LEMMA Writers ==
  /\ BrokerW \in Writer
  /\ \A c \in Client : <<"reader", c>> \in Writer /\ <<"closer", c>> \in Writer
  BY DEF Writer, BrokerW

\* What a write does, whatever it meets.
LEMMA WriteEffect ==
  ASSUME Types, NEW w \in Writer, Write(w)
  PROVE  LET c == writing[w].to
             f == writing[w].frame
         IN  /\ writing[w] \in Calls /\ c \in Client /\ f \in Frame
             /\ writing' \in [Writer -> Calls \cup {Nobody}]
             /\ \A v \in Writer : v # w => writing'[v] = writing[v]
             /\ writing[w].piece = "size" =>
                   writing'[w] = [to |-> c, frame |-> f, piece |-> "body"]
             /\ writing[w].piece = "body" => writing'[w] = Nobody
<1>1. writing[w] \in Calls
  BY DEF Write, HasLock, Idle, Types
<1>2. writing[w].to \in Client /\ writing[w].frame \in Frame /\ writing[w].piece \in {"size", "body"}
  BY <1>1 DEF Calls
<1>3. writing \in [Writer -> Calls \cup {Nobody}]
  BY DEF Types
<1>4. CASE writing[w].piece = "size"
  <2>1. writing' = [writing EXCEPT ![w].piece = "body"]
    BY <1>4 DEF Write
  <2>2. writing'[w] = [writing[w] EXCEPT !.piece = "body"]
    BY <1>3, <2>1
  <2>3. writing'[w] = [to |-> writing[w].to, frame |-> writing[w].frame, piece |-> "body"]
    BY <1>1, <2>2 DEF Calls
  <2>4. writing'[w] \in Calls
    BY <1>2, <2>3 DEF Calls
  <2>5. writing' \in [Writer -> Calls \cup {Nobody}] /\ \A v \in Writer : v # w => writing'[v] = writing[v]
    <3>1. writing' = [v \in Writer |-> IF v = w THEN writing'[w] ELSE writing[v]]
      BY <1>3, <2>1
    <3> QED
      BY <1>3, <2>4, <3>1
  <2> QED
    BY <1>1, <1>2, <1>4, <2>3, <2>5
<1>5. CASE writing[w].piece = "body"
  <2>1. writing' = [writing EXCEPT ![w] = Nobody]
    BY <1>5 DEF Write
  <2> QED
    BY <1>1, <1>2, <1>3, <1>5, <2>1
<1> QED
  BY <1>2, <1>4, <1>5

LEMMA TypesInit == BrokerInit => Types
<1> SUFFICES ASSUME BrokerInit PROVE Types
  OBVIOUS
<1>1. broadcast \in Seq(Topic \X Client \X Nat) /\ Len(broadcast) <= QueueCap
  BY BrokerAssumption DEF BrokerInit
<1>2. \A c \in Client : stream[c] = <<>> /\ seen[c] = 0
  BY DEF BrokerInit
<1>3. \A c \in Client : seen[c] <= Len(stream[c]) /\ Len(stream[c]) - seen[c] <= SocketCap
  BY <1>2, BrokerAssumption
<1>4. stream \in [Client -> Seq({"size", "body"} \X Frame)] /\ seen \in [Client -> Nat]
  BY DEF BrokerInit
<1>5. events \in 0..MaxEvents
  BY BrokerAssumption DEF BrokerInit
<1>6. writing \in [Writer -> Calls \cup {Nobody}]
  BY DEF BrokerInit
<1>7. /\ topics \in [Topic -> SUBSET Client] /\ clientTopics \in [Client -> SUBSET Topic]
      /\ fanout \in SUBSET (Client \X Frame) /\ conns \subseteq Client
      /\ \A c \in Client, t \in Topic : c \in topics[t] => t \in clientTopics[c]
  BY DEF BrokerInit
<1>8. /\ closer \in [Client -> {"none", "wait", "failed", "close", "done"}]
      /\ conn \in [Client -> {"none", "open", "eof", "reset", "closed"}]
  BY DEF BrokerInit
<1>9. reader \in [Client -> ({"SUB", "PUB"} \X Topic \X Nat) \cup {<<"none">>, <<"read">>, <<"done">>}]
  BY DEF BrokerInit
<1> QED
  BY <1>1, <1>3, <1>4, <1>5, <1>6, <1>7, <1>8, <1>9 DEF Types

LEMMA TypesStep == Types /\ [BrokerNext]_systemVars => Types'
<1> SUFFICES ASSUME Types, [BrokerNext]_systemVars PROVE Types'
  OBVIOUS
<1> USE DEF brokerVars, clientVars, connVars
<1>1. ASSUME NEW w \in Writer, Write(w) PROVE Types'
  <2>0. PICK c \in Client, f \in Frame : c = writing[w].to /\ f = writing[w].frame
    BY <1>1, WriteEffect
  <2>1. writing[w].piece \in {"size", "body"} /\ writing' \in [Writer -> Calls \cup {Nobody}]
    BY <1>1, WriteEffect DEF Calls
  <2>2. conn' \in [Client -> {"none", "open", "eof", "reset", "closed"}]
    BY <1>1 DEF Write, Types
  <2>3. /\ stream' \in [Client -> Seq({"size", "body"} \X Frame)]
        /\ \A d \in Client : seen[d] <= Len(stream'[d]) /\ Len(stream'[d]) - seen[d] <= SocketCap
    <3>1. CASE conn[c] = "open"
      <4>1. /\ Len(stream[c]) - seen[c] < SocketCap
            /\ stream' = [stream EXCEPT ![c] = Append(@, <<writing[w].piece, f>>)]
        BY <1>1, <2>0, <3>1 DEF Write
      <4>2. <<writing[w].piece, f>> \in {"size", "body"} \X Frame
        BY <2>0, <2>1
      <4>3. stream[c] \in Seq({"size", "body"} \X Frame)
        BY DEF Types
      <4>4. PICK n \in Nat, k \in Nat : n = Len(stream[c]) /\ k = seen[c] /\ k <= n /\ n - k < SocketCap
        BY <4>1, <4>3 DEF Types
      <4>5. stream'[c] = Append(stream[c], <<writing[w].piece, f>>)
        BY <4>1 DEF Types
      <4>6. stream'[c] \in Seq({"size", "body"} \X Frame) /\ Len(stream'[c]) = n + 1
        BY <4>2, <4>3, <4>4, <4>5
      <4>7. seen[c] <= Len(stream'[c]) /\ Len(stream'[c]) - seen[c] <= SocketCap
        BY <4>4, <4>6, BrokerAssumption
      <4>8. \A d \in Client : d # c => stream'[d] = stream[d]
        BY <4>1 DEF Types
      <4>9. stream' \in [Client -> Seq({"size", "body"} \X Frame)]
        BY <4>1, <4>5, <4>6 DEF Types
      <4> QED
        BY <4>7, <4>8, <4>9 DEF Types
    <3>2. CASE conn[c] # "open"
      <4>1. stream' = stream
        BY <1>1, <2>0, <3>2 DEF Write
      <4> QED
        BY <4>1 DEF Types
    <3> QED
      BY <3>1, <3>2
  <2> QED
    BY <1>1, <2>1, <2>2, <2>3 DEF Write, Types
<1>2. ASSUME NEW w \in Writer, WriteFails(w) PROVE Types'
  <2>1. writing' \in [Writer -> Calls \cup {Nobody}]
    BY <1>2 DEF WriteFails, Types
  <2> QED
    BY <1>2, <2>1 DEF WriteFails, Types
<1>3. CASE RouteMessage
  <2>1. /\ Head(broadcast) \in Topic \X Client \X Nat
        /\ Tail(broadcast) \in Seq(Topic \X Client \X Nat) /\ Len(Tail(broadcast)) <= QueueCap
    <3>1. broadcast \in Seq(Topic \X Client \X Nat) /\ broadcast # <<>>
      BY <1>3 DEF RouteMessage, Types
    <3>2. Len(Tail(broadcast)) = Len(broadcast) - 1 /\ Len(broadcast) \in Nat
      BY <3>1
    <3> QED
      BY <3>1, <3>2, BrokerAssumption DEF Types
  <2>2. fanout' = topics[Head(broadcast)[1]] \X {Head(broadcast)}
    BY <1>3 DEF RouteMessage, Subscribers
  <2>3. Head(broadcast)[1] \in Topic /\ Head(broadcast) \in Frame
    BY <2>1 DEF Frame
  <2>4. fanout' \in SUBSET (Client \X Frame)
    BY <2>2, <2>3 DEF Types
  <2> QED
    BY <1>3, <2>1, <2>4 DEF RouteMessage, Types
<1>4. CASE RouteBroadcast
  <2>1. events' \in 0..MaxEvents
    BY <1>4, BrokerAssumption DEF RouteBroadcast, Types
  <2>2. \A t \in Topic : Price(t) \in Frame /\ topics[t] \subseteq Client
    BY DEF Price, Frame, Types
  <2>3. fanout' \in SUBSET (Client \X Frame)
    BY <1>4, <2>2 DEF RouteBroadcast
  <2> QED
    BY <1>4, <2>1, <2>3 DEF RouteBroadcast, Types
<1>5. CASE FanoutNext
  <2>1. PICK f \in fanout : fanout' = fanout \ {f} /\ Call(BrokerW, f[1], f[2])
    BY <1>5 DEF FanoutNext
  <2>2. f[1] \in Client /\ f[2] \in Frame
    BY <2>1 DEF Types
  <2>3. writing' \in [Writer -> Calls \cup {Nobody}]
    BY <2>1, <2>2, CallType, Writers
  <2> QED
    BY <1>5, <2>1, <2>3 DEF FanoutNext, Types
<1>6. ASSUME NEW c \in Client, HandleConn(c) PROVE Types'
  BY <1>6 DEF HandleConn, Types
<1>7. ASSUME NEW c \in Client, Register(c) PROVE Types'
  <2>1. reader[c] \in {"SUB", "PUB"} \X Topic \X Nat
    BY <1>7 DEF Register, Types
  <2>2. PICK t \in Topic : t = reader[c][2]
    BY <2>1
  <2>3. /\ topics' = [topics EXCEPT ![t] = @ \cup {c}]
        /\ clientTopics' = [clientTopics EXCEPT ![c] = @ \cup {t}]
    BY <1>7, <2>2 DEF Register, WithTopic
  <2>4. topics' \in [Topic -> SUBSET Client] /\ clientTopics' \in [Client -> SUBSET Topic]
    BY <2>3 DEF Types
  <2>5. \A d \in Client, u \in Topic : d \in topics'[u] => u \in clientTopics'[d]
    BY <2>3 DEF Types
  <2>6. reader' \in [Client -> ({"SUB", "PUB"} \X Topic \X Nat) \cup {<<"none">>, <<"read">>, <<"done">>}]
    BY <1>7 DEF Register, Types
  <2> QED
    BY <1>7, <2>4, <2>5, <2>6 DEF Register, Types
<1>8. ASSUME NEW c \in Client, NEW t \in Topic, Unregister(c, t) PROVE Types'
  <2>1. events' \in 0..MaxEvents
    BY <1>8, BrokerAssumption DEF Unregister, Types
  <2>2. topics' \in [Topic -> SUBSET Client]
    BY <1>8 DEF Unregister, Types
  <2>3. \A d \in Client, u \in Topic : d \in topics'[u] => u \in clientTopics[d]
    BY <1>8 DEF Unregister, Types
  <2> QED
    BY <1>8, <2>1, <2>2, <2>3 DEF Unregister, Types
<1>9. ASSUME NEW c \in Client, ReadCommand(c) PROVE Types'
  <2>1. PICK cmd \in Commands :
          /\ reader' = [reader EXCEPT ![c] = IF cmd[1] \in {"SUB", "PUB"}
                                              THEN <<cmd[1], cmd[2], events>> ELSE @]
          /\ IF cmd = <<"bad">> THEN Call(<<"reader", c>>, c, ErrorFrame)
                                ELSE UNCHANGED writing
    BY <1>9 DEF ReadCommand
  <2>2. events' \in 0..MaxEvents
    BY <1>9, BrokerAssumption DEF ReadCommand, Types
  <2>3. writing' \in [Writer -> Calls \cup {Nobody}]
    <3>1. ErrorFrame \in Frame
      BY DEF Frame
    <3>2. CASE cmd = <<"bad">>
      BY <2>1, <3>1, <3>2, CallType, Writers
    <3>3. CASE cmd # <<"bad">>
      BY <2>1, <3>3 DEF Types
    <3> QED
      BY <3>2, <3>3
  <2>4. reader' \in [Client -> ({"SUB", "PUB"} \X Topic \X Nat) \cup {<<"none">>, <<"read">>, <<"done">>}]
    <3>1. CASE cmd[1] \in {"SUB", "PUB"}
      <4>1. PICK k \in {"SUB", "PUB"}, t \in Topic : cmd = <<k, t>>
        BY <3>1 DEF Commands
      <4>2. <<cmd[1], cmd[2], events>> = <<k, t, events>>
        BY <4>1
      <4>3. <<k, t, events>> \in {"SUB", "PUB"} \X Topic \X Nat
        BY DEF Types
      <4>4. reader' = [reader EXCEPT ![c] = <<k, t, events>>]
        BY <2>1, <3>1, <4>2
      <4> QED
        BY <4>3, <4>4 DEF Types
    <3>2. CASE cmd[1] \notin {"SUB", "PUB"}
      BY <2>1, <3>2 DEF Types
    <3> QED
      BY <3>1, <3>2
  <2> QED
    BY <1>9, <2>2, <2>3, <2>4 DEF ReadCommand, Types
<1>10. ASSUME NEW c \in Client, ReadEof(c) PROVE Types'
  <2>1. writing' \in [Writer -> Calls \cup {Nobody}]
    BY <1>10, CallType, Writers DEF ReadEof, Frame
  <2> QED
    BY <1>10, <2>1 DEF ReadEof, Types
<1>11. ASSUME NEW c \in Client, ReadError(c) PROVE Types'
  BY <1>11 DEF ReadError, Types
<1>12. ASSUME NEW c \in Client, Publish(c) PROVE Types'
  <2>1. reader[c] \in {"SUB", "PUB"} \X Topic \X Nat
    BY <1>12 DEF Publish, Types
  <2>2. <<reader[c][2], c, reader[c][3]>> \in Topic \X Client \X Nat
    BY <2>1
  <2>3. broadcast' \in Seq(Topic \X Client \X Nat) /\ Len(broadcast') = Len(broadcast) + 1
    BY <1>12, <2>2 DEF Publish, Types
  <2>4. Len(broadcast') <= QueueCap
    BY <1>12, <2>3, BrokerAssumption DEF Publish, Types
  <2> QED
    BY <1>12, <2>3, <2>4 DEF Publish, Types
<1>13. ASSUME NEW c \in Client, CloserWrites(c) PROVE Types'
  <2>1. writing' \in [Writer -> Calls \cup {Nobody}]
    BY <1>13, CallType, Writers DEF CloserWrites, Frame
  <2> QED
    BY <1>13, <2>1 DEF CloserWrites, Types
<1>14. ASSUME NEW c \in Client, CloseClient(c) PROVE Types'
  BY <1>14 DEF CloseClient, Types
<1>15. ASSUME NEW c \in Client, PeerReads(c) PROVE Types'
  <2>1. PICK n \in Nat, k \in Nat : n = Len(stream[c]) /\ k = seen[c] /\ k < n /\ n - k <= SocketCap
    BY <1>15 DEF PeerReads, Types
  <2>2. seen' = [seen EXCEPT ![c] = k + 1]
    BY <1>15, <2>1 DEF PeerReads
  <2>3. k + 1 <= n /\ n - (k + 1) <= SocketCap
    BY <2>1, BrokerAssumption
  <2>4. seen' \in [Client -> Nat]
    BY <2>2 DEF Types
  <2>5. \A d \in Client : seen'[d] <= Len(stream[d]) /\ Len(stream[d]) - seen'[d] <= SocketCap
    BY <2>1, <2>2, <2>3 DEF Types
  <2> QED
    BY <1>15, <2>4, <2>5 DEF PeerReads, Types
<1>16. ASSUME NEW c \in Client, PeerLeaves(c) PROVE Types'
  <2>1. events' \in 0..MaxEvents
    BY <1>16, BrokerAssumption DEF PeerLeaves, Types
  <2>2. conn' \in [Client -> {"none", "open", "eof", "reset", "closed"}]
    BY <1>16 DEF PeerLeaves, Types
  <2>3. stream' = [stream EXCEPT ![c] = <<>>] /\ seen' = [seen EXCEPT ![c] = 0]
    BY <1>16 DEF PeerLeaves
  <2>4. stream' \in [Client -> Seq({"size", "body"} \X Frame)] /\ seen' \in [Client -> Nat]
    BY <2>3 DEF Types
  <2>5. \A d \in Client : seen'[d] <= Len(stream'[d]) /\ Len(stream'[d]) - seen'[d] <= SocketCap
    <3>1. Len(<<>>) = 0 /\ 0 - 0 <= SocketCap
      BY BrokerAssumption
    <3>2. stream'[c] = <<>> /\ seen'[c] = 0
      BY <2>3 DEF Types
    <3>3. \A d \in Client : d # c => stream'[d] = stream[d] /\ seen'[d] = seen[d]
      BY <2>3 DEF Types
    <3> QED
      BY <3>1, <3>2, <3>3 DEF Types
  <2> QED
    BY <1>16, <2>1, <2>2, <2>4, <2>5 DEF PeerLeaves, Types
<1>17. CASE UNCHANGED systemVars
  BY <1>17 DEF systemVars, Types
<1> QED
  BY <1>1, <1>2, <1>3, <1>4, <1>5, <1>6, <1>7, <1>8, <1>9, <1>10, <1>11, <1>12, <1>13,
     <1>14, <1>15, <1>16, <1>17
  DEF BrokerNext, Bootstrap, WriteFrame, HandleRead, Closer

-----------------------------------------------------------------------------
(* Who writes to whom.                                                     *)

\* Before a client is accepted nobody has anything for it; a connection that
\* its peer has left carries nothing, and it is closed after that only.
Acquainted(c) ==
    /\ conn[c] # "open" => stream[c] = <<>>
    /\ closer[c] \in {"failed", "close", "done"} => conn[c] \in {"eof", "reset", "closed"}
    /\ conn[c] = "none" =>
          /\ reader[c] = <<"none">> /\ closer[c] = "none"
          /\ \A t \in Topic : c \notin topics[t]
          /\ \A f \in fanout : f[1] # c
          /\ \A w \in Writer : writing[w] # Nobody => writing[w].to # c

\* The goroutine that closes it starts when the one that reads has ended, and
\* writes once before it closes.
Closing(c) ==
    /\ closer[c] \notin {"none", "wait"} => reader[c] = <<"done">>
    /\ closer[c] # "close" => Idle(<<"closer", c>>)

NoStranger == \A c \in Client : Acquainted(c) /\ Closing(c)

\* A call made to another client changes nothing.
LEMMA CallOther ==
  ASSUME Types, NEW c \in Client, NEW d \in Client, NEW w \in Writer, NEW frame \in Frame,
         Call(w, d, frame), c # d,
         \A v \in Writer : writing[v] # Nobody => writing[v].to # c
  PROVE  \A v \in Writer : writing'[v] # Nobody => writing'[v].to # c
<1>1. writing'[w].to = d /\ \A v \in Writer : v # w => writing'[v] = writing[v]
  BY CallType
<1> QED
  BY <1>1

\* Only CloserWrites calls from the closer, and only ReadError wakes it.
LEMMA ClosingStep ==
  ASSUME Types, [BrokerNext]_systemVars, NEW c \in Client, Acquainted(c), Closing(c)
  PROVE  Closing(c)'
<1> USE DEF brokerVars, clientVars, connVars
<1> DEFINE me == <<"closer", c>>
<1>0. me \in Writer
  BY Writers
<1>1. ASSUME NEW d \in Client, CloseClient(d) PROVE Closing(c)'
  <2>1. /\ writing' = writing /\ Idle(<<"closer", d>>) /\ reader' = reader
        /\ closer[d] = "close" /\ closer' = [closer EXCEPT ![d] = "done"]
    BY <1>1 DEF CloseClient
  <2> QED
    BY <2>1 DEF Closing, Idle, Types
<1>2. ASSUME NEW d \in Client, CloserWrites(d) PROVE Closing(c)'
  <2>1. /\ Call(<<"closer", d>>, d, ErrorFrame) /\ reader' = reader
        /\ closer[d] = "failed" /\ closer' = [closer EXCEPT ![d] = "close"]
    BY <1>2 DEF CloserWrites
  <2>2. CASE c = d
    BY <2>1, <2>2 DEF Closing, Types
  <2>3. CASE c # d
    <3>1. me # <<"closer", d>> /\ closer'[c] = closer[c]
      BY <2>1, <2>3 DEF Types
    <3>2. writing'[me] = writing[me]
      BY <1>0, <2>1, <3>1, CallType, Writers DEF Frame
    <3> QED
      BY <2>1, <3>1, <3>2 DEF Closing, Idle
  <2> QED
    BY <2>2, <2>3
<1>3. ASSUME NEW w \in Writer, WriteFrame(w) PROVE Closing(c)'
  <2>1. closer' = closer /\ reader' = reader /\ ~Idle(w)
    BY <1>3 DEF WriteFrame, Write, WriteFails, HasLock
  <2>2. Idle(me) => writing'[me] = writing[me]
    <3>1. CASE Write(w)
      BY <1>0, <2>1, <3>1, WriteEffect
    <3>2. CASE WriteFails(w)
      BY <1>0, <2>1, <3>2 DEF WriteFails, Types
    <3> QED
      BY <1>3, <3>1, <3>2 DEF WriteFrame
  <2> QED
    BY <2>1, <2>2 DEF Closing, Idle
<1>4. ASSUME NEW w \in Writer, NEW d \in Client, NEW f \in Frame, Call(w, d, f), w # me,
             closer' = closer, reader'[c] = reader[c] \/ reader[c] # <<"done">>
      PROVE  Closing(c)'
  <2>1. writing'[me] = writing[me]
    BY <1>0, <1>4, CallType
  <2> QED
    BY <1>4, <2>1 DEF Closing, Idle
<1>5. CASE FanoutNext
  <2>1. PICK f \in fanout : Call(BrokerW, f[1], f[2])
    BY <1>5 DEF FanoutNext
  <2>2. f[1] \in Client /\ f[2] \in Frame
    BY <2>1 DEF Types
  <2>3. closer' = closer /\ reader' = reader /\ BrokerW # me
    BY <1>5 DEF FanoutNext, BrokerW
  <2> QED
    BY <1>4, <2>1, <2>2, <2>3, Writers
<1>6. ASSUME NEW d \in Client, Publish(d) \/ Register(d) \/ ReadCommand(d) \/ ReadEof(d)
      PROVE  Closing(c)'
  <2>1. closer' = closer
    BY <1>6 DEF Publish, Register, ReadCommand, ReadEof
  <2>2. reader[d] # <<"done">> /\ (c # d => reader'[c] = reader[c])
    BY <1>6 DEF Publish, Register, ReadCommand, ReadEof, AtRead, Types
  <2>3. reader'[c] = reader[c] \/ reader[c] # <<"done">>
    BY <2>2
  <2>4. Call(<<"reader", d>>, d, ErrorFrame) \/ writing' = writing
    BY <1>6 DEF Publish, Register, ReadCommand, ReadEof
  <2>5. ErrorFrame \in Frame /\ <<"reader", d>> # me
    BY DEF Frame
  <2>6. CASE writing' = writing
    BY <2>1, <2>3, <2>6 DEF Closing, Idle
  <2> QED
    BY <1>4, <2>1, <2>3, <2>4, <2>5, <2>6, Writers
<1>7. ASSUME NEW d \in Client, ReadError(d) PROVE Closing(c)'
  <2>1. /\ writing' = writing /\ reader[d] = <<"read">>
        /\ closer' = [closer EXCEPT ![d] = "failed"] /\ reader' = [reader EXCEPT ![d] = <<"done">>]
    BY <1>7 DEF ReadError, AtRead
  <2>2. <<"read">> # <<"done">>
    OBVIOUS
  <2>3. CASE c = d
    BY <2>1, <2>2, <2>3 DEF Closing, Idle, Types
  <2>4. CASE c # d
    <3>1. closer'[c] = closer[c] /\ reader'[c] = reader[c]
      BY <2>1, <2>4 DEF Types
    <3> QED
      BY <2>1, <3>1 DEF Closing, Idle
  <2> QED
    BY <2>3, <2>4
<1>8. ASSUME NEW d \in Client, HandleConn(d) PROVE Closing(c)'
  <2>1. /\ writing' = writing /\ conn[d] = "none"
        /\ closer' = [closer EXCEPT ![d] = "wait"] /\ reader' = [reader EXCEPT ![d] = <<"read">>]
    BY <1>8 DEF HandleConn
  <2>2. CASE c = d
    BY <2>1, <2>2 DEF Acquainted, Closing, Idle, Types
  <2>3. CASE c # d
    <3>1. closer'[c] = closer[c] /\ reader'[c] = reader[c]
      BY <2>1, <2>3 DEF Types
    <3> QED
      BY <2>1, <3>1 DEF Closing, Idle
  <2> QED
    BY <2>2, <2>3
<1>9. ASSUME UNCHANGED <<writing, closer, reader>> PROVE Closing(c)'
  BY <1>9 DEF Closing, Idle
<1>10. ASSUME NEW d \in Client, (\E t \in Topic : Unregister(d, t)) \/ PeerReads(d) \/ PeerLeaves(d)
       PROVE  Closing(c)'
  BY <1>9, <1>10 DEF Unregister, PeerReads, PeerLeaves
<1>11. CASE RouteMessage \/ RouteBroadcast \/ UNCHANGED systemVars
  BY <1>9, <1>11 DEF RouteMessage, RouteBroadcast, systemVars
<1> QED
  BY <1>1, <1>2, <1>3, <1>5, <1>6, <1>7, <1>8, <1>10, <1>11
  DEF BrokerNext, Bootstrap, HandleRead, Closer

LEMMA StrangerStep == Types /\ NoStranger /\ [BrokerNext]_systemVars => NoStranger'
<1> SUFFICES ASSUME Types, NoStranger, [BrokerNext]_systemVars, NEW c \in Client
             PROVE  Acquainted(c)'
  BY ClosingStep DEF NoStranger
<1> USE DEF brokerVars, clientVars, connVars
<1>0. Acquainted(c)
  BY DEF NoStranger
<1>1. ASSUME NEW w \in Writer, Write(w) PROVE Acquainted(c)'
  <2>1. /\ UNCHANGED <<topics, fanout, reader, closer>>
        /\ conn'[c] = conn[c] \/ (conn[c] = "eof" /\ conn'[c] = "reset")
    <3>1. PICK d \in Client : d = writing[w].to
      BY <1>1, WriteEffect
    <3>2. \/ conn' = conn
          \/ conn[d] = "eof" /\ conn' = [conn EXCEPT ![d] = "reset"]
      BY <1>1, <3>1 DEF Write
    <3>3. conn'[c] = conn[c] \/ (conn[c] = "eof" /\ conn'[c] = "reset")
      <4>1. CASE conn' = conn
        BY <4>1
      <4>2. CASE conn[d] = "eof" /\ conn' = [conn EXCEPT ![d] = "reset"]
        BY <4>2 DEF Types
      <4> QED
        BY <3>2, <4>1, <4>2
    <3>4. UNCHANGED <<topics, fanout, reader, closer>>
      BY <1>1 DEF Write
    <3> QED
      BY <3>3, <3>4
  <2>2. conn[c] # "open" => stream'[c] = stream[c]
    BY <1>1 DEF Write, Types
  <2>3. ASSUME conn[c] = "none" PROVE \A v \in Writer : writing'[v] # Nobody => writing'[v].to # c
    <3>1. writing[w] \in Calls /\ writing[w].to # c
      BY <1>0, <1>1, <2>3, WriteEffect, CallIsOne DEF Acquainted
    <3>2. writing'[w] # Nobody => writing'[w].to = writing[w].to
      <4>1. writing[w].piece \in {"size", "body"}
        BY <3>1 DEF Calls
      <4>2. CASE writing[w].piece = "size"
        <5>1. writing'[w] = [to |-> writing[w].to, frame |-> writing[w].frame, piece |-> "body"]
          BY <1>1, <4>2, WriteEffect
        <5> QED
          BY <5>1
      <4>3. CASE writing[w].piece = "body"
        BY <1>1, <4>3, WriteEffect
      <4> QED
        BY <4>1, <4>2, <4>3
    <3>3. \A v \in Writer : v # w => writing'[v] = writing[v]
      BY <1>1, WriteEffect
    <3> QED
      BY <1>0, <2>3, <3>1, <3>2, <3>3 DEF Acquainted
  <2> QED
    BY <1>0, <2>1, <2>2, <2>3 DEF Acquainted
<1>2. ASSUME NEW w \in Writer, WriteFails(w) PROVE Acquainted(c)'
  <2>1. \A v \in Writer : writing'[v] # Nobody => writing'[v] = writing[v]
    BY <1>2 DEF WriteFails, Types
  <2> QED
    BY <1>0, <1>2, <2>1 DEF WriteFails, Acquainted
<1>3. CASE RouteMessage
  <2>1. PICK t, msg : t \in Topic /\ fanout' = topics[t] \X {msg}
    <3>1. Head(broadcast) \in Topic \X Client \X Nat
      BY <1>3 DEF RouteMessage, Types
    <3>2. Head(broadcast)[1] \in Topic
      BY <3>1
    <3> QED
      BY <1>3, <3>2 DEF RouteMessage, Subscribers
  <2> QED
    BY <1>0, <1>3, <2>1 DEF RouteMessage, Acquainted
<1>4. CASE RouteBroadcast
  <2>1. \A f \in fanout' : \E t \in Topic : f \in topics[t] \X {Price(t)}
    BY <1>4 DEF RouteBroadcast
  <2>2. \A f \in fanout' : \E t \in Topic : f[1] \in topics[t]
    BY <2>1
  <2> QED
    BY <1>0, <1>4, <2>2 DEF RouteBroadcast, Acquainted
<1>5. CASE FanoutNext
  <2>1. PICK f \in fanout : fanout' = fanout \ {f} /\ Call(BrokerW, f[1], f[2])
    BY <1>5 DEF FanoutNext
  <2>2. f[1] \in Client /\ f[2] \in Frame
    BY <2>1 DEF Types
  <2>3. conn[c] = "none" => \A v \in Writer : writing'[v] # Nobody => writing'[v].to # c
    BY <1>0, <2>1, <2>2, CallOther, Writers DEF Acquainted
  <2> QED
    BY <1>0, <1>5, <2>1, <2>3 DEF FanoutNext, Acquainted
<1>6. ASSUME NEW d \in Client, HandleConn(d) PROVE Acquainted(c)'
  BY <1>0, <1>6 DEF HandleConn, Acquainted, Types
<1>7. ASSUME NEW d \in Client, Register(d) PROVE Acquainted(c)'
  <2>1. reader[d] # <<"none">>
    BY <1>7 DEF Register
  <2>2. conn[c] = "none" => c # d
    BY <1>0, <2>1 DEF Acquainted
  <2>3. \A t \in Topic : topics'[t] \subseteq topics[t] \cup {d}
    BY <1>7 DEF Register, Types
  <2>4. c # d => reader'[c] = reader[c]
    BY <1>7 DEF Register, Types
  <2> QED
    BY <1>0, <1>7, <2>2, <2>3, <2>4 DEF Register, Acquainted
<1>8. ASSUME NEW d \in Client, NEW t \in Topic, Unregister(d, t) PROVE Acquainted(c)'
  <2>1. \A u \in Topic : topics'[u] \subseteq topics[u]
    BY <1>8 DEF Unregister, Types
  <2> QED
    BY <1>0, <1>8, <2>1 DEF Unregister, Acquainted
<1>9. ASSUME NEW d \in Client, ReadCommand(d) PROVE Acquainted(c)'
  <2>1. conn[c] = "none" => c # d
    BY <1>9 DEF ReadCommand
  <2>2. c # d => reader'[c] = reader[c]
    BY <1>9 DEF ReadCommand, Types
  <2>3. Call(<<"reader", d>>, d, ErrorFrame) \/ UNCHANGED writing
    BY <1>9 DEF ReadCommand
  <2>4. conn[c] = "none" => \A v \in Writer : writing'[v] # Nobody => writing'[v].to # c
    <3>1. ErrorFrame \in Frame
      BY DEF Frame
    <3>2. CASE Call(<<"reader", d>>, d, ErrorFrame)
      BY <1>0, <2>1, <3>1, <3>2, CallOther, Writers DEF Acquainted
    <3>3. CASE UNCHANGED writing
      BY <1>0, <3>3 DEF Acquainted
    <3> QED
      BY <2>3, <3>2, <3>3
  <2> QED
    BY <1>0, <1>9, <2>1, <2>2, <2>4 DEF ReadCommand, Acquainted
<1>10. ASSUME NEW d \in Client, ReadEof(d) PROVE Acquainted(c)'
  <2>1. conn[c] = "none" => c # d
    BY <1>10 DEF ReadEof
  <2>2. conn[c] = "none" => \A v \in Writer : writing'[v] # Nobody => writing'[v].to # c
    BY <1>0, <1>10, <2>1, CallOther, Writers DEF ReadEof, Frame, Acquainted
  <2> QED
    BY <1>0, <1>10, <2>2 DEF ReadEof, Acquainted
<1>11. ASSUME NEW d \in Client, ReadError(d) PROVE Acquainted(c)'
  BY <1>0, <1>11 DEF ReadError, Acquainted, Types
<1>12. ASSUME NEW d \in Client, Publish(d) PROVE Acquainted(c)'
  <2>1. reader[d] # <<"none">>
    BY <1>12 DEF Publish
  <2>2. conn[c] = "none" => c # d
    BY <1>0, <2>1 DEF Acquainted
  <2>3. c # d => reader'[c] = reader[c]
    BY <1>12 DEF Publish, Types
  <2> QED
    BY <1>0, <1>12, <2>2, <2>3 DEF Publish, Acquainted
<1>13. ASSUME NEW d \in Client, CloserWrites(d) PROVE Acquainted(c)'
  <2>1. closer[d] = "failed" /\ Call(<<"closer", d>>, d, ErrorFrame)
    BY <1>13 DEF CloserWrites
  <2>2. conn[c] = "none" => c # d
    BY <1>0, <2>1 DEF Acquainted
  <2>3. conn[c] = "none" => \A v \in Writer : writing'[v] # Nobody => writing'[v].to # c
    BY <1>0, <2>1, <2>2, CallOther, Writers DEF Frame, Acquainted
  <2>4. closer'[c] = IF c = d THEN "close" ELSE closer[c]
    BY <1>13 DEF CloserWrites, Types
  <2> QED
    BY <1>0, <1>13, <2>1, <2>2, <2>3, <2>4 DEF CloserWrites, Acquainted
<1>14. ASSUME NEW d \in Client, CloseClient(d) PROVE Acquainted(c)'
  BY <1>0, <1>14 DEF CloseClient, Acquainted, Types
<1>15. ASSUME NEW d \in Client, PeerReads(d) PROVE Acquainted(c)'
  BY <1>0, <1>15 DEF PeerReads, Acquainted
<1>16. ASSUME NEW d \in Client, PeerLeaves(d) PROVE Acquainted(c)'
  <2>1. CASE c = d
    <3>1. conn[c] = "open" /\ conn'[c] \in {"eof", "reset"} /\ stream'[c] = <<>> /\ closer' = closer
      BY <1>16, <2>1 DEF PeerLeaves, Types
    <3> QED
      BY <3>1 DEF Acquainted
  <2>2. CASE c # d
    BY <1>0, <1>16, <2>2 DEF PeerLeaves, Acquainted, Types
  <2> QED
    BY <2>1, <2>2
<1>17. CASE UNCHANGED systemVars
  BY <1>0, <1>17 DEF systemVars, Acquainted
<1> QED
  BY <1>1, <1>2, <1>3, <1>4, <1>5, <1>6, <1>7, <1>8, <1>9, <1>10, <1>11, <1>12, <1>13,
     <1>14, <1>15, <1>16, <1>17
  DEF BrokerNext, Bootstrap, WriteFrame, HandleRead, Closer

-----------------------------------------------------------------------------
(* The frames.                                                             *)

\* Goroutine w has written the size of a frame to c and not its body.
Between(w, c) == ~Idle(w) /\ writing[w].to = c /\ writing[w].piece = "body"

\* Sizes and bodies take turns, each body behind its own size.
Paired(s) ==
    \A i \in DOMAIN s :
        /\ (s[i][1] = "size") = (i % 2 = 1)
        /\ i % 2 = 0 => s[i][2] = s[i - 1][2]

Even(s) == Len(s) % 2 = 0

\* The lock: one goroutine at the most is between its two writes, what was
\* written last is the size of its frame, and when there is none all is whole.
Whole(c) ==
    /\ Paired(stream[c])
    /\ \A v, w \in Writer : Between(v, c) /\ Between(w, c) => v = w
    /\ \A w \in Writer : Between(w, c) /\ conn[c] = "open" =>
          /\ Len(stream[c]) % 2 = 1
          /\ stream[c][Len(stream[c])][2] = writing[w].frame
    /\ (\A w \in Writer : ~Between(w, c)) => Even(stream[c])

AllWhole == \A c \in Client : Whole(c)

\* An even stream takes a size.
LEMMA PairedSize ==
  ASSUME NEW S, NEW s \in Seq(S), Paired(s), Even(s),
         NEW f, <<"size", f>> \in S, NEW t, t = Append(s, <<"size", f>>)
  PROVE  Paired(t) /\ Len(t) % 2 = 1
<1>1. PICK n \in Nat : n = Len(s) /\ n % 2 = 0 /\ DOMAIN s = 1..n
  BY DEF Even
<1>2. /\ DOMAIN t = 1..(n + 1) /\ Len(t) = n + 1
      /\ t[n + 1] = <<"size", f>> /\ \A i \in 1..n : t[i] = s[i]
  BY <1>1
<1>3. (n + 1) % 2 = 1
  BY <1>1
<1>4. ASSUME NEW i \in DOMAIN t
      PROVE  (t[i][1] = "size") = (i % 2 = 1) /\ (i % 2 = 0 => t[i][2] = t[i - 1][2])
  <2>1. CASE i = n + 1
    <3>1. t[i][1] = "size" /\ i % 2 = 1
      BY <1>2, <1>3, <2>1
    <3> QED
      BY <3>1
  <2>2. CASE i # n + 1
    <3>1. i \in 1..n /\ t[i] = s[i]
      BY <1>2, <2>2
    <3>2. (s[i][1] = "size") = (i % 2 = 1) /\ (i % 2 = 0 => s[i][2] = s[i - 1][2])
      BY <1>1, <3>1 DEF Paired
    <3>3. i % 2 = 0 => t[i - 1] = s[i - 1]
      <4>1. i % 2 = 0 => i # 1
        OBVIOUS
      <4>2. i # 1 => i - 1 \in 1..n
        BY <3>1
      <4> QED
        BY <1>2, <4>1, <4>2
    <3> QED
      BY <3>1, <3>2, <3>3
  <2> QED
    BY <2>1, <2>2
<1>5. Paired(t)
  BY <1>4 DEF Paired
<1> QED
  BY <1>2, <1>3, <1>5

\* An odd one takes the body of its last size.
LEMMA PairedBody ==
  ASSUME NEW S, NEW s \in Seq(S), Paired(s), Len(s) % 2 = 1,
         NEW f, <<"body", f>> \in S, s[Len(s)][2] = f, NEW t, t = Append(s, <<"body", f>>)
  PROVE  Paired(t) /\ Len(t) % 2 = 0
<1>1. PICK n \in Nat : n = Len(s) /\ n % 2 = 1 /\ DOMAIN s = 1..n
  OBVIOUS
<1>2. /\ DOMAIN t = 1..(n + 1) /\ Len(t) = n + 1
      /\ t[n + 1] = <<"body", f>> /\ \A i \in 1..n : t[i] = s[i]
  BY <1>1
<1>3. (n + 1) % 2 = 0 /\ n \in 1..n
  BY <1>1
<1>4. t[n][2] = f
  BY <1>1, <1>2, <1>3
<1>5. ASSUME NEW i \in DOMAIN t
      PROVE  (t[i][1] = "size") = (i % 2 = 1) /\ (i % 2 = 0 => t[i][2] = t[i - 1][2])
  <2>1. CASE i = n + 1
    <3>1. t[i][1] # "size" /\ i % 2 # 1
      BY <1>2, <1>3, <2>1
    <3>2. t[i][2] = f /\ i - 1 = n
      BY <1>2, <2>1
    <3> QED
      BY <1>4, <3>1, <3>2
  <2>2. CASE i # n + 1
    <3>1. i \in 1..n /\ t[i] = s[i]
      BY <1>2, <2>2
    <3>2. (s[i][1] = "size") = (i % 2 = 1) /\ (i % 2 = 0 => s[i][2] = s[i - 1][2])
      BY <1>1, <3>1 DEF Paired
    <3>3. i % 2 = 0 => t[i - 1] = s[i - 1]
      <4>1. i % 2 = 0 => i # 1
        OBVIOUS
      <4>2. i # 1 => i - 1 \in 1..n
        BY <3>1
      <4> QED
        BY <1>2, <4>1, <4>2
    <3> QED
      BY <3>1, <3>2, <3>3
  <2> QED
    BY <2>1, <2>2
<1>6. Paired(t)
  BY <1>5 DEF Paired
<1> QED
  BY <1>2, <1>3, <1>6

\* A call that begins is at its first write.
LEMMA CallBetween ==
  ASSUME Types, NEW c \in Client, NEW w \in Writer, NEW d \in Client, NEW frame \in Frame,
         Idle(w), Call(w, d, frame)
  PROVE  /\ \A v \in Writer : Between(v, c)' <=> Between(v, c)
         /\ \A v \in Writer : Between(v, c) => writing'[v] = writing[v]
<1>1. writing'[w].piece = "size" /\ \A v \in Writer : v # w => writing'[v] = writing[v]
  BY CallType
<1>2. ~Between(w, c) /\ ~Between(w, c)'
  BY <1>1 DEF Between
<1> QED
  BY <1>1, <1>2 DEF Between, Idle

\* What leaves c's connection and the goroutines between two writes alone.
LEMMA WholeSame ==
  ASSUME NEW c \in Client, Whole(c),
         stream'[c] = stream[c], conn'[c] = "open" => conn[c] = "open",
         \A v \in Writer : Between(v, c)' <=> Between(v, c),
         \A v \in Writer : Between(v, c) => writing'[v] = writing[v]
  PROVE  Whole(c)'
  BY DEF Whole

LEMMA WholeWrite ==
  ASSUME Types, NoStranger, NEW c \in Client, Whole(c), NEW w \in Writer, Write(w)
  PROVE  Whole(c)'
<1>1. PICK d \in Client, f \in Frame : d = writing[w].to /\ f = writing[w].frame
  BY WriteEffect
<1>2. /\ writing[w] \in Calls /\ writing[w] # Nobody
      /\ \A v \in Writer : v # w => writing'[v] = writing[v]
      /\ writing[w].piece = "size" => writing'[w] = [to |-> d, frame |-> f, piece |-> "body"]
      /\ writing[w].piece = "body" => writing'[w] = Nobody
  BY <1>1, WriteEffect, CallIsOne
<1>3. writing[w].piece \in {"size", "body"}
  BY <1>2 DEF Calls
<1>4. \A v \in Writer : v # w => (Between(v, c)' <=> Between(v, c))
  BY <1>2 DEF Between, Idle
<1>5. CASE c # d
  <2>1. ~Between(w, c)
    BY <1>1, <1>5 DEF Between
  <2>2. ~Between(w, c)'
    BY <1>2, <1>3, <1>5 DEF Between, Idle
  <2>3. stream'[c] = stream[c] /\ conn'[c] = conn[c]
    BY <1>1, <1>5 DEF Write, Types
  <2> QED
    BY <1>2, <1>4, <2>1, <2>2, <2>3, WholeSame
<1>6. CASE c = d
  <2>1. \/ conn[c] = "open" /\ conn'[c] = "open"
           /\ stream'[c] = Append(stream[c], <<writing[w].piece, f>>)
        \/ conn[c] # "open" /\ conn'[c] # "open" /\ stream'[c] = <<>>
    <3>1. CASE conn[c] = "open"
      BY <1>1, <1>6, <3>1 DEF Write, Types
    <3>2. CASE conn[c] # "open"
      <4>1. stream[c] = <<>>
        BY <3>2 DEF NoStranger, Acquainted
      <4>2. stream' = stream /\ conn[c] = "eof" /\ conn' \in {conn, [conn EXCEPT ![c] = "reset"]}
        BY <1>1, <1>6, <3>2 DEF Write
      <4>3. conn'[c] # "open"
        BY <3>2, <4>2 DEF Types
      <4> QED
        BY <3>2, <4>1, <4>2, <4>3
    <3> QED
      BY <3>1, <3>2
  <2>2. stream[c] \in Seq({"size", "body"} \X Frame) /\ <<writing[w].piece, f>> \in {"size", "body"} \X Frame
    BY <1>3 DEF Types
  <2>3. Paired(<<>>) /\ Len(<<>>) % 2 = 0
    BY DEF Paired
  <2>4. CASE writing[w].piece = "size"
    <3>1. \A v \in Writer : ~Between(v, c)
      <4>1. Free(c)
        BY <1>1, <1>6, <2>4 DEF Write, HasLock
      <4>2. ASSUME NEW v \in Writer PROVE ~Between(v, c)
        BY <4>1 DEF Free, Between
      <4> QED
        BY <4>2
    <3>2. Between(w, c)'
      <4>1. writing'[w] = [to |-> d, frame |-> f, piece |-> "body"]
        BY <1>2, <2>4
      <4>2. writing'[w] \in Calls
        BY <4>1 DEF Calls
      <4>3. writing'[w] # Nobody
        BY <4>2, CallIsOne
      <4> QED
        BY <1>6, <4>1, <4>3 DEF Between, Idle
    <3>3. \A v \in Writer : Between(v, c)' => v = w
      BY <1>4, <3>1
    <3>4. writing'[w].frame = f
      BY <1>2, <2>4
    <3>5. CASE conn[c] = "open"
      <4>1. Paired(stream[c]) /\ Even(stream[c])
        BY <3>1 DEF Whole
      <4>2. stream'[c] = Append(stream[c], <<"size", f>>) /\ <<"size", f>> \in {"size", "body"} \X Frame
        BY <2>1, <2>2, <2>4, <3>5
      <4>4. /\ Paired(stream[c])'
            /\ Len(stream'[c]) % 2 = 1
            /\ stream'[c][Len(stream'[c])][2] = f
        <5> DEFINE S == {"size", "body"} \X Frame
        <5>1. PICK s \in Seq(S) : s = stream[c]
          BY <2>2
        <5> HIDE DEF S
        <5>2. PICK t : t = stream'[c]
          OBVIOUS
        <5>3. <<"size", f>> \in S /\ t = Append(s, <<"size", f>>) /\ s \in Seq(S)
          BY <4>2, <5>1, <5>2 DEF S
        <5>4. Paired(s) /\ Even(s)
          BY <4>1, <5>1
        <5>5. Paired(t) /\ Len(t) % 2 = 1
          BY ONLY <5>3, <5>4, PairedSize
        <5>6. t[Len(t)] = <<"size", f>>
          BY ONLY <5>3
        <5>7. t[Len(t)][2] = f
          BY ONLY <5>6
        <5> QED
          BY <5>2, <5>5, <5>7 DEF Paired
      <4> QED
        BY <3>2, <3>3, <3>4, <4>4 DEF Whole
    <3>6. CASE conn[c] # "open"
      <4>1. Paired(stream[c])'
        BY <2>1, <2>3, <3>6 DEF Paired
      <4> QED
        BY <2>1, <3>2, <3>3, <3>6, <4>1 DEF Whole
    <3> QED
      BY <3>5, <3>6
  <2>5. CASE writing[w].piece = "body"
    <3>1. Between(w, c)
      BY <1>1, <1>2, <1>6, <2>5 DEF Between, Idle
    <3>2. \A v \in Writer : Between(v, c) => v = w
      BY <3>1 DEF Whole
    <3>3. \A v \in Writer : ~Between(v, c)'
      <4>1. ~Between(w, c)'
        BY <1>2, <2>5 DEF Between, Idle
      <4> QED
        BY <1>4, <3>2, <4>1
    <3>4. Paired(stream[c])' /\ Len(stream'[c]) % 2 = 0
      <4>1. CASE conn[c] = "open"
        <5>1. Paired(stream[c]) /\ Len(stream[c]) % 2 = 1 /\ stream[c][Len(stream[c])][2] = f
          BY <1>1, <3>1, <4>1 DEF Whole
        <5>2. stream'[c] = Append(stream[c], <<"body", f>>) /\ <<"body", f>> \in {"size", "body"} \X Frame
          BY <2>1, <2>2, <2>5, <4>1
        <5>3. PICK t : t = stream'[c]
          OBVIOUS
        <5>4. Paired(t) /\ Len(t) % 2 = 0
          <6> DEFINE S == {"size", "body"} \X Frame
          <6>1. stream[c] \in Seq(S) /\ <<"body", f>> \in S /\ t = Append(stream[c], <<"body", f>>)
            BY <2>2, <5>2, <5>3
          <6> HIDE DEF S
          <6> QED
            BY ONLY <5>1, <6>1, PairedBody
        <5> QED
          BY <5>3, <5>4 DEF Paired
      <4>2. CASE conn[c] # "open"
        BY <2>1, <2>3, <4>2 DEF Paired
      <4> QED
        BY <4>1, <4>2
    <3> QED
      BY <3>3, <3>4 DEF Whole, Even
  <2> QED
    BY <1>3, <2>4, <2>5
<1> QED
  BY <1>5, <1>6

\* A connection that carries nothing and on which nobody can write.
LEMMA WholeEmpty ==
  ASSUME NEW c \in Client, Whole(c), stream'[c] = <<>>, conn'[c] # "open",
         \A v \in Writer : Between(v, c)' => Between(v, c)
  PROVE  Whole(c)'
<1>1. Paired(stream[c])' /\ Len(stream'[c]) % 2 = 0
  BY DEF Paired
<1> QED
  BY <1>1 DEF Whole, Even

LEMMA WholeStep == Types /\ NoStranger /\ AllWhole /\ [BrokerNext]_systemVars => AllWhole'
<1> SUFFICES ASSUME Types, NoStranger, AllWhole, [BrokerNext]_systemVars, NEW c \in Client
             PROVE  Whole(c)'
  BY DEF AllWhole
<1> USE DEF brokerVars, clientVars, connVars
<1>0. Whole(c) /\ Acquainted(c)
  BY DEF AllWhole, NoStranger
<1>1. ASSUME NEW w \in Writer, Write(w) PROVE Whole(c)'
  BY <1>0, <1>1, WholeWrite
<1>2. ASSUME NEW w \in Writer, WriteFails(w) PROVE Whole(c)'
  <2>1. \A v \in Writer : writing'[v] = IF v = w THEN Nobody ELSE writing[v]
    BY <1>2 DEF WriteFails, Types
  <2>2. UNCHANGED <<stream, conn>> /\ conn[writing[w].to] \in {"reset", "closed"}
    BY <1>2 DEF WriteFails
  <2>3. \A v \in Writer : Between(v, c)' => Between(v, c)
    BY <2>1 DEF Between, Idle
  <2>4. CASE Between(w, c)
    <3>1. conn[c] # "open"
      BY <2>2, <2>4 DEF Between
    <3> QED
      BY <1>0, <2>2, <2>3, <3>1, WholeEmpty DEF Acquainted
  <2>5. CASE ~Between(w, c)
    <3>1. \A v \in Writer : Between(v, c)' <=> Between(v, c)
      BY <2>1, <2>3, <2>5 DEF Between, Idle
    <3>2. \A v \in Writer : Between(v, c) => writing'[v] = writing[v]
      BY <2>1, <2>5
    <3> QED
      BY <1>0, <2>2, <3>1, <3>2, WholeSame
  <2> QED
    BY <2>4, <2>5
<1>3. ASSUME NEW w \in Writer, NEW d \in Client, NEW f \in Frame, Idle(w), Call(w, d, f),
             UNCHANGED <<stream, conn>>
      PROVE  Whole(c)'
  <2>1. /\ \A v \in Writer : Between(v, c)' <=> Between(v, c)
        /\ \A v \in Writer : Between(v, c) => writing'[v] = writing[v]
    BY <1>3, CallBetween
  <2> QED
    BY <1>0, <1>3, <2>1, WholeSame
<1>4. CASE UNCHANGED <<stream, conn, writing>>
  <2>1. \A v \in Writer : Between(v, c)' <=> Between(v, c)
    BY <1>4 DEF Between, Idle
  <2> QED
    BY <1>0, <1>4, <2>1, WholeSame
<1>5. CASE FanoutNext
  <2>1. PICK f \in fanout : Call(BrokerW, f[1], f[2])
    BY <1>5 DEF FanoutNext
  <2>2. f[1] \in Client /\ f[2] \in Frame
    BY <2>1 DEF Types
  <2>3. Idle(BrokerW) /\ UNCHANGED <<stream, conn>>
    BY <1>5 DEF FanoutNext
  <2> QED
    BY <1>3, <2>1, <2>2, <2>3, Writers
<1>6. ASSUME NEW d \in Client, ReadCommand(d) \/ ReadEof(d) PROVE Whole(c)'
  <2>1. Idle(<<"reader", d>>) /\ UNCHANGED <<stream, conn>>
    BY <1>6 DEF ReadCommand, ReadEof, AtRead
  <2>2. Call(<<"reader", d>>, d, ErrorFrame) \/ UNCHANGED writing
    BY <1>6 DEF ReadCommand, ReadEof
  <2>3. ErrorFrame \in Frame
    BY DEF Frame
  <2> QED
    BY <1>3, <1>4, <2>1, <2>2, <2>3, Writers
<1>7. ASSUME NEW d \in Client, CloserWrites(d) PROVE Whole(c)'
  <2>1. closer[d] = "failed" /\ Call(<<"closer", d>>, d, ErrorFrame) /\ UNCHANGED <<stream, conn>>
    BY <1>7 DEF CloserWrites
  <2>2. Idle(<<"closer", d>>)
    BY <2>1 DEF NoStranger, Closing
  <2>3. ErrorFrame \in Frame
    BY DEF Frame
  <2> QED
    BY <1>3, <2>1, <2>2, <2>3, Writers
<1>8. ASSUME NEW d \in Client, HandleConn(d) PROVE Whole(c)'
  <2>1. writing' = writing /\ stream' = stream /\ conn[d] = "none" /\ conn' = [conn EXCEPT ![d] = "open"]
    BY <1>8 DEF HandleConn
  <2>2. \A v \in Writer : Between(v, c)' <=> Between(v, c)
    BY <2>1 DEF Between, Idle
  <2>3. CASE c = d
    <3>1. \A v \in Writer : ~Between(v, c)
      BY <1>0, <2>1, <2>3 DEF Acquainted, Between, Idle
    <3>2. Paired(stream[c])' /\ Len(stream'[c]) % 2 = 0
      BY <1>0, <2>1, <3>1 DEF Whole, Even, Paired
    <3> QED
      BY <2>2, <3>1, <3>2 DEF Whole, Even
  <2>4. CASE c # d
    <3>1. conn'[c] = conn[c]
      BY <2>1, <2>4 DEF Types
    <3> QED
      BY <1>0, <2>1, <2>2, <3>1, WholeSame
  <2> QED
    BY <2>3, <2>4
<1>9. ASSUME NEW d \in Client, CloseClient(d) PROVE Whole(c)'
  <2>1. writing' = writing /\ stream' = stream /\ conn' = [conn EXCEPT ![d] = "closed"]
    BY <1>9 DEF CloseClient
  <2>2. \A v \in Writer : Between(v, c)' <=> Between(v, c)
    BY <2>1 DEF Between, Idle
  <2>3. conn'[c] = "open" => conn[c] = "open"
    BY <2>1 DEF Types
  <2> QED
    BY <1>0, <2>1, <2>2, <2>3, WholeSame
<1>10. ASSUME NEW d \in Client, PeerLeaves(d) PROVE Whole(c)'
  <2>1. writing' = writing /\ stream' = [stream EXCEPT ![d] = <<>>]
    BY <1>10 DEF PeerLeaves
  <2>2. \A v \in Writer : Between(v, c)' <=> Between(v, c)
    BY <2>1 DEF Between, Idle
  <2>3. CASE c = d
    <3>1. conn'[c] # "open" /\ stream'[c] = <<>>
      BY <1>10, <2>1, <2>3 DEF PeerLeaves, Types
    <3> QED
      BY <1>0, <2>2, <3>1, WholeEmpty
  <2>4. CASE c # d
    <3>1. conn'[c] = conn[c] /\ stream'[c] = stream[c]
      BY <1>10, <2>1, <2>4 DEF PeerLeaves, Types
    <3> QED
      BY <1>0, <2>1, <2>2, <3>1, WholeSame
  <2> QED
    BY <2>3, <2>4
<1>11. ASSUME NEW d \in Client,
              Register(d) \/ (\E t \in Topic : Unregister(d, t)) \/ ReadError(d) \/ Publish(d) \/ PeerReads(d)
       PROVE  UNCHANGED <<stream, conn, writing>>
  BY <1>11 DEF Register, Unregister, ReadError, Publish, PeerReads
<1>12. RouteMessage \/ RouteBroadcast \/ UNCHANGED systemVars => UNCHANGED <<stream, conn, writing>>
  BY DEF RouteMessage, RouteBroadcast, systemVars
<1> QED
  BY <1>1, <1>2, <1>4, <1>5, <1>6, <1>7, <1>8, <1>9, <1>10, <1>11, <1>12
  DEF BrokerNext, Bootstrap, WriteFrame, HandleRead, Closer

-----------------------------------------------------------------------------
\* A peer can always tell where the frames begin: of the goroutines that write
\* to a connection, the broker, its reader and its closer, none writes between
\* a size and its body (client.go 41-54).
THEOREM FramesTheorem == BrokerSpec => []FramesWhole
<1>1. BrokerInit => NoStranger /\ AllWhole
  <2> SUFFICES ASSUME BrokerInit, NEW c \in Client PROVE Acquainted(c) /\ Closing(c) /\ Whole(c)
    BY DEF NoStranger, AllWhole
  <2>1. /\ conn[c] = "none" /\ stream[c] = <<>> /\ closer[c] = "none" /\ reader[c] = <<"none">>
        /\ fanout = {} /\ \A t \in Topic : topics[t] = {}
    BY DEF BrokerInit
  <2>2. \A w \in Writer : writing[w] = Nobody
    BY DEF BrokerInit
  <2>3. Acquainted(c) /\ Closing(c)
    BY <2>1, <2>2, Writers DEF Acquainted, Closing, Idle
  <2>4. Paired(stream[c]) /\ Len(stream[c]) % 2 = 0
    BY <2>1 DEF Paired
  <2> QED
    BY <2>2, <2>3, <2>4 DEF Whole, Even, Between, Idle
<1>2. Types /\ AllWhole => FramesWhole
  <2> SUFFICES ASSUME Types, AllWhole PROVE FramesWhole
    OBVIOUS
  <2>1. \A c \in Client : seen[c] \in 0..Len(stream[c])
    BY DEF Types
  <2>2. BrokerTypeOK
    BY <2>1 DEF Types, BrokerTypeOK
  <2> QED
    BY <2>2 DEF AllWhole, Whole, Paired, FramesWhole
<1> QED
  BY <1>1, <1>2, TypesInit, TypesStep, StrangerStep, WholeStep, PTL DEF BrokerSpec

-----------------------------------------------------------------------------
(* The log of a topic.                                                     *)

\* Where in s the bodies on topic t are, and that the k-th is the k-th of d.
IsBody(x, t) == x[1] = "body" /\ OnTopic(x[2], t)
Bodies(s, t) == {i \in DOMAIN s : IsBody(s[i], t)}
UpToThe(s, t, i) == {j \in Bodies(s, t) : j <= i}
InOrder(s, t, d) == \A i \in Bodies(s, t) : s[i][2] = d[Cardinality(UpToThe(s, t, i))]

LEMMA BodiesFinite ==
  ASSUME NEW S, NEW s \in Seq(S), NEW t
  PROVE  /\ IsFiniteSet(Bodies(s, t)) /\ Cardinality(Bodies(s, t)) \in Nat
         /\ \A i \in Bodies(s, t) :
               Cardinality(UpToThe(s, t, i)) \in 1..Cardinality(Bodies(s, t))
<1>1. DOMAIN s = 1..Len(s) /\ Len(s) \in Nat
  OBVIOUS
<1>2. IsFiniteSet(1..Len(s))
  BY <1>1, FS_Interval
<1>3. Bodies(s, t) \subseteq 1..Len(s)
  BY <1>1 DEF Bodies
<1>4. IsFiniteSet(Bodies(s, t)) /\ Cardinality(Bodies(s, t)) \in Nat
  BY <1>2, <1>3, FS_Subset, FS_CardinalityType
<1>5. ASSUME NEW i \in Bodies(s, t)
      PROVE  Cardinality(UpToThe(s, t, i)) \in 1..Cardinality(Bodies(s, t))
  <2>1. UpToThe(s, t, i) \subseteq Bodies(s, t) /\ i \in UpToThe(s, t, i)
    <3>1. i \in Nat
      BY <1>1, <1>3
    <3> QED
      BY <3>1 DEF UpToThe
  <2>2. /\ IsFiniteSet(UpToThe(s, t, i))
        /\ Cardinality(UpToThe(s, t, i)) <= Cardinality(Bodies(s, t))
    BY <1>4, <2>1, FS_Subset
  <2>3. Cardinality(UpToThe(s, t, i)) \in Nat /\ Cardinality(UpToThe(s, t, i)) # 0
    BY <2>1, <2>2, FS_CardinalityType, FS_EmptySet
  <2>4. PICK a \in Nat, b \in Nat : a = Cardinality(UpToThe(s, t, i)) /\ b = Cardinality(Bodies(s, t))
    BY <1>4, <2>3
  <2>5. a # 0 /\ a <= b
    BY <2>2, <2>3, <2>4
  <2>6. a \in 1..b
    BY <2>5
  <2> QED
    BY <2>4, <2>6
<1> QED
  BY <1>4, <1>5

\* A piece that is no body on t changes nothing.
LEMMA OtherPiece ==
  ASSUME NEW S, NEW s \in Seq(S), NEW x \in S, NEW t,
         ~ IsBody(x, t), NEW r, r = Append(s, x), NEW d
  PROVE  Bodies(r, t) = Bodies(s, t) /\ (InOrder(s, t, d) => InOrder(r, t, d))
<1>1. PICK n \in Nat : n = Len(s) /\ DOMAIN s = 1..n
  OBVIOUS
<1>2. DOMAIN r = 1..(n + 1) /\ r[n + 1] = x /\ \A i \in 1..n : r[i] = s[i]
  BY <1>1
<1>3. Bodies(r, t) = Bodies(s, t)
  <2>1. \A i : i \in 1..(n + 1) <=> i \in 1..n \/ i = n + 1
    OBVIOUS
  <2> QED
    BY <1>1, <1>2, <2>1 DEF Bodies
<1>4. \A i : UpToThe(r, t, i) = UpToThe(s, t, i)
  BY <1>3 DEF UpToThe
<1>5. \A i \in Bodies(s, t) : r[i] = s[i]
  BY <1>1, <1>2 DEF Bodies
<1> QED
  BY <1>3, <1>4, <1>5 DEF InOrder

\* A body on t is one more, the last.
LEMMA OneMore ==
  ASSUME NEW S, NEW s \in Seq(S), NEW x \in S, NEW t, IsBody(x, t)
  PROVE  /\ Bodies(Append(s, x), t) = Bodies(s, t) \cup {Len(s) + 1}
         /\ Len(s) + 1 \notin Bodies(s, t)
<1>1. PICK n \in Nat : n = Len(s) /\ DOMAIN s = 1..n
  OBVIOUS
<1> DEFINE r == Append(s, x)
<1>2. DOMAIN r = 1..(n + 1) /\ r[n + 1] = x /\ \A i \in 1..n : r[i] = s[i]
  BY <1>1
<1> HIDE DEF r
<1>3. \A i : i \in 1..(n + 1) <=> i \in 1..n \/ i = n + 1
  OBVIOUS
<1>4. n + 1 \notin 1..n
  OBVIOUS
<1>5. Bodies(r, t) = Bodies(s, t) \cup {n + 1} /\ n + 1 \notin Bodies(s, t)
  BY <1>1, <1>2, <1>3, <1>4 DEF Bodies
<1> QED
  BY <1>1, <1>5 DEF r

LEMMA NextBody ==
  ASSUME NEW S, NEW s \in Seq(S), NEW x \in S, NEW t, IsBody(x, t), NEW r, r = Append(s, x),
         NEW d, InOrder(s, t, d), d[Cardinality(Bodies(r, t))] = x[2]
  PROVE  InOrder(r, t, d)
<1>1. PICK n \in Nat : n = Len(s) /\ DOMAIN s = 1..n
  OBVIOUS
<1>0. Bodies(r, t) = Bodies(s, t) \cup {n + 1}
  BY <1>1, OneMore
<1>2. r[n + 1] = x /\ \A i \in 1..n : r[i] = s[i]
  BY <1>1
<1>3. \A i \in Bodies(s, t) : i \in 1..n /\ r[i] = s[i]
  BY <1>1, <1>2 DEF Bodies
<1>4. ASSUME NEW i \in Bodies(r, t) PROVE r[i][2] = d[Cardinality(UpToThe(r, t, i))]
  <2>1. CASE i = n + 1
    <3>1. UpToThe(r, t, i) = Bodies(r, t)
      <4>1. \A j \in Bodies(r, t) : j <= n + 1
        BY <1>0, <1>3
      <4> QED
        BY <2>1, <4>1 DEF UpToThe
    <3> QED
      BY <1>2, <2>1, <3>1
  <2>2. CASE i # n + 1
    <3>1. i \in Bodies(s, t) /\ i \in 1..n /\ r[i] = s[i]
      BY <1>0, <1>3, <2>2
    <3>2. UpToThe(r, t, i) = UpToThe(s, t, i)
      <4>1. ~ (n + 1 <= i)
        BY <3>1
      <4> QED
        BY <1>0, <4>1 DEF UpToThe
    <3> QED
      BY <3>1, <3>2 DEF InOrder
  <2> QED
    BY <2>1, <2>2
<1> QED
  BY <1>4 DEF InOrder

\* What is due next does not change what came before.
LEMMA MoreDue ==
  ASSUME NEW S, NEW s \in Seq(S), NEW t, NEW D, NEW d \in Seq(D), NEW f \in D,
         InOrder(s, t, d), Cardinality(Bodies(s, t)) = Len(d)
  PROVE  InOrder(s, t, Append(d, f))
<1>1. \A k \in 1..Len(d) : Append(d, f)[k] = d[k]
  OBVIOUS
<1>2. \A i \in Bodies(s, t) : Cardinality(UpToThe(s, t, i)) \in 1..Len(d)
  BY BodiesFinite
<1> QED
  BY <1>1, <1>2 DEF InOrder

\* The frames to c on topic t that the broker has before it, and the one it is
\* in the middle of.
Pending(c, t) == {f \in fanout : f[1] = c /\ OnTopic(f[2], t)}
Busy(c, t) == ~Idle(BrokerW) /\ writing[BrokerW].to = c /\ OnTopic(writing[BrokerW].frame, t)

\* All that was due has been written, or all but the last frame, which the
\* broker is writing or still has before it.
LogKept(c, t) ==
    LET n == Cardinality(Bodies(stream[c], t))
        d == due[c][t]
    IN  /\ InOrder(stream[c], t, d)
        /\ \/ n = Len(d) /\ Pending(c, t) = {} /\ ~Busy(c, t)
           \/ n + 1 = Len(d) /\ Pending(c, t) = {} /\ Busy(c, t) /\ writing[BrokerW].frame = d[n + 1]
           \/ n + 1 = Len(d) /\ ~Busy(c, t) /\ \E f \in fanout : Pending(c, t) = {f} /\ f[2] = d[n + 1]

LogInv ==
    /\ due \in [Client -> [Topic -> Seq(Frame)]]
    /\ \A w \in Writer : w # BrokerW /\ ~Idle(w) => writing[w].frame = ErrorFrame
    /\ \A c \in Client, t \in Topic :
          /\ conn[c] = "none" => due[c][t] = <<>>
          /\ conn[c] = "open" => LogKept(c, t)

LEMMA RoutedOnTopic ==
  ASSUME NEW a, NEW b, NEW n, NEW t
  PROVE  OnTopic(<<a, b, n>>, t) <=> a = t
<1>1. <<a, b, n>> # ErrorFrame
  <2>1. 2 \in DOMAIN <<a, b, n>> /\ 2 \notin DOMAIN ErrorFrame
    BY DEF ErrorFrame
  <2> QED
    BY <2>1
<1>2. <<a, b, n>>[1] = a
  OBVIOUS
<1> QED
  BY <1>1, <1>2 DEF OnTopic

\* What routing makes due is what the broker then has before it.
LEMMA Routed ==
  ASSUME Types, LogInv, RouteMessage \/ RouteBroadcast, NEW c \in Client, NEW t \in Topic
  PROVE  /\ due' \in [Client -> [Topic -> Seq(Frame)]]
         /\ \/ due'[c][t] = due[c][t] /\ Pending(c, t)' = {}
            \/ \E f \in Frame : \E g \in fanout' :
                  /\ c \in topics[t] /\ due'[c][t] = Append(due[c][t], f)
                  /\ Pending(c, t)' = {g} /\ g[2] = f
<1>0. due \in [Client -> [Topic -> Seq(Frame)]]
  BY DEF LogInv
<1>1. ASSUME NEW frame, DOMAIN frame \subseteq Topic, \A u \in DOMAIN frame : frame[u] \in Frame,
             due' = DueTo(frame)
      PROVE  /\ due' \in [Client -> [Topic -> Seq(Frame)]]
             /\ due'[c][t] = IF t \in DOMAIN frame /\ c \in topics[t] THEN Append(due[c][t], frame[t])
                                                                     ELSE due[c][t]
  <2>1. \A e \in Client, u \in Topic :
          due'[e][u] = IF u \in DOMAIN frame /\ e \in topics[u] THEN Append(due[e][u], frame[u])
                                                               ELSE due[e][u]
    BY <1>1 DEF DueTo
  <2>2. \A e \in Client, u \in Topic : due[e][u] \in Seq(Frame)
    BY <1>0
  <2>3. ASSUME NEW e \in Client, NEW u \in Topic PROVE due'[e][u] \in Seq(Frame)
    <3>1. CASE u \in DOMAIN frame /\ e \in topics[u]
      <4>1. due[e][u] \in Seq(Frame) /\ frame[u] \in Frame /\ due'[e][u] = Append(due[e][u], frame[u])
        BY <1>1, <2>1, <2>2, <3>1
      <4> HIDE DEF Frame
      <4> QED
        BY <4>1
    <3>2. CASE ~ (u \in DOMAIN frame /\ e \in topics[u])
      BY <2>1, <2>2, <3>2
    <3> QED
      BY <3>1, <3>2
  <2>4. due' = [e \in Client |-> [u \in Topic |-> due'[e][u]]]
    BY <1>1 DEF DueTo
  <2> QED
    BY <2>1, <2>3, <2>4
<1>2. CASE RouteMessage
  <2>1. Head(broadcast) \in Topic \X Client \X Nat
    BY <1>2 DEF RouteMessage, Types
  <2>2. PICK u \in Topic, b \in Client, n \in Nat : Head(broadcast) = <<u, b, n>>
    BY <2>1
  <2> DEFINE msg == <<u, b, n>>
  <2>3. msg \in Frame /\ msg[1] = u
    BY DEF Frame
  <2>4. fanout' = topics[u] \X {msg} /\ due' = DueTo([v \in {u} |-> msg])
    <3> DEFINE h == Head(broadcast)
    <3>1. fanout' = topics[h[1]] \X {h} /\ due' = DueTo([v \in {h[1]} |-> h])
      BY <1>2 DEF RouteMessage, Subscribers
    <3>2. h = msg /\ h[1] = u
      BY <2>2
    <3> HIDE DEF h, msg
    <3> QED
      BY <3>1, <3>2
  <2>5. OnTopic(msg, t) <=> u = t
    BY RoutedOnTopic
  <2> HIDE DEF msg
  <2>6. /\ due' \in [Client -> [Topic -> Seq(Frame)]]
        /\ due'[c][t] = IF t = u /\ c \in topics[t] THEN Append(due[c][t], msg) ELSE due[c][t]
    <3> DEFINE frame == [v \in {u} |-> msg]
    <3>1. DOMAIN frame = {u} /\ \A v \in DOMAIN frame : frame[v] = msg
      OBVIOUS
    <3>2. due' = DueTo(frame)
      BY <2>4
    <3> HIDE DEF frame
    <3>3. /\ due' \in [Client -> [Topic -> Seq(Frame)]]
          /\ due'[c][t] = IF t \in DOMAIN frame /\ c \in topics[t] THEN Append(due[c][t], frame[t])
                                                                  ELSE due[c][t]
      BY <1>1, <2>3, <3>1, <3>2
    <3> QED
      BY <3>1, <3>3
  <2>7. CASE t = u /\ c \in topics[t]
    <3>1. <<c, msg>> \in fanout' /\ <<c, msg>>[2] = msg
      BY <2>4, <2>7
    <3>2. Pending(c, t)' = {<<c, msg>>}
      <4>1. \A f \in fanout' : f[1] = c => f = <<c, msg>>
        BY <2>4
      <4>2. <<c, msg>>[1] = c /\ OnTopic(<<c, msg>>[2], t)
        BY <2>5, <2>7
      <4> QED
        BY <3>1, <4>1, <4>2 DEF Pending
    <3> QED
      BY <2>3, <2>6, <2>7, <3>1, <3>2
  <2>8. CASE ~ (t = u /\ c \in topics[t])
    <3>1. \A f \in fanout' : f[1] \in topics[u] /\ f[2] = msg
      BY <2>4
    <3>2. Pending(c, t)' = {}
      BY <2>5, <2>8, <3>1 DEF Pending
    <3> QED
      BY <2>6, <2>8, <3>2
  <2> QED
    BY <2>7, <2>8
<1>3. CASE RouteBroadcast
  <2>1. /\ fanout' = UNION {topics[u] \X {Price(u)} : u \in Topic}
        /\ due' = DueTo([u \in Topic |-> Price(u)])
    BY <1>3 DEF RouteBroadcast
  <2>2. \A u \in Topic : Price(u) \in Frame
    BY DEF Price, Frame, Types
  <2>3. \A u, v : OnTopic(Price(u), v) <=> u = v
    BY RoutedOnTopic DEF Price
  <2>4. /\ due' \in [Client -> [Topic -> Seq(Frame)]]
        /\ due'[c][t] = IF c \in topics[t] THEN Append(due[c][t], Price(t)) ELSE due[c][t]
    <3> DEFINE frame == [u \in Topic |-> Price(u)]
    <3>1. DOMAIN frame = Topic /\ \A u \in Topic : frame[u] = Price(u)
      OBVIOUS
    <3>2. due' = DueTo(frame)
      BY <2>1
    <3> HIDE DEF frame
    <3>3. /\ due' \in [Client -> [Topic -> Seq(Frame)]]
          /\ due'[c][t] = IF t \in DOMAIN frame /\ c \in topics[t] THEN Append(due[c][t], frame[t])
                                                                  ELSE due[c][t]
      BY <1>1, <2>2, <3>1, <3>2
    <3> QED
      BY <3>1, <3>3
  <2>5. \A f \in fanout' : \E u \in Topic : f[1] \in topics[u] /\ f = <<f[1], Price(u)>>
    BY <2>1
  <2>6. \A f \in Pending(c, t)' : f = <<c, Price(t)>> /\ c \in topics[t]
    <3> SUFFICES ASSUME NEW f \in Pending(c, t)' PROVE f = <<c, Price(t)>> /\ c \in topics[t]
      OBVIOUS
    <3>1. f \in fanout' /\ f[1] = c /\ OnTopic(f[2], t)
      BY DEF Pending
    <3>2. PICK u \in Topic : f[1] \in topics[u] /\ f = <<f[1], Price(u)>>
      BY <2>5, <3>1
    <3>3. f[2] = Price(u)
      BY <3>2
    <3>4. u = t
      BY <2>3, <3>1, <3>3
    <3> QED
      BY <3>1, <3>2, <3>4
  <2>7. CASE c \in topics[t]
    <3>1. <<c, Price(t)>> \in fanout' /\ <<c, Price(t)>>[2] = Price(t) /\ <<c, Price(t)>>[1] = c
      BY <2>1, <2>7
    <3>2. <<c, Price(t)>> \in Pending(c, t)'
      BY <2>3, <3>1 DEF Pending
    <3>3. Pending(c, t)' = {<<c, Price(t)>>}
      BY <2>6, <3>2
    <3> QED
      BY <2>2, <2>4, <2>7, <3>1, <3>3
  <2>8. CASE c \notin topics[t]
    <3>1. Pending(c, t)' = {}
      BY <2>6, <2>8
    <3> QED
      BY <2>4, <2>8, <3>1
  <2> QED
    BY <2>7, <2>8
<1> QED
  BY <1>2, <1>3

\* Nothing that concerns c and t happens.
LEMMA LogSame ==
  ASSUME NEW c \in Client, NEW t \in Topic, LogKept(c, t),
         stream'[c] = stream[c], due'[c][t] = due[c][t], fanout' = fanout,
         writing'[BrokerW] = writing[BrokerW]
  PROVE  LogKept(c, t)'
<1>1. Pending(c, t)' = Pending(c, t)
  BY DEF Pending
<1>2. Busy(c, t)' <=> Busy(c, t)
  BY DEF Busy, Idle
<1>3. /\ Bodies(stream[c], t)' = Bodies(stream[c], t)
      /\ (InOrder(stream[c], t, due[c][t])' <=> InOrder(stream[c], t, due[c][t]))
  BY DEF InOrder, Bodies, UpToThe
<1> QED
  BY <1>1, <1>2, <1>3 DEF LogKept

LEMMA LogRouted ==
  ASSUME Types, LogInv, RouteMessage \/ RouteBroadcast, NEW c \in Client, NEW t \in Topic,
         conn[c] = "open"
  PROVE  LogKept(c, t)'
<1>1. AtSelect /\ UNCHANGED <<writing, stream>>
  BY DEF RouteMessage, RouteBroadcast, connVars
<1> DEFINE s == stream[c]
           d == due[c][t]
           n == Cardinality(Bodies(s, t))
<1>2. Pending(c, t) = {} /\ ~Busy(c, t) /\ ~Busy(c, t)'
  BY <1>1 DEF AtSelect, Pending, Busy, Idle
<1>3. InOrder(s, t, d) /\ n = Len(d)
  BY <1>2 DEF LogInv, LogKept
<1>4. s \in Seq({"size", "body"} \X Frame) /\ d \in Seq(Frame)
  BY DEF Types, LogInv
<1>5. n \in Nat
  BY <1>4, BodiesFinite
<1>6. Bodies(stream[c], t)' = Bodies(s, t) /\ \A e : InOrder(stream'[c], t, e) <=> InOrder(s, t, e)
  BY <1>1 DEF InOrder, Bodies, UpToThe
<1>7. CASE due'[c][t] = d /\ Pending(c, t)' = {}
  BY <1>2, <1>3, <1>6, <1>7 DEF LogKept
<1>8. ASSUME NEW f \in Frame, NEW g \in fanout', due'[c][t] = Append(d, f),
             Pending(c, t)' = {g}, g[2] = f
      PROVE  LogKept(c, t)'
  <2> HIDE DEF s, d, n, Frame
  <2>1. Len(Append(d, f)) = n + 1 /\ Append(d, f)[n + 1] = f
    BY <1>3, <1>4
  <2>2. InOrder(s, t, Append(d, f))
    BY <1>3, <1>4, MoreDue DEF n
  <2>3. Cardinality(Bodies(stream[c], t)') = n
    BY <1>6 DEF n
  <2>4. InOrder(stream'[c], t, due'[c][t])
    BY <1>6, <1>8, <2>2
  <2>5. n + 1 = Len(due'[c][t]) /\ g[2] = due'[c][t][n + 1]
    BY <1>8, <2>1
  <2> QED
    BY <1>2, <1>8, <2>3, <2>4, <2>5 DEF LogKept
<1>9. \/ due'[c][t] = d /\ Pending(c, t)' = {}
      \/ \E f \in Frame : \E g \in fanout' :
            due'[c][t] = Append(d, f) /\ Pending(c, t)' = {g} /\ g[2] = f
  <2> HIDE DEF Frame, Pending, LogInv, Types, RouteMessage, RouteBroadcast
  <2> QED
    BY Routed
<1> QED
  <2> HIDE DEF Frame, Pending, LogKept, d
  <2> QED
    BY <1>7, <1>8, <1>9

LEMMA LogFanout ==
  ASSUME Types, LogInv, FanoutNext, NEW c \in Client, NEW t \in Topic, conn[c] = "open"
  PROVE  LogKept(c, t)'
<1>0. LogKept(c, t) /\ Idle(BrokerW) /\ UNCHANGED <<stream, due>>
  BY DEF LogInv, FanoutNext, connVars
<1>1. PICK f \in fanout : fanout' = fanout \ {f} /\ Call(BrokerW, f[1], f[2])
  BY DEF FanoutNext
<1>2. f[1] \in Client /\ f[2] \in Frame
  BY <1>1 DEF Types
<1>3. writing'[BrokerW].to = f[1] /\ writing'[BrokerW].frame = f[2] /\ ~Idle(BrokerW)'
  BY <1>1, <1>2, CallType, Writers DEF Idle
<1>4. Busy(c, t)' <=> f \in Pending(c, t)
  BY <1>1, <1>3 DEF Busy, Pending
<1>5. Pending(c, t)' = Pending(c, t) \ {f} /\ ~Busy(c, t)
  BY <1>0, <1>1 DEF Pending, Busy
<1>6. /\ Bodies(stream[c], t)' = Bodies(stream[c], t)
      /\ (InOrder(stream[c], t, due[c][t])' <=> InOrder(stream[c], t, due[c][t]))
  BY <1>0 DEF InOrder, Bodies, UpToThe
<1> DEFINE n == Cardinality(Bodies(stream[c], t))
<1>7. n' = n
  BY <1>6
<1>8. CASE f \in Pending(c, t)
  <2>1. /\ n + 1 = Len(due[c][t]) /\ Pending(c, t) = {f} /\ f[2] = due[c][t][n + 1]
        /\ InOrder(stream[c], t, due[c][t])
    BY <1>0, <1>5, <1>8 DEF LogKept
  <2>2. Pending(c, t)' = {}
    BY <1>5, <2>1
  <2> HIDE DEF n
  <2>3. n' + 1 = Len(due'[c][t]) /\ writing'[BrokerW].frame = due'[c][t][n' + 1]
    BY <1>0, <1>3, <1>7, <2>1
  <2> QED
    BY <1>4, <1>6, <1>8, <2>1, <2>2, <2>3 DEF LogKept, n
<1>9. CASE f \notin Pending(c, t)
  <2>1. Pending(c, t)' = Pending(c, t) /\ ~Busy(c, t)'
    BY <1>4, <1>5, <1>9
  <2>2. \A g : Pending(c, t) = {g} /\ g \in fanout => g \in fanout'
    BY <1>1, <1>9
  <2> QED
    BY <1>0, <1>5, <1>6, <1>7, <2>1, <2>2 DEF LogKept
<1> QED
  BY <1>8, <1>9

LEMMA LogWrite ==
  ASSUME Types, LogInv, NEW w \in Writer, Write(w), NEW c \in Client, NEW t \in Topic,
         conn[c] = "open"
  PROVE  LogKept(c, t)'
<1>0. LogKept(c, t) /\ UNCHANGED <<fanout, due>> /\ ~Idle(w)
  BY DEF LogInv, Write, HasLock, brokerVars
<1>1. PICK d \in Client, f \in Frame : d = writing[w].to /\ f = writing[w].frame
  BY WriteEffect
<1>2. /\ writing[w] \in Calls /\ writing[w].piece \in {"size", "body"}
      /\ \A v \in Writer : v # w => writing'[v] = writing[v]
      /\ writing[w].piece = "size" => writing'[w] = [to |-> d, frame |-> f, piece |-> "body"]
      /\ writing[w].piece = "body" => writing'[w] = Nobody
  BY <1>1, WriteEffect DEF Calls
<1>3. CASE c # d
  <2>1. stream'[c] = stream[c]
    BY <1>1, <1>3 DEF Write, Types
  <2>2. CASE w # BrokerW
    BY <1>0, <1>2, <2>1, <2>2, LogSame, Writers
  <2>3. CASE w = BrokerW
    <3>1. ~Busy(c, t) /\ ~Busy(c, t)'
      BY <1>1, <1>2, <1>3, <2>3 DEF Busy, Idle
    <3>2. Pending(c, t)' = Pending(c, t)
      BY <1>0 DEF Pending
    <3>3. /\ Bodies(stream[c], t)' = Bodies(stream[c], t)
          /\ (InOrder(stream[c], t, due[c][t])' <=> InOrder(stream[c], t, due[c][t]))
      BY <1>0, <2>1 DEF InOrder, Bodies, UpToThe
    <3> QED
      BY <1>0, <3>1, <3>2, <3>3 DEF LogKept
  <2> QED
    BY <2>2, <2>3
<1>4. CASE c = d
  <2> DEFINE S == {"size", "body"} \X Frame
  <2>1. PICK x, s, r :
          /\ x \in S /\ s \in Seq(S)
          /\ x = <<writing[w].piece, f>> /\ s = stream[c] /\ r = stream'[c] /\ r = Append(s, x)
    <3>1. <<writing[w].piece, f>> \in S /\ stream[c] \in Seq(S)
      BY <1>2 DEF Types
    <3>2. stream'[c] = Append(stream[c], <<writing[w].piece, f>>)
      BY <1>1, <1>4 DEF Write, Types
    <3> QED
      BY <3>1, <3>2
  <2> DEFINE log == due[c][t]
  <2>2. Pending(c, t)' = Pending(c, t) /\ due'[c][t] = log
    BY <1>0 DEF Pending
  <2>3. /\ \A e : InOrder(stream[c], t, e) <=> InOrder(s, t, e)
        /\ \A e : InOrder(stream'[c], t, e) <=> InOrder(r, t, e)
        /\ Bodies(stream[c], t) = Bodies(s, t) /\ Bodies(stream[c], t)' = Bodies(r, t)
    BY <2>1 DEF InOrder, Bodies, UpToThe
  <2>4. /\ InOrder(s, t, log)
        /\ LET n == Cardinality(Bodies(s, t))
           IN  \/ n = Len(log) /\ Pending(c, t) = {} /\ ~Busy(c, t)
               \/ n + 1 = Len(log) /\ Pending(c, t) = {} /\ Busy(c, t) /\ writing[BrokerW].frame = log[n + 1]
               \/ n + 1 = Len(log) /\ ~Busy(c, t) /\ \E g \in fanout : Pending(c, t) = {g} /\ g[2] = log[n + 1]
    BY <1>0, <2>3 DEF LogKept
  <2> HIDE DEF S
  <2>5. CASE writing[w].piece = "body" /\ OnTopic(f, t)
    <3>1. w = BrokerW
      <4>1. f # ErrorFrame
        BY <2>5 DEF OnTopic
      <4> QED
        BY <1>0, <1>1, <4>1 DEF LogInv
    <3>2. Busy(c, t) /\ ~Busy(c, t)'
      BY <1>0, <1>1, <1>2, <1>4, <2>5, <3>1 DEF Busy, Idle
    <3>3. /\ Cardinality(Bodies(s, t)) + 1 = Len(log) /\ Pending(c, t) = {}
          /\ f = log[Cardinality(Bodies(s, t)) + 1]
      BY <1>1, <2>4, <3>1, <3>2
    <3>4. x = <<"body", f>>
      BY <2>1, <2>5
    <3> HIDE DEF log
    <3>5. Cardinality(Bodies(r, t)) = Cardinality(Bodies(s, t)) + 1
      <4>1. x \in S /\ r = Append(s, x) /\ s \in Seq(S) /\ IsBody(x, t)
        BY <2>1, <2>5, <3>4 DEF IsBody
      <4>2. Bodies(r, t) = Bodies(s, t) \cup {Len(s) + 1} /\ Len(s) + 1 \notin Bodies(s, t)
        BY ONLY <4>1, OneMore
      <4>3. IsFiniteSet(Bodies(s, t))
        BY ONLY <4>1, BodiesFinite
      <4> QED
        BY <4>2, <4>3, FS_AddElement
    <3>6. InOrder(r, t, log)
      <4>1. x \in S /\ r = Append(s, x) /\ s \in Seq(S) /\ IsBody(x, t) /\ InOrder(s, t, log)
        BY <2>1, <2>4, <2>5, <3>4 DEF IsBody
      <4>2. log[Cardinality(Bodies(r, t))] = x[2]
        BY <3>3, <3>4, <3>5
      <4> QED
        BY ONLY <4>1, <4>2, NextBody
    <3>7. Cardinality(Bodies(r, t)) = Len(log)
      BY <3>3, <3>5
    <3> QED
      BY <2>2, <2>3, <3>2, <3>3, <3>6, <3>7 DEF LogKept
  <2>6. CASE ~ (writing[w].piece = "body" /\ OnTopic(f, t))
    <3>1. ~ IsBody(x, t)
      BY <2>1, <2>6 DEF IsBody
    <3> HIDE DEF log
    <3>2. Bodies(r, t) = Bodies(s, t) /\ InOrder(r, t, log)
      <4>1. x \in S /\ s \in Seq(S) /\ r = Append(s, x) /\ InOrder(s, t, log)
        BY <2>1, <2>4
      <4> QED
        BY ONLY <3>1, <4>1, OtherPiece
    <3>3. (Busy(c, t)' <=> Busy(c, t)) /\ (Busy(c, t) => writing'[BrokerW].frame = writing[BrokerW].frame)
      <4>1. CASE w # BrokerW
        <5>1. writing'[BrokerW] = writing[BrokerW]
          BY <1>2, <4>1, Writers
        <5> QED
          BY <5>1 DEF Busy, Idle
      <4>2. CASE w = BrokerW /\ writing[w].piece = "size"
        <5>1. writing'[w] = [to |-> d, frame |-> f, piece |-> "body"]
          BY <1>2, <4>2
        <5>2. writing'[w] \in Calls
          BY <5>1 DEF Calls
        <5>3. writing'[w] # Nobody /\ writing'[w].to = d /\ writing'[w].frame = f
          BY <5>1, <5>2, CallIsOne
        <5> QED
          BY <1>0, <1>1, <4>2, <5>3 DEF Busy, Idle
      <4>3. CASE w = BrokerW /\ writing[w].piece = "body"
        BY <1>1, <1>2, <2>6, <4>3 DEF Busy, Idle
      <4> QED
        BY <1>2, <4>1, <4>2, <4>3
    <3> QED
      BY <1>0, <2>2, <2>3, <2>4, <3>2, <3>3 DEF LogKept
  <2> QED
    BY <2>5, <2>6
<1> QED
  BY <1>3, <1>4

\* Only the broker writes frames that are not the error frame.
LEMMA OnlyErrors ==
  ASSUME Types, LogInv, [BrokerNext]_systemVars, NEW v \in Writer, v # BrokerW, ~Idle(v)'
  PROVE  writing'[v].frame = ErrorFrame
<1> USE DEF brokerVars, clientVars, connVars
<1>0. ~Idle(v) => writing[v].frame = ErrorFrame
  BY DEF LogInv
<1>1. ASSUME writing'[v] = writing[v] PROVE writing'[v].frame = ErrorFrame
  BY <1>0, <1>1 DEF Idle
<1>2. ASSUME NEW w \in Writer, NEW c \in Client, Call(w, c, ErrorFrame)
      PROVE  writing'[v].frame = ErrorFrame
  <2>1. ErrorFrame \in Frame
    BY DEF Frame
  <2>2. writing'[w].frame = ErrorFrame /\ \A u \in Writer : u # w => writing'[u] = writing[u]
    BY <1>2, <2>1, CallType
  <2> QED
    BY <1>1, <2>2
<1>3. ASSUME NEW w \in Writer, Write(w) PROVE writing'[v].frame = ErrorFrame
  <2>1. CASE v # w
    BY <1>1, <1>3, <2>1, WriteEffect
  <2>2. CASE v = w
    <3>1. ~Idle(w) /\ writing[w] \in Calls
      BY <1>3, WriteEffect DEF Write, HasLock
    <3>0. PICK c \in Client, f \in Frame : c = writing[w].to /\ f = writing[w].frame
      BY <1>3, WriteEffect
    <3>2. /\ writing[w].piece = "size" => writing'[w] = [to |-> c, frame |-> f, piece |-> "body"]
          /\ writing[w].piece = "body" => writing'[w] = Nobody
      BY <1>3, <3>0, WriteEffect
    <3>3. writing'[w].frame = f
      BY <2>2, <3>1, <3>2 DEF Calls, Idle
    <3> QED
      BY <1>0, <2>2, <3>0, <3>1, <3>3
  <2> QED
    BY <2>1, <2>2
<1>4. ASSUME NEW w \in Writer, WriteFails(w) PROVE writing'[v].frame = ErrorFrame
  <2>1. writing' = [writing EXCEPT ![w] = Nobody] /\ writing \in [Writer -> Calls \cup {Nobody}]
    BY <1>4 DEF WriteFails, Types
  <2>2. v # w
    BY <2>1 DEF Idle
  <2> QED
    BY <1>1, <2>1, <2>2
<1>5. CASE FanoutNext
  <2>1. PICK f \in fanout : Call(BrokerW, f[1], f[2])
    BY <1>5 DEF FanoutNext
  <2>2. writing'[v] = writing[v]
    BY <2>1, Writers DEF Call, Types
  <2> QED
    BY <1>1, <2>2
<1>6. CASE UNCHANGED writing
  BY <1>1, <1>6
<1>7. ASSUME NEW c \in Client, ReadCommand(c) \/ ReadEof(c) \/ CloserWrites(c)
      PROVE  UNCHANGED writing \/ \E w \in Writer : Call(w, c, ErrorFrame)
  BY <1>7, Writers DEF ReadCommand, ReadEof, CloserWrites
<1>8. RouteMessage \/ RouteBroadcast \/ UNCHANGED systemVars => UNCHANGED writing
  BY DEF RouteMessage, RouteBroadcast, systemVars
<1>9. ASSUME NEW c \in Client,
             HandleConn(c) \/ Register(c) \/ (\E t \in Topic : Unregister(c, t)) \/ ReadError(c)
             \/ Publish(c) \/ CloseClient(c) \/ PeerReads(c) \/ PeerLeaves(c)
      PROVE  UNCHANGED writing
  BY <1>9 DEF HandleConn, Register, Unregister, ReadError, Publish, CloseClient, PeerReads, PeerLeaves
<1> QED
  BY <1>2, <1>3, <1>4, <1>5, <1>6, <1>7, <1>8, <1>9
  DEF BrokerNext, Bootstrap, WriteFrame, HandleRead, Closer

\* Nothing is due to a client before it is accepted, and what is due has its type.
LEMMA DueStep ==
  ASSUME Types, NoStranger, LogInv, [BrokerNext]_systemVars
  PROVE  /\ due' \in [Client -> [Topic -> Seq(Frame)]]
         /\ \A c \in Client, t \in Topic : conn'[c] = "none" => due'[c][t] = <<>>
<1> USE DEF brokerVars, clientVars, connVars
<1>0. /\ due \in [Client -> [Topic -> Seq(Frame)]]
      /\ \A c \in Client, t \in Topic : conn[c] = "none" => due[c][t] = <<>>
  BY DEF LogInv
<1>1. CASE RouteMessage \/ RouteBroadcast
  <2>1. conn' = conn
    BY <1>1 DEF RouteMessage, RouteBroadcast
  <2>2. ASSUME NEW c \in Client, NEW t \in Topic, conn[c] = "none" PROVE due'[c][t] = <<>>
    <3>1. c \notin topics[t]
      BY <2>2 DEF NoStranger, Acquainted
    <3>2. due'[c][t] = due[c][t]
      <4> HIDE DEF Frame, Pending, LogInv, Types, RouteMessage, RouteBroadcast
      <4> QED
        BY <1>1, <3>1, Routed
    <3> QED
      BY <1>0, <2>2, <3>2
  <2>3. due' \in [Client -> [Topic -> Seq(Frame)]]
    <3>1. CASE \E c \in Client, t \in Topic : TRUE
      <4> HIDE DEF Frame, Pending, LogInv, Types, RouteMessage, RouteBroadcast
      <4> QED
        BY <1>1, <3>1, Routed
    <3>2. CASE ~ \E c \in Client, t \in Topic : TRUE
      <4>1. PICK frame : due' = DueTo(frame)
        BY <1>1 DEF RouteMessage, RouteBroadcast
      <4>2. due' = [c \in Client |-> [t \in Topic |->
                      IF t \in DOMAIN frame /\ c \in topics[t] THEN Append(due[c][t], frame[t])
                                                               ELSE due[c][t]]]
        BY <4>1 DEF DueTo
      <4> HIDE DEF Frame
      <4> QED
        BY <3>2, <4>2
    <3> QED
      BY <3>1, <3>2
  <2> QED
    BY <2>1, <2>2, <2>3
<1>2. ASSUME NEW c \in Client,
             HandleConn(c) \/ Register(c) \/ (\E t \in Topic : Unregister(c, t)) \/ HandleRead(c)
             \/ Closer(c) \/ PeerReads(c) \/ PeerLeaves(c)
      PROVE  due' = due /\ \A d \in Client : conn'[d] = "none" => conn[d] = "none"
  BY <1>2 DEF Types, HandleConn, Register, Unregister, HandleRead, Closer, PeerReads, PeerLeaves,
              ReadCommand, ReadEof, ReadError, Publish, CloserWrites, CloseClient
<1>3. ASSUME NEW w \in Writer, WriteFrame(w)
      PROVE  due' = due /\ \A d \in Client : conn'[d] = "none" => conn[d] = "none"
  <2>1. CASE Write(w)
    BY <2>1, WriteEffect DEF Write, Types
  <2>2. CASE WriteFails(w)
    BY <2>2 DEF WriteFails
  <2> QED
    BY <1>3, <2>1, <2>2 DEF WriteFrame
<1>4. CASE FanoutNext \/ UNCHANGED systemVars
  BY <1>0, <1>4 DEF FanoutNext, systemVars
<1> QED
  BY <1>0, <1>1, <1>2, <1>3, <1>4 DEF BrokerNext, Bootstrap

LEMMA LogFails ==
  ASSUME Types, LogInv, NEW w \in Writer, WriteFails(w), NEW c \in Client, NEW t \in Topic,
         conn[c] = "open"
  PROVE  LogKept(c, t)'
<1>0. LogKept(c, t) /\ UNCHANGED <<fanout, due, stream>> /\ writing[w].to # c
  BY DEF LogInv, WriteFails, brokerVars, connVars
<1>1. writing'[w] = Nobody /\ \A v \in Writer : v # w => writing'[v] = writing[v]
  BY DEF WriteFails, Types
<1>2. CASE w # BrokerW
  BY <1>0, <1>1, <1>2, LogSame, Writers
<1>3. CASE w = BrokerW
  <2>1. ~Busy(c, t) /\ ~Busy(c, t)'
    BY <1>0, <1>1, <1>3 DEF Busy, Idle
  <2>2. Pending(c, t)' = Pending(c, t)
    BY <1>0 DEF Pending
  <2>3. /\ Bodies(stream[c], t)' = Bodies(stream[c], t)
        /\ (InOrder(stream[c], t, due[c][t])' <=> InOrder(stream[c], t, due[c][t]))
    BY <1>0 DEF InOrder, Bodies, UpToThe
  <2> QED
    BY <1>0, <2>1, <2>2, <2>3 DEF LogKept
<1> QED
  BY <1>2, <1>3

LEMMA LogAccept ==
  ASSUME Types, NoStranger, LogInv, NEW c \in Client, NEW t \in Topic, conn[c] = "none",
         UNCHANGED <<fanout, due, stream, writing>>
  PROVE  LogKept(c, t)'
<1>1. /\ stream[c] = <<>> /\ (\A f \in fanout : f[1] # c)
      /\ \A w \in Writer : writing[w] # Nobody => writing[w].to # c
  BY DEF NoStranger, Acquainted
<1>2. due[c][t] = <<>>
  BY DEF LogInv
<1>3. Bodies(stream[c], t)' = {}
  BY <1>1 DEF Bodies
<1>4. Cardinality(Bodies(stream[c], t))' = 0 /\ Len(due[c][t])' = 0
  BY <1>2, <1>3, FS_EmptySet
<1>5. Pending(c, t)' = {} /\ ~Busy(c, t)'
  BY <1>1, Writers DEF Pending, Busy, Idle
<1> QED
  BY <1>3, <1>4, <1>5 DEF LogKept, InOrder

LEMMA LogStep == Types /\ NoStranger /\ LogInv /\ [BrokerNext]_systemVars => LogInv'
<1> SUFFICES ASSUME Types, NoStranger, LogInv, [BrokerNext]_systemVars, NEW c \in Client, NEW t \in Topic,
                    conn'[c] = "open"
             PROVE  LogKept(c, t)'
  BY OnlyErrors, DueStep DEF LogInv
<1> USE DEF brokerVars, clientVars, connVars
<1>1. CASE RouteMessage \/ RouteBroadcast
  <2>1. conn[c] = "open"
    BY <1>1 DEF RouteMessage, RouteBroadcast
  <2> QED
    BY <1>1, <2>1, LogRouted
<1>2. CASE FanoutNext
  <2>1. conn[c] = "open"
    BY <1>2 DEF FanoutNext
  <2> QED
    BY <1>2, <2>1, LogFanout
<1>3. ASSUME NEW w \in Writer, Write(w) PROVE LogKept(c, t)'
  <2>1. conn[c] = "open"
    BY <1>3, WriteEffect DEF Write, Types
  <2> QED
    BY <1>3, <2>1, LogWrite
<1>4. ASSUME NEW w \in Writer, WriteFails(w) PROVE LogKept(c, t)'
  <2>1. conn[c] = "open"
    BY <1>4 DEF WriteFails
  <2> QED
    BY <1>4, <2>1, LogFails
<1>5. ASSUME conn[c] = "open", stream'[c] = stream[c], UNCHANGED <<due, fanout>>,
             writing'[BrokerW] = writing[BrokerW]
      PROVE  LogKept(c, t)'
  <2>1. LogKept(c, t)
    BY <1>5 DEF LogInv
  <2> QED
    BY <1>5, <2>1, LogSame
<1>6. ASSUME NEW d \in Client, HandleConn(d) PROVE LogKept(c, t)'
  <2>1. UNCHANGED <<fanout, due, stream, writing>> /\ (conn[c] = "open" \/ conn[c] = "none")
    BY <1>6 DEF HandleConn, Types
  <2> QED
    BY <1>5, <2>1, LogAccept
<1>7. ASSUME NEW d \in Client, ReadCommand(d) \/ ReadEof(d) \/ CloserWrites(d) PROVE LogKept(c, t)'
  <2>1. conn[c] = "open" /\ UNCHANGED <<stream, due, fanout>>
    BY <1>7 DEF ReadCommand, ReadEof, CloserWrites
  <2>2. UNCHANGED writing \/ \E w \in {<<"reader", d>>, <<"closer", d>>} : Call(w, d, ErrorFrame)
    BY <1>7 DEF ReadCommand, ReadEof, CloserWrites
  <2>3. writing'[BrokerW] = writing[BrokerW]
    <3>1. BrokerW # <<"reader", d>> /\ BrokerW # <<"closer", d>>
      BY DEF BrokerW
    <3> QED
      BY <2>2, <3>1, Writers DEF Call, Types
  <2> QED
    BY <1>5, <2>1, <2>3
<1>8. ASSUME NEW d \in Client,
             Register(d) \/ (\E u \in Topic : Unregister(d, u)) \/ ReadError(d) \/ Publish(d)
             \/ PeerReads(d)
      PROVE  LogKept(c, t)'
  <2>1. conn[c] = "open" /\ UNCHANGED <<stream, due, fanout, writing>>
    BY <1>8 DEF Register, Unregister, ReadError, Publish, PeerReads
  <2> QED
    BY <1>5, <2>1
<1>9. ASSUME NEW d \in Client, CloseClient(d) \/ PeerLeaves(d) PROVE LogKept(c, t)'
  <2>1. d # c /\ UNCHANGED <<due, fanout, writing>>
    BY <1>9 DEF CloseClient, PeerLeaves, Types
  <2>2. conn[c] = "open" /\ stream'[c] = stream[c]
    BY <1>9, <2>1 DEF CloseClient, PeerLeaves, Types
  <2> QED
    BY <1>5, <2>1, <2>2
<1>10. CASE UNCHANGED systemVars
  BY <1>5, <1>10 DEF systemVars
<1> QED
  BY <1>1, <1>2, <1>3, <1>4, <1>6, <1>7, <1>8, <1>9, <1>10
  DEF BrokerNext, Bootstrap, WriteFrame, HandleRead, Closer

\* What the invariant says in the terms of the property.
LEMMA LogIsTopicLog == Types /\ LogInv => StreamIsTopicLog
<1> SUFFICES ASSUME Types, LogInv, NEW c \in Client, NEW t \in Topic, conn[c] = "open"
             PROVE  /\ \A i \in Sent(c, t) :
                          stream[c][i][2] = due[c][t][Cardinality({j \in Sent(c, t) : j <= i})]
                    /\ Cardinality(Sent(c, t)) + Cardinality(Ahead(c, t)) = Len(due[c][t])
  BY DEF StreamIsTopicLog
<1>1. LogKept(c, t)
  BY DEF LogInv
<1>2. Sent(c, t) = Bodies(stream[c], t)
  BY DEF Sent, Bodies, IsBody
<1>3. \A i \in Sent(c, t) :
         stream[c][i][2] = due[c][t][Cardinality({j \in Sent(c, t) : j <= i})]
  BY <1>1, <1>2 DEF LogKept, InOrder, UpToThe
<1>4. Ahead(c, t) = Pending(c, t) \cup {w \in {BrokerW} : Busy(c, t)}
  BY DEF Ahead, Pending, Busy
<1> DEFINE n == Cardinality(Bodies(stream[c], t))
           m == Cardinality(Ahead(c, t))
<1>5. \/ n = Len(due[c][t]) /\ m = 0
      \/ n + 1 = Len(due[c][t]) /\ m = 1
  <2>1. CASE n = Len(due[c][t]) /\ Pending(c, t) = {} /\ ~Busy(c, t)
    <3>1. Ahead(c, t) = {}
      BY <1>4, <2>1
    <3> QED
      BY <2>1, <3>1, FS_EmptySet
  <2>2. CASE n + 1 = Len(due[c][t]) /\ Pending(c, t) = {} /\ Busy(c, t)
    <3>1. Ahead(c, t) = {BrokerW}
      BY <1>4, <2>2
    <3> QED
      BY <2>2, <3>1, FS_Singleton
  <2>3. CASE n + 1 = Len(due[c][t]) /\ ~Busy(c, t) /\ \E f \in fanout : Pending(c, t) = {f}
    <3>1. PICK f : Ahead(c, t) = {f}
      BY <1>4, <2>3
    <3> QED
      BY <2>3, <3>1, FS_Singleton
  <2> QED
    BY <1>1, <2>1, <2>2, <2>3 DEF LogKept
<1>6. n \in Nat
  <2>1. stream[c] \in Seq({"size", "body"} \X Frame)
    BY DEF Types
  <2> QED
    BY <2>1, BodiesFinite
<1> HIDE DEF n, m
<1>7. n + m = Len(due[c][t])
  BY <1>5, <1>6
<1> QED
  BY <1>2, <1>3, <1>7 DEF n, m

\* A subscriber is sent every frame of a topic routed while it is subscribed,
\* in the broker's order, none twice and nothing else (README: "receive only
\* broadcasts for those"; broker.go 55-100).
THEOREM LogTheorem == BrokerSpec => []StreamIsTopicLog
<1>1. BrokerInit => NoStranger /\ LogInv
  <2> SUFFICES ASSUME BrokerInit PROVE NoStranger /\ LogInv
    OBVIOUS
  <2>1. /\ due = [c \in Client |-> [t \in Topic |-> <<>>]]
        /\ \A w \in Writer : writing[w] = Nobody
        /\ \A c \in Client : conn[c] = "none"
    BY DEF BrokerInit
  <2>2. LogInv
    BY <2>1 DEF LogInv, Idle
  <2>3. ASSUME NEW c \in Client PROVE Acquainted(c) /\ Closing(c)
    <3>1. /\ conn[c] = "none" /\ stream[c] = <<>> /\ closer[c] = "none" /\ reader[c] = <<"none">>
          /\ fanout = {} /\ \A t \in Topic : topics[t] = {}
      BY DEF BrokerInit
    <3> QED
      BY <2>1, <3>1, Writers DEF Acquainted, Closing, Idle
  <2> QED
    BY <2>2, <2>3 DEF NoStranger
<1> QED
  BY <1>1, TypesInit, TypesStep, StrangerStep, LogStep, LogIsTopicLog, PTL DEF BrokerSpec

-----------------------------------------------------------------------------
(* The worker pool.                                                        *)

\* What the proofs use of the constants.
LEMMA ConstantTypes == QueueSize \in Nat /\ NoConn \notin Conn
  BY WorkerPoolAssumption

USE ConstantTypes

-----------------------------------------------------------------------------
(* Types.                                                                  *)

\* The accept loop holds a connection exactly when it is about to send it.
HoldsInv == startPc = "dispatch" <=> accepted # NoConn

TypeInv == TypeOK /\ HoldsInv

\* What a send and a receive leave in the queue.
LEMMA QueueAppend ==
  ASSUME NEW q \in Seq(Conn), NEW c \in Conn, Len(q) < QueueSize
  PROVE  Append(q, c) \in Seq(Conn) /\ Len(Append(q, c)) <= QueueSize
  OBVIOUS

LEMMA QueueTail ==
  ASSUME NEW q \in Seq(Conn), q # <<>>, Len(q) <= QueueSize
  PROVE  Head(q) \in Conn /\ Tail(q) \in Seq(Conn) /\ Len(Tail(q)) <= QueueSize
<1>1. Len(q) \in Nat /\ Len(Tail(q)) = Len(q) - 1
  OBVIOUS
<1> QED
  BY <1>1

LEMMA TypeInit == Init => TypeInv
<1> SUFFICES ASSUME Init PROVE TypeInv
  OBVIOUS
<1>1. serving \in [Worker -> Conn \cup {NoConn}]
  BY DEF Init
<1>2. connCh \in Seq(Conn) /\ Len(connCh) <= QueueSize
  BY DEF Init
<1> QED
  BY <1>1, <1>2 DEF Init, TypeInv, TypeOK, HoldsInv

LEMMA TypeStep == TypeInv /\ [Next]_vars => TypeInv'
<1> SUFFICES ASSUME TypeInv, [Next]_vars PROVE TypeInv'
  OBVIOUS
<1> USE DEF TypeInv, TypeOK, HoldsInv
<1>1. CASE Listen
  BY <1>1 DEF Listen
<1>2. CASE SetListener
  BY <1>2 DEF SetListener
<1>3. ASSUME NEW w \in Worker, SpawnWorker(w) PROVE TypeInv'
  <2>1. startPc' \in {"accept", "spawn"}
    BY <1>3 DEF SpawnWorker
  <2> QED
    BY <1>3, <2>1 DEF SpawnWorker
<1>4. ASSUME NEW c \in Conn, Accept(c) PROVE TypeInv'
  BY <1>4 DEF Accept
<1>5. CASE AcceptClosed
  BY <1>5 DEF AcceptClosed
<1>6. CASE Dispatch
  <2>1. accepted \in Conn
    BY <1>6 DEF Dispatch
  <2>2. connCh' \in Seq(Conn) /\ Len(connCh') <= QueueSize
    <3>1. connCh' = connCh \/ (Room /\ connCh' = Append(connCh, accepted))
      BY <1>6 DEF Dispatch
    <3> QED
      BY <2>1, <3>1, QueueAppend DEF Room
  <2>3. phase' \in [Conn -> {"new", "dialed", "accepted", "queued", "handling",
                             "handled", "rejected"}]
    BY <1>6, <2>1 DEF Dispatch, Reject
  <2> QED
    BY <1>6, <2>2, <2>3 DEF Dispatch
<1>7. ASSUME NEW w \in Worker, Receive(w) PROVE TypeInv'
  <2>1. Head(connCh) \in Conn /\ Tail(connCh) \in Seq(Conn) /\ Len(Tail(connCh)) <= QueueSize
    BY <1>7, QueueTail DEF Receive
  <2> QED
    BY <1>7, <2>1 DEF Receive
<1>8. ASSUME NEW w \in Worker, HandlerReturns(w) PROVE TypeInv'
  BY <1>8 DEF HandlerReturns
<1>9. ASSUME NEW w \in Worker, RangeEnds(w) PROVE TypeInv'
  BY <1>9 DEF RangeEnds, Waiting
<1>10. ASSUME NEW s \in Stopper, CloseListener(s) PROVE TypeInv'
  BY <1>10 DEF CloseListener
<1>11. ASSUME NEW s \in Stopper, CloseChannel(s) PROVE TypeInv'
  <2>1. panicked' \in {panicked, "close of closed channel"}
    BY <1>11 DEF CloseChannel
  <2> QED
    BY <1>11, <2>1 DEF CloseChannel
<1>12. ASSUME NEW s \in Stopper, WaitReturns(s) PROVE TypeInv'
  BY <1>12 DEF WaitReturns
<1>13. ASSUME NEW c \in Conn, Dial(c) PROVE TypeInv'
  BY <1>13 DEF Dial
<1>14. CASE UNCHANGED vars
  BY <1>14 DEF vars
<1> QED
  BY <1>1, <1>2, <1>3, <1>4, <1>5, <1>6, <1>7, <1>8, <1>9, <1>10, <1>11, <1>12, <1>13, <1>14
     DEF Next, Start, Work, Shutdown

\* Every variable keeps its type: the queue never exceeds QueueSize, only
\* workers that were started end (server.go 12-45, 58-65).
THEOREM TypeCorrect == Spec => []TypeOK
<1>1. TypeInv => TypeOK
  BY DEF TypeInv
<1> QED
  BY <1>1, TypeInit, TypeStep, PTL DEF Spec

-----------------------------------------------------------------------------
(* Draining.                                                               *)

Returned == \E s \in Stopper : stopPc[s] = "returned"

\* Where a connection is, its phase says: in the queue, with a worker.
PlacedInv ==
    /\ \A c \in Conn : phase[c] = "queued" => \E i \in 1..Len(connCh) : connCh[i] = c
    /\ \A c \in Conn : phase[c] = "handling" => \E w \in Worker : serving[w] = c

\* Only running workers serve.
ServingInv == \A w \in Worker : w \notin spawned \/ w \in ended => serving[w] = NoConn

\* The queue is filled only when there are workers, and a worker ends when it
\* is closed and empty, for good.
QueueInv ==
    /\ spawned = {} => startPc \in {"listen", "set", "spawn"}
    /\ startPc \in {"listen", "set", "spawn"} => connCh = <<>>
    /\ \A s \in Stopper : stopPc[s] \in {"wait", "returned"} => chClosed
    /\ ended # {} => chClosed /\ connCh = <<>>

\* After a Shutdown has returned nothing is left or comes back.
DrainInv == Returned => connCh = <<>> /\ \A w \in Worker : serving[w] = NoConn

Inv == PlacedInv /\ ServingInv /\ QueueInv /\ DrainInv

LEMMA PlacedStep == TypeInv /\ PlacedInv /\ ServingInv /\ [Next]_vars => PlacedInv'
<1> SUFFICES ASSUME TypeInv, PlacedInv, ServingInv, [Next]_vars PROVE PlacedInv'
  OBVIOUS
<1> USE DEF PlacedInv
<1>1. CASE UNCHANGED <<phase, connCh, serving>>
  BY <1>1
<1>2. ASSUME NEW c \in Conn, Accept(c) \/ Dial(c) PROVE PlacedInv'
  <2>1. /\ UNCHANGED <<connCh, serving>>
        /\ \/ phase' = [phase EXCEPT ![c] = "accepted"]
           \/ phase' = [phase EXCEPT ![c] = "dialed"]
    BY <1>2 DEF Accept, Dial
  <2> QED
    BY <2>1 DEF TypeInv, TypeOK
<1>3. CASE Dispatch
  <2>1. accepted \in Conn /\ connCh \in Seq(Conn)
    BY <1>3 DEF Dispatch, TypeInv, TypeOK, HoldsInv
  <2>2. CASE UNCHANGED connCh /\ (UNCHANGED phase \/ Reject(accepted))
    BY <1>3, <2>1, <2>2 DEF Dispatch, Reject, TypeInv, TypeOK
  <2>3. CASE connCh' = Append(connCh, accepted) /\ phase' = [phase EXCEPT ![accepted] = "queued"]
    <3>1. \A i \in 1..Len(connCh) : i \in 1..Len(connCh') /\ connCh'[i] = connCh[i]
      BY <2>1, <2>3
    <3>2. Len(connCh) + 1 \in 1..Len(connCh') /\ connCh'[Len(connCh) + 1] = accepted
      BY <2>1, <2>3
    <3>3. UNCHANGED serving
      BY <1>3 DEF Dispatch
    <3>4. ASSUME NEW c \in Conn, phase'[c] = "queued"
          PROVE  \E i \in 1..Len(connCh') : connCh'[i] = c
      <4>1. CASE c = accepted
        BY <3>2, <4>1
      <4>2. CASE c # accepted
        <5>1. phase[c] = "queued"
          BY <2>1, <2>3, <3>4, <4>2 DEF TypeInv, TypeOK
        <5>2. PICK i \in 1..Len(connCh) : connCh[i] = c
          BY <5>1
        <5> QED
          BY <3>1, <5>2
      <4> QED
        BY <4>1, <4>2
    <3>5. \A c \in Conn : phase'[c] = "handling" => phase[c] = "handling"
      BY <2>1, <2>3 DEF TypeInv, TypeOK
    <3> QED
      BY <3>3, <3>4, <3>5
  <2> QED
    BY <1>3, <2>2, <2>3 DEF Dispatch
<1>4. ASSUME NEW w \in Worker, Receive(w) PROVE PlacedInv'
  <2>1. /\ connCh \in Seq(Conn) /\ connCh # <<>>
        /\ connCh' = Tail(connCh)
        /\ phase' = [phase EXCEPT ![Head(connCh)] = "handling"]
        /\ serving' = [serving EXCEPT ![w] = Head(connCh)]
        /\ serving[w] = NoConn
    BY <1>4 DEF Receive, Waiting, TypeInv, TypeOK
  <2>2. Head(connCh) \in Conn /\ Head(connCh) = connCh[1]
    BY <2>1
  <2>3. ASSUME NEW c \in Conn, phase'[c] = "queued"
        PROVE  \E i \in 1..Len(connCh') : connCh'[i] = c
    <3>1. phase[c] = "queued" /\ c # connCh[1]
      BY <2>1, <2>2, <2>3 DEF TypeInv, TypeOK
    <3>2. PICK i \in 1..Len(connCh) : connCh[i] = c
      BY <3>1
    <3>3. i - 1 \in 1..Len(connCh') /\ connCh'[i - 1] = c
      BY <2>1, <3>1, <3>2
    <3> QED
      BY <3>3
  <2>4. ASSUME NEW c \in Conn, phase'[c] = "handling"
        PROVE  \E u \in Worker : serving'[u] = c
    <3>1. CASE c = Head(connCh)
      BY <2>1, <3>1 DEF TypeInv, TypeOK
    <3>2. CASE c # Head(connCh)
      <4>1. PICK u \in Worker : serving[u] = c
        BY <2>1, <2>4, <3>2 DEF TypeInv, TypeOK
      <4>2. u # w
        BY <2>1, <4>1
      <4> QED
        BY <2>1, <4>1, <4>2 DEF TypeInv, TypeOK
    <3> QED
      BY <3>1, <3>2
  <2> QED
    BY <2>3, <2>4
<1>5. ASSUME NEW w \in Worker, HandlerReturns(w) PROVE PlacedInv'
  <2>1. /\ phase' = [phase EXCEPT ![serving[w]] = "handled"]
        /\ serving' = [serving EXCEPT ![w] = NoConn]
        /\ UNCHANGED connCh
        /\ serving[w] \in Conn
    BY <1>5 DEF HandlerReturns, TypeInv, TypeOK
  <2>2. ASSUME NEW c \in Conn, phase'[c] = "handling"
        PROVE  \E u \in Worker : serving'[u] = c
    <3>1. c # serving[w] /\ phase[c] = "handling"
      BY <2>1, <2>2 DEF TypeInv, TypeOK
    <3>2. PICK u \in Worker : serving[u] = c
      BY <3>1
    <3> QED
      BY <2>1, <3>1, <3>2 DEF TypeInv, TypeOK
  <2>3. \A c \in Conn : phase'[c] = "queued" => phase[c] = "queued"
    BY <2>1 DEF TypeInv, TypeOK
  <2> QED
    BY <2>1, <2>2, <2>3
<1> QED
  BY <1>1, <1>2, <1>3, <1>4, <1>5
     DEF Next, Start, Work, Shutdown, Listen, SetListener, SpawnWorker, AcceptClosed, RangeEnds,
         CloseListener, CloseChannel, WaitReturns, vars

LEMMA ServingStep == TypeInv /\ ServingInv /\ [Next]_vars => ServingInv'
<1> SUFFICES ASSUME TypeInv, ServingInv, [Next]_vars PROVE ServingInv'
  OBVIOUS
<1> USE DEF ServingInv
<1>1. ASSUME NEW w \in Worker, Receive(w) PROVE ServingInv'
  BY <1>1 DEF Receive, Waiting, TypeInv, TypeOK
<1>2. ASSUME NEW w \in Worker, HandlerReturns(w) PROVE ServingInv'
  BY <1>2 DEF HandlerReturns, TypeInv, TypeOK
<1>3. ASSUME NEW w \in Worker, RangeEnds(w) PROVE ServingInv'
  BY <1>3 DEF RangeEnds, Waiting, TypeInv, TypeOK
<1>4. ASSUME NEW w \in Worker, SpawnWorker(w) PROVE ServingInv'
  BY <1>4 DEF SpawnWorker, TypeInv, TypeOK
<1>5. CASE UNCHANGED <<serving, spawned, ended>>
  BY <1>5
<1> QED
  BY <1>1, <1>2, <1>3, <1>4, <1>5
     DEF Next, Start, Work, Shutdown, Listen, SetListener, Accept, AcceptClosed, Dispatch, Dial,
         CloseListener, CloseChannel, WaitReturns, vars

LEMMA QueueStep == TypeInv /\ QueueInv /\ [Next]_vars => QueueInv'
<1> SUFFICES ASSUME TypeInv, QueueInv, [Next]_vars PROVE QueueInv'
  OBVIOUS
<1> USE DEF QueueInv
<1>1. CASE Listen \/ SetListener \/ AcceptClosed
  BY <1>1 DEF Listen, SetListener, AcceptClosed
<1>2. ASSUME NEW w \in Worker, SpawnWorker(w) PROVE QueueInv'
  <2>1. startPc = "spawn" /\ startPc' \in {"accept", "spawn"} /\ spawned' # {}
    BY <1>2 DEF SpawnWorker
  <2> QED
    BY <1>2, <2>1 DEF SpawnWorker
<1>3. ASSUME NEW c \in Conn, Accept(c) \/ Dial(c) PROVE QueueInv'
  BY <1>3 DEF Accept, Dial
<1>4. CASE Dispatch
  <2>1. chClosed => UNCHANGED connCh
    BY <1>4 DEF Dispatch
  <2> QED
    BY <1>4, <2>1 DEF Dispatch
<1>5. ASSUME NEW w \in Worker, Receive(w) PROVE QueueInv'
  BY <1>5 DEF Receive
<1>6. ASSUME NEW w \in Worker, HandlerReturns(w) PROVE QueueInv'
  BY <1>6 DEF HandlerReturns
<1>7. ASSUME NEW w \in Worker, RangeEnds(w) PROVE QueueInv'
  BY <1>7 DEF RangeEnds, Drained
<1>8. ASSUME NEW s \in Stopper, Shutdown(s) PROVE QueueInv'
  <2>1. UNCHANGED <<spawned, startPc, connCh, ended>>
    BY <1>8 DEF Shutdown, CloseListener, CloseChannel, WaitReturns
  <2>2. chClosed => chClosed'
    BY <1>8 DEF Shutdown, CloseListener, CloseChannel, WaitReturns
  <2>3. ASSUME NEW t \in Stopper, stopPc'[t] \in {"wait", "returned"} PROVE chClosed'
    BY <1>8, <2>2, <2>3 DEF Shutdown, CloseListener, CloseChannel, WaitReturns, TypeInv, TypeOK
  <2> QED
    BY <2>1, <2>2, <2>3
<1>9. CASE UNCHANGED vars
  BY <1>9 DEF vars
<1> QED
  BY <1>1, <1>2, <1>3, <1>4, <1>5, <1>6, <1>7, <1>8, <1>9 DEF Next, Start, Work

LEMMA DrainStep ==
  TypeInv /\ ServingInv /\ QueueInv /\ DrainInv /\ [Next]_vars => DrainInv'
<1> SUFFICES ASSUME TypeInv, ServingInv, QueueInv, DrainInv, [Next]_vars PROVE DrainInv'
  OBVIOUS
<1>1. ASSUME NEW s \in Stopper, WaitReturns(s) PROVE DrainInv'
  <2>1. spawned = ended /\ UNCHANGED <<connCh, serving>>
    BY <1>1 DEF WaitReturns, AllDone
  <2>2. connCh = <<>>
    BY <2>1 DEF QueueInv
  <2>3. \A w \in Worker : serving[w] = NoConn
    BY <2>1 DEF ServingInv
  <2> QED
    BY <2>1, <2>2, <2>3 DEF DrainInv
<1>2. CASE \A s \in Stopper : ~WaitReturns(s)
  <2>1. Returned' => Returned
    BY <1>2 DEF Returned, Next, Start, Work, Shutdown, Listen, SetListener, SpawnWorker, Accept,
         AcceptClosed, Dispatch, Receive, HandlerReturns, RangeEnds, CloseListener, CloseChannel,
         Dial, vars, TypeInv, TypeOK
  <2> SUFFICES ASSUME Returned PROVE connCh' = <<>> /\ \A w \in Worker : serving'[w] = NoConn
    BY <2>1 DEF DrainInv
  <2>2. chClosed /\ connCh = <<>> /\ \A w \in Worker : serving[w] = NoConn
    BY DEF Returned, QueueInv, DrainInv
  <2>3. connCh' = connCh
    BY <2>2 DEF Next, Start, Work, Shutdown, Listen, SetListener, SpawnWorker, Accept,
         AcceptClosed, Dispatch, Receive, HandlerReturns, RangeEnds, CloseListener, CloseChannel,
         WaitReturns, Dial, vars
  <2>4. serving' = serving
    BY <2>2 DEF Next, Start, Work, Shutdown, Listen, SetListener, SpawnWorker, Accept,
         AcceptClosed, Dispatch, Receive, HandlerReturns, RangeEnds, CloseListener, CloseChannel,
         WaitReturns, Dial, vars
  <2> QED
    BY <2>2, <2>3, <2>4
<1> QED
  BY <1>1, <1>2

\* When a Shutdown has returned, everything that was queued has been handled,
\* whoever else shuts down and however far Start has come (server.go 116-117).
THEOREM DrainTheorem == Spec => []DrainedOnReturn
<1>1. Init => Inv
  BY DEF Init, Inv, PlacedInv, ServingInv, QueueInv, DrainInv, Returned
<1>2. TypeInv /\ Inv /\ [Next]_vars => Inv'
  BY PlacedStep, ServingStep, QueueStep, DrainStep DEF Inv
<1>3. Inv => DrainedOnReturn
  BY DEF Inv, PlacedInv, DrainInv, Returned, DrainedOnReturn
<1> QED
  BY <1>1, <1>2, <1>3, TypeInit, TypeStep, PTL DEF Spec


-----------------------------------------------------------------------------
(* Ownership.                                                              *)

\* Whoever has a connection in hand has it alone: the accept loop, one place
\* of the queue, or one worker, as its phase says.
HeldInv ==
    /\ \A c \in Conn : phase[c] = "accepted" <=> accepted = c
    /\ \A i \in 1..Len(connCh) : phase[connCh[i]] = "queued"
    /\ \A w \in Worker : serving[w] \in Conn => phase[serving[w]] = "handling"
    /\ \A i, j \in 1..Len(connCh) : connCh[i] = connCh[j] => i = j
    /\ \A w, v \in Worker : serving[w] = serving[v] /\ serving[w] \in Conn => w = v

OwnerInv == panicked = "no" => HeldInv

LEMMA OwnerStep == TypeInv /\ OwnerInv /\ [Next]_vars => OwnerInv'
<1> SUFFICES ASSUME TypeInv, HeldInv, Next PROVE HeldInv' \/ panicked' # "no"
  BY DEF OwnerInv, Next, vars, HeldInv
<1>7. \A i \in 1..Len(connCh) : connCh[i] \in Conn
  <2>1. connCh \in Seq(Conn)
    BY DEF TypeInv, TypeOK
  <2> QED
    BY <2>1
<1>8. \A w \in Worker : serving[w] # NoConn => serving[w] \in Conn
  BY DEF TypeInv, TypeOK
<1> USE DEF HeldInv
<1>1. CASE UNCHANGED <<phase, accepted, connCh, serving>>
  BY <1>1
<1>2. ASSUME NEW c \in Conn, Accept(c) PROVE HeldInv'
  <2>1. accepted = NoConn /\ phase[c] = "dialed"
    BY <1>2 DEF Accept, TypeInv, HoldsInv
  <2>2. /\ accepted' = c /\ phase' = [phase EXCEPT ![c] = "accepted"]
        /\ UNCHANGED <<connCh, serving>>
    BY <1>2 DEF Accept
  <2>3. /\ \A d \in Conn : phase'[d] = "accepted" <=> accepted' = d
        /\ \A w \in Worker : serving'[w] \in Conn => phase'[serving'[w]] = "handling"
    BY <2>1, <2>2 DEF TypeInv, TypeOK
  <2>4. \A i \in 1..Len(connCh') : phase'[connCh'[i]] = "queued"
    BY <1>7, <2>1, <2>2 DEF TypeInv, TypeOK
  <2> QED
    BY <2>2, <2>3, <2>4
<1>3. ASSUME NEW c \in Conn, Dial(c) PROVE HeldInv'
  <2>1. /\ phase[c] = "new" /\ phase' = [phase EXCEPT ![c] = "dialed"]
        /\ UNCHANGED <<connCh, serving, accepted>>
    BY <1>3 DEF Dial
  <2>2. \A i \in 1..Len(connCh') : phase'[connCh'[i]] = "queued"
    BY <1>7, <2>1 DEF TypeInv, TypeOK
  <2>3. /\ \A d \in Conn : phase'[d] = "accepted" <=> accepted' = d
        /\ \A w \in Worker : serving'[w] \in Conn => phase'[serving'[w]] = "handling"
    BY <2>1 DEF TypeInv, TypeOK
  <2> QED
    BY <2>1, <2>2, <2>3
<1>4. CASE Dispatch
  <2>1. accepted \in Conn /\ accepted' = NoConn /\ phase[accepted] = "accepted" /\ UNCHANGED serving
    BY <1>4 DEF Dispatch, TypeInv, TypeOK, HoldsInv
  <2>2. CASE panicked' = "send on closed channel"
    BY <2>2
  <2>3. CASE Reject(accepted) /\ UNCHANGED connCh
    <3>1. \A i \in 1..Len(connCh') : phase'[connCh'[i]] = "queued"
      BY <1>7, <2>1, <2>3 DEF Reject, TypeInv, TypeOK
    <3>2. /\ \A d \in Conn : phase'[d] = "accepted" <=> accepted' = d
          /\ \A w \in Worker : serving'[w] \in Conn => phase'[serving'[w]] = "handling"
      BY <2>1, <2>3 DEF Reject, TypeInv, TypeOK
    <3> QED
      BY <2>1, <2>3, <3>1, <3>2
  <2>4. CASE connCh' = Append(connCh, accepted) /\ phase' = [phase EXCEPT ![accepted] = "queued"]
    <3>1. connCh \in Seq(Conn)
      BY DEF TypeInv, TypeOK
    <3>2. \A i \in 1..Len(connCh') : \/ i \in 1..Len(connCh) /\ connCh'[i] = connCh[i]
                                     \/ i = Len(connCh) + 1 /\ connCh'[i] = accepted
      BY <2>1, <2>4, <3>1
    <3>3. \A i \in 1..Len(connCh) : connCh[i] \in Conn /\ connCh[i] # accepted
      BY <2>1, <3>1
    <3>4. \A i \in 1..Len(connCh') : phase'[connCh'[i]] = "queued"
      BY <2>1, <2>4, <3>2, <3>3 DEF TypeInv, TypeOK
    <3>5. \A i, j \in 1..Len(connCh') : connCh'[i] = connCh'[j] => i = j
      BY <3>2, <3>3
    <3>6. /\ \A c \in Conn : phase'[c] = "accepted" <=> accepted' = c
          /\ \A w \in Worker : serving'[w] \in Conn => phase'[serving'[w]] = "handling"
      BY <2>1, <2>4 DEF TypeInv, TypeOK
    <3> QED
      BY <2>1, <3>4, <3>5, <3>6
  <2> QED
    BY <1>4, <2>2, <2>3, <2>4 DEF Dispatch
<1>5. ASSUME NEW w \in Worker, Receive(w) PROVE HeldInv'
  <2>1. /\ connCh \in Seq(Conn) /\ connCh # <<>>
        /\ connCh' = Tail(connCh)
        /\ phase' = [phase EXCEPT ![Head(connCh)] = "handling"]
        /\ serving' = [serving EXCEPT ![w] = Head(connCh)]
        /\ serving[w] = NoConn
        /\ UNCHANGED accepted
    BY <1>5 DEF Receive, Waiting, TypeInv, TypeOK
  <2>2. /\ Head(connCh) \in Conn /\ Head(connCh) = connCh[1]
        /\ phase[Head(connCh)] = "queued"
    BY <2>1
  <2>3. \A i \in 1..Len(connCh') : /\ i + 1 \in 1..Len(connCh) /\ i \in Int
                                   /\ connCh'[i] = connCh[i + 1] /\ connCh'[i] \in Conn
    BY <2>1
  <2>4. \A i \in 1..Len(connCh') : connCh'[i] # Head(connCh) /\ phase[connCh'[i]] = "queued"
    BY <2>1, <2>2, <2>3
  <2>5. \A i \in 1..Len(connCh') : phase'[connCh'[i]] = "queued"
    BY <2>1, <2>2, <2>3, <2>4 DEF TypeInv, TypeOK
  <2>6. \A i, j \in 1..Len(connCh') : connCh'[i] = connCh'[j] => i = j
    BY <2>3
  <2>7. /\ \A c \in Conn : phase'[c] = "accepted" <=> accepted' = c
        /\ \A u \in Worker : serving'[u] \in Conn => phase'[serving'[u]] = "handling"
    BY <2>1, <2>2 DEF TypeInv, TypeOK
  <2>8. \A u, v \in Worker : serving'[u] = serving'[v] /\ serving'[u] \in Conn => u = v
    BY <2>1, <2>2 DEF TypeInv, TypeOK
  <2> QED
    BY <2>5, <2>6, <2>7, <2>8
<1>6. ASSUME NEW w \in Worker, HandlerReturns(w) PROVE HeldInv'
  <2>1. /\ phase' = [phase EXCEPT ![serving[w]] = "handled"]
        /\ serving' = [serving EXCEPT ![w] = NoConn]
        /\ UNCHANGED <<connCh, accepted>>
    BY <1>6 DEF HandlerReturns
  <2>9. serving[w] \in Conn
    BY <1>8, <1>6 DEF HandlerReturns
  <2>0. phase[serving[w]] = "handling"
    BY <2>9
  <2>2. \A i \in 1..Len(connCh') : phase'[connCh'[i]] = "queued"
    BY <1>7, <2>0, <2>1, <2>9 DEF TypeInv, TypeOK
  <2>3. /\ \A c \in Conn : phase'[c] = "accepted" <=> accepted' = c
        /\ \A u \in Worker : serving'[u] \in Conn => phase'[serving'[u]] = "handling"
        /\ \A u, v \in Worker : serving'[u] = serving'[v] /\ serving'[u] \in Conn => u = v
    BY <2>0, <2>1, <2>9 DEF TypeInv, TypeOK
  <2> QED
    BY <2>1, <2>2, <2>3
<1> QED
  BY <1>1, <1>2, <1>3, <1>4, <1>5, <1>6
     DEF Next, Start, Work, Shutdown, Listen, SetListener, SpawnWorker, AcceptClosed, RangeEnds,
         CloseListener, CloseChannel, WaitReturns

\* How many there are of what is there at most once.
LEMMA AtMostOne ==
  ASSUME NEW T, \A x, y \in T : x = y
  PROVE  IsFiniteSet(T) /\ Cardinality(T) = IF T = {} THEN 0 ELSE 1
<1>1. CASE T = {}
  BY <1>1, FS_EmptySet
<1>2. CASE T # {}
  <2>1. PICK x \in T : TRUE
    BY <1>2
  <2>2. T = {x}
    BY <2>1
  <2> QED
    BY <1>2, <2>2, FS_Singleton
<1> QED
  BY <1>1, <1>2

LEMMA CountOfOwner == TypeInv /\ PlacedInv /\ OwnerInv => OneOwner
<1> SUFFICES ASSUME TypeInv, PlacedInv, HeldInv, NEW c \in Conn
             PROVE  Count(c) = IF phase[c] \in {"accepted", "queued", "handling"} THEN 1 ELSE 0
  BY DEF OwnerInv, OneOwner
<1> DEFINE W == {w \in Worker : serving[w] = c}
           Q == {i \in 1..Len(connCh) : connCh[i] = c}
<1>1. W = {} <=> phase[c] # "handling"
  BY DEF PlacedInv, HeldInv
<1>2. Q = {} <=> phase[c] # "queued"
  BY DEF PlacedInv, HeldInv
<1>3. accepted = c <=> phase[c] = "accepted"
  BY DEF HeldInv
<1>4. Cardinality(W) = IF W = {} THEN 0 ELSE 1
  <2>1. \A x, y \in W : x = y
    BY DEF HeldInv
  <2> QED
    BY <2>1, AtMostOne
<1>5. Cardinality(Q) = IF Q = {} THEN 0 ELSE 1
  <2>1. \A x, y \in Q : x = y
    BY DEF HeldInv
  <2> QED
    BY <2>1, AtMostOne
<1>6. Count(c) = Cardinality(W) + Cardinality(Q) + (IF accepted = c THEN 1 ELSE 0)
  BY DEF Count
<1> HIDE DEF W, Q
<1> QED
  BY <1>1, <1>2, <1>3, <1>4, <1>5, <1>6

\* A connection is in exactly one pair of hands from its Accept to its Close
\* (server.go 61-63, 86-91).
THEOREM OwnerTheorem == Spec => []OneOwner
<1>1. Init => PlacedInv /\ ServingInv /\ OwnerInv
  BY DEF Init, PlacedInv, ServingInv, OwnerInv, HeldInv, WorkerPoolAssumption
<1> QED
  BY <1>1, TypeInit, TypeStep, PlacedStep, ServingStep, OwnerStep, CountOfOwner, PTL DEF Spec

-----------------------------------------------------------------------------
(* The ceiling.                                                            *)

\* The accept loop holds one connection at a time, and after a panic too it
\* has left at most one in its hands.
AloneInv == \A c, d \in Conn : phase[c] = "accepted" /\ phase[d] = "accepted" => c = d

LEMMA AloneStep == TypeInv /\ OwnerInv /\ AloneInv /\ [Next]_vars => AloneInv'
<1> SUFFICES ASSUME TypeInv, HeldInv, AloneInv, Next PROVE AloneInv'
  BY DEF OwnerInv, Next, vars, AloneInv
<1>1. ASSUME NEW c \in Conn, Accept(c) PROVE AloneInv'
  <2>1. accepted = NoConn /\ phase' = [phase EXCEPT ![c] = "accepted"]
    BY <1>1 DEF Accept, TypeInv, HoldsInv
  <2>2. \A d \in Conn : phase[d] # "accepted"
    BY <2>1 DEF HeldInv
  <2> QED
    BY <2>1, <2>2 DEF AloneInv, TypeInv, TypeOK
<1>2. CASE \A c \in Conn : phase'[c] = "accepted" => phase[c] = "accepted"
  BY <1>2 DEF AloneInv
<1>3. ASSUME NEW w \in Worker, Receive(w) PROVE phase' = [phase EXCEPT ![Head(connCh)] = "handling"]
  BY <1>3 DEF Receive
<1>4. ASSUME NEW w \in Worker, HandlerReturns(w) PROVE phase' = [phase EXCEPT ![serving[w]] = "handled"]
  BY <1>4 DEF HandlerReturns
<1>5. ASSUME NEW c \in Conn, Dial(c) PROVE phase' = [phase EXCEPT ![c] = "dialed"]
  BY <1>5 DEF Dial
<1>6. ASSUME Dispatch
      PROVE  \/ phase' = [phase EXCEPT ![accepted] = "queued"]
             \/ phase' = [phase EXCEPT ![accepted] = "rejected"]
             \/ UNCHANGED phase
  BY <1>6 DEF Dispatch, Reject
<1>7. ASSUME NEW c, NEW v \in {"queued", "handling", "handled", "dialed", "rejected"},
             phase' = [phase EXCEPT ![c] = v]
      PROVE  AloneInv'
  BY <1>2, <1>7 DEF TypeInv, TypeOK
<1> QED
  BY <1>1, <1>2, <1>3, <1>4, <1>5, <1>6, <1>7
     DEF Next, Start, Work, Shutdown, Listen, SetListener, SpawnWorker, AcceptClosed, RangeEnds,
         CloseListener, CloseChannel, WaitReturns

\* An interval from 1 on is as large as its end.
LEMMA UpTo ==
  ASSUME NEW n \in Nat
  PROVE  IsFiniteSet(1..n) /\ Cardinality(1..n) = n
<1>1. 1 \in Int /\ n \in Int
  OBVIOUS
<1>2. /\ IsFiniteSet(1..n)
      /\ Cardinality(1..n) = IF 1 > n THEN 0 ELSE n - 1 + 1
  BY <1>1, FS_Interval
<1> QED
  BY <1>2

\* What two sets without a common element amount to.
LEMMA DisjointUnion ==
  ASSUME NEW S, NEW T, IsFiniteSet(S), IsFiniteSet(T), S \cap T = {}
  PROVE  IsFiniteSet(S \cup T) /\ Cardinality(S \cup T) = Cardinality(S) + Cardinality(T)
<1>1. /\ IsFiniteSet(S \cup T)
      /\ Cardinality(S \cup T) = Cardinality(S) + Cardinality(T) - Cardinality(S \cap T)
  BY FS_Union
<1>2. Cardinality(S \cap T) = 0 /\ Cardinality(S) \in Nat /\ Cardinality(T) \in Nat
  BY FS_EmptySet, FS_CardinalityType
<1> QED
  BY <1>1, <1>2

LEMMA Ceiling == TypeInv /\ PlacedInv /\ AloneInv => ResourceCeiling
<1> SUFFICES ASSUME TypeInv, PlacedInv, AloneInv PROVE ResourceCeiling
  OBVIOUS
<1> DEFINE A == {c \in Conn : phase[c] = "accepted"}
           Q == {c \in Conn : phase[c] = "queued"}
           H == {c \in Conn : phase[c] = "handling"}
           W == {w \in Worker : serving[w] \in H}
           P == {i \in 1..Len(connCh) : connCh[i] \in Q}
<1>1. IsFiniteSet(A) /\ Cardinality(A) \in 0..1
  <2>1. \A x, y \in A : x = y
    BY DEF AloneInv
  <2> QED
    BY <2>1, AtMostOne
<1>2. IsFiniteSet(Q) /\ Cardinality(Q) <= QueueSize /\ Cardinality(Q) \in Nat
  <2>1. Len(connCh) \in Nat /\ Len(connCh) <= QueueSize
    <3>1. connCh \in Seq(Conn) /\ Len(connCh) <= QueueSize
      BY DEF TypeInv, TypeOK
    <3> QED
      BY <3>1
  <2>2. [i \in P |-> connCh[i]] \in Surjection(P, Q)
    <3> DEFINE f == [i \in P |-> connCh[i]]
    <3>1. \A c \in Q : \E i \in P : connCh[i] = c
      BY DEF PlacedInv
    <3>2. \A c \in Q : \E i \in P : f[i] = c
      BY <3>1
    <3>3. f \in [P -> Q]
      OBVIOUS
    <3> HIDE DEF P, Q, f
    <3>4. f \in Surjection(P, Q)
      BY <3>2, <3>3 DEF Surjection
    <3> QED
      BY <3>4 DEF f
  <2>3. IsFiniteSet(1..Len(connCh)) /\ Cardinality(1..Len(connCh)) <= QueueSize
    BY <2>1, UpTo
  <2>4. IsFiniteSet(P) /\ Cardinality(P) <= Cardinality(1..Len(connCh))
    BY <2>3, FS_Subset
  <2>5. IsFiniteSet(Q) /\ Cardinality(Q) <= Cardinality(P)
    BY <2>2, <2>4, FS_Surjection
  <2> QED
    BY <2>3, <2>4, <2>5, FS_CardinalityType
<1>3. IsFiniteSet(H) /\ Cardinality(H) <= Cardinality(Worker) /\ Cardinality(H) \in Nat
  <2>1. [w \in W |-> serving[w]] \in Surjection(W, H)
    BY DEF PlacedInv, Surjection
  <2>2. IsFiniteSet(Worker)
    BY WorkerPoolAssumption
  <2>3. IsFiniteSet(W) /\ Cardinality(W) <= Cardinality(Worker)
    BY <2>2, FS_Subset
  <2>4. IsFiniteSet(H) /\ Cardinality(H) <= Cardinality(W)
    BY <2>1, <2>3, FS_Surjection
  <2> QED
    BY <2>2, <2>3, <2>4, FS_CardinalityType
<1>4. A \cap Q = {} /\ (A \cup Q) \cap H = {}
  OBVIOUS
<1>5. {c \in Conn : phase[c] \in {"accepted", "queued", "handling"}} = (A \cup Q) \cup H
  OBVIOUS
<1> HIDE DEF A, Q, H
<1>6. IsFiniteSet(A \cup Q) /\ Cardinality(A \cup Q) = Cardinality(A) + Cardinality(Q)
  BY <1>1, <1>2, <1>4, DisjointUnion
<1>7. Cardinality((A \cup Q) \cup H) = Cardinality(A) + Cardinality(Q) + Cardinality(H)
  BY <1>3, <1>4, <1>6, DisjointUnion
<1>8. Cardinality((A \cup Q) \cup H) <= Cardinality(Worker) + QueueSize + 1
  BY <1>1, <1>2, <1>3, <1>7, WorkerPoolAssumption, FS_CardinalityType
<1> QED
  BY <1>5, <1>8 DEF ResourceCeiling, TypeInv

\* Whatever clients do, no more connections are open than the workers, the
\* queue and the accept loop can hold (server.go 58-65, 86-91).
THEOREM CeilingTheorem == Spec => []ResourceCeiling
<1>1. Init => PlacedInv /\ ServingInv /\ OwnerInv /\ AloneInv
  BY DEF Init, PlacedInv, ServingInv, OwnerInv, HeldInv, AloneInv, WorkerPoolAssumption
<1> QED
  BY <1>1, TypeInit, TypeStep, PlacedStep, ServingStep, OwnerStep, AloneStep, Ceiling, PTL DEF Spec

=============================================================================
