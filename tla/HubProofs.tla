-------------------------------- MODULE HubProofs --------------------------------
(***************************************************************************)
(* Theorems about Hub for any clients, rooms, channel capacity and number  *)
(* of messages.                                                            *)
(***************************************************************************)
EXTENDS Hub, SequenceTheorems, TLAPS

\* What the proofs use of the constants.
LEMMA ConstantTypes ==
  SendCap \in Nat /\ RoomOf \in [Client -> Room] /\ MaxMessages \in [Client -> Nat]
  BY HubAssumption

USE ConstantTypes DEF hubVars, chanVars, pumpVars, history, vars

-----------------------------------------------------------------------------
(* Types.                                                                  *)

\* Whoever has a message in hand has one.
HandsInv ==
    /\ fanout # {} => message \in Message
    /\ \A c \in Client : readPc[c] = "broadcast" => <<c, sent[c]>> \in Message
    /\ \A c \in Client : writePc[c] = "write" => writing[c] \in Message

TypeInv == TypeOK /\ HandsInv

\* The n-th message of a client.
LEMMA MessageOf ==
  ASSUME NEW c \in Client, NEW n \in 1..MaxMessages[c]
  PROVE  <<c, n>> \in Message
  BY DEF Message

\* What a send and a receive leave in a channel.
LEMMA SendAppend ==
  ASSUME NEW q \in Seq(Message), NEW m \in Message, Len(q) <= SendCap, ~(Len(q) >= SendCap)
  PROVE  Append(q, m) \in Seq(Message) /\ Len(Append(q, m)) <= SendCap
  OBVIOUS

LEMMA SendTail ==
  ASSUME NEW q \in Seq(Message), q # <<>>, Len(q) <= SendCap
  PROVE  Head(q) \in Message /\ Tail(q) \in Seq(Message) /\ Len(Tail(q)) <= SendCap
<1>1. Len(q) \in Nat /\ Len(Tail(q)) = Len(q) - 1
  OBVIOUS
<1> QED
  BY <1>1

LEMMA TypeInit == Init => TypeInv
<1> SUFFICES ASSUME Init PROVE TypeInv
  OBVIOUS
<1>1. send \in [Client -> Seq(Message)] /\ \A c \in Client : Len(send[c]) <= SendCap
  BY DEF Init
<1>2. /\ received \in [Client -> Seq(Message)]
      /\ writing \in [Client -> Message \cup {NoMessage}]
      /\ \A c \in Client : writePc[c] # "write"
  BY DEF Init
<1>3. roomLog \in [Room -> Seq(Message)]
  BY DEF Init
<1>4. sent \in [Client -> Nat] /\ \A c \in Client : sent[c] <= MaxMessages[c]
  BY DEF Init
<1> QED
  BY <1>1, <1>2, <1>3, <1>4 DEF Init, TypeInv, TypeOK, HandsInv

LEMMA TypeStep == TypeInv /\ [Next]_vars => TypeInv'
<1> SUFFICES ASSUME TypeInv, [Next]_vars PROVE TypeInv'
  OBVIOUS
<1> USE DEF TypeInv, TypeOK, HandsInv
<1>1. ASSUME NEW c \in Client, Connect(c) PROVE TypeInv'
  BY <1>1 DEF Connect
<1>2. ASSUME NEW c \in Client, Register(c) PROVE TypeInv'
  <2>1. Len(roomLog[RoomOf[c]]) \in Nat
    BY DEF TypeInv
  <2> QED
    BY <1>2, <2>1 DEF Register
<1>3. ASSUME NEW c \in Client, ReadMessage(c) PROVE TypeInv'
  <2>1. /\ sent[c] + 1 \in 1..MaxMessages[c]
        /\ sent' = [sent EXCEPT ![c] = @ + 1]
        /\ readPc' = [readPc EXCEPT ![c] = "broadcast"]
    BY <1>3 DEF ReadMessage
  <2>2. <<c, sent[c] + 1>> \in Message
    BY <2>1, MessageOf
  <2>3. \A d \in Client : readPc'[d] = "broadcast" => <<d, sent'[d]>> \in Message
    BY <2>1, <2>2
  <2> QED
    BY <1>3, <2>1, <2>3 DEF ReadMessage
<1>4. ASSUME NEW c \in Client, ReadError(c) PROVE TypeInv'
  BY <1>4 DEF ReadError
<1>5. ASSUME NEW c \in Client, Broadcast(c) PROVE TypeInv'
  <2>1. <<c, sent[c]>> \in Message
    BY <1>5 DEF Broadcast
  <2>2. roomLog' \in [Room -> Seq(Message)]
    BY <1>5, <2>1 DEF Broadcast
  <2>3. fanout' \subseteq Client
    BY <1>5 DEF Broadcast, Recipients, Members
  <2> QED
    BY <1>5, <2>1, <2>2, <2>3 DEF Broadcast
<1>6. ASSUME NEW c \in Client, Fanout(c) PROVE TypeInv'
  <2>1. message \in Message
    BY <1>6 DEF Fanout
  <2>2. send' \in [Client -> Seq(Message)] /\ \A d \in Client : Len(send'[d]) <= SendCap
    <3>1. \/ UNCHANGED send
          \/ ~Full(c) /\ send' = [send EXCEPT ![c] = Append(@, message)]
      BY <1>6 DEF Fanout
    <3>2. ASSUME ~Full(c)
          PROVE  Append(send[c], message) \in Seq(Message) /\ Len(Append(send[c], message)) <= SendCap
      BY <2>1, <3>2, SendAppend DEF Full
    <3> QED
      BY <3>1, <3>2
  <2>3. clients' \subseteq clients /\ closed' \in [Client -> BOOLEAN] /\ panicked' \in BOOLEAN
    BY <1>6 DEF Fanout, Drop
  <2> QED
    BY <1>6, <2>2, <2>3 DEF Fanout
<1>7. ASSUME NEW c \in Client, Unregister(c) PROVE TypeInv'
  <2>1. clients' \subseteq clients /\ closed' \in [Client -> BOOLEAN]
    BY <1>7 DEF Unregister, Drop
  <2>2. panicked' \in BOOLEAN
    BY <1>7 DEF Unregister
  <2> QED
    BY <1>7, <2>1, <2>2 DEF Unregister
<1>8. ASSUME NEW c \in Client, ReadClose(c) PROVE TypeInv'
  BY <1>8 DEF ReadClose
<1>9. ASSUME NEW c \in Client, Take(c) PROVE TypeInv'
  <2>1. /\ Head(send[c]) \in Message
        /\ Tail(send[c]) \in Seq(Message)
        /\ Len(Tail(send[c])) <= SendCap
    BY <1>9, SendTail DEF Take
  <2>2. send' \in [Client -> Seq(Message)] /\ \A d \in Client : Len(send'[d]) <= SendCap
    BY <1>9, <2>1 DEF Take
  <2>3. /\ writing' \in [Client -> Message \cup {NoMessage}]
        /\ \A d \in Client : writePc'[d] = "write" => writing'[d] \in Message
    BY <1>9, <2>1 DEF Take
  <2> QED
    BY <1>9, <2>2, <2>3 DEF Take
<1>10. ASSUME NEW c \in Client, RangeEnds(c) PROVE TypeInv'
  BY <1>10 DEF RangeEnds
<1>11. ASSUME NEW c \in Client, WriteMessage(c) PROVE TypeInv'
  <2>1. Append(received[c], writing[c]) \in Seq(Message)
    BY <1>11 DEF WriteMessage
  <2> QED
    BY <1>11, <2>1 DEF WriteMessage
<1>12. ASSUME NEW c \in Client, WriteError(c) \/ WriteClose(c) PROVE TypeInv'
  <2>1. CASE WriteError(c)
    BY <2>1 DEF WriteError
  <2>2. CASE WriteClose(c)
    BY <2>2 DEF WriteClose
  <2> QED
    BY <1>12, <2>1, <2>2
<1>13. ASSUME NEW c \in Client, PeerGone(c) PROVE TypeInv'
  BY <1>13 DEF PeerGone
<1>14. CASE UNCHANGED vars
  BY <1>14
<1> QED
  BY <1>1, <1>2, <1>3, <1>4, <1>5, <1>6, <1>7, <1>8, <1>9, <1>10, <1>11, <1>12, <1>13, <1>14
     DEF Next, ServeWs, HubStep, ReadPump, WritePump

-----------------------------------------------------------------------------
(* Channels.                                                               *)

\* The hub holds the channels of its clients, and of those it is handing a
\* message to, open: a client whose channel was closed has left the map, and
\* it does not come back.
OpenInv ==
    /\ fanout \subseteq clients
    /\ \A c \in clients : ~closed[c] /\ readPc[c] # "none"
    /\ \A c \in Client : closed[c] => readPc[c] # "none"
    /\ ~panicked

LEMMA OpenStep == TypeOK /\ OpenInv /\ [Next]_vars => OpenInv'
<1> SUFFICES ASSUME TypeOK, OpenInv, [Next]_vars PROVE OpenInv'
  OBVIOUS
<1> USE DEF OpenInv
<1>1. ASSUME NEW c \in Client, Register(c) PROVE OpenInv'
  BY <1>1 DEF Register, TypeOK, AtSelect
<1>2. ASSUME NEW c \in Client, Broadcast(c) PROVE OpenInv'
  BY <1>2 DEF Broadcast, Recipients, Members, TypeOK
<1>3. ASSUME NEW c \in Client, Fanout(c) PROVE OpenInv'
  <2>1. ~closed[c] /\ c \in fanout
    BY <1>3 DEF Fanout
  <2>2. /\ fanout' = fanout \ {c} /\ UNCHANGED <<panicked, readPc>>
        /\ UNCHANGED <<closed, clients>> \/ Drop(c)
    BY <1>3, <2>1 DEF Fanout
  <2> QED
    BY <2>1, <2>2 DEF Drop, TypeOK
<1>4. ASSUME NEW c \in Client, Unregister(c) PROVE OpenInv'
  <2>1. fanout = {} /\ UNCHANGED fanout /\ readPc' = [readPc EXCEPT ![c] = "close"]
    BY <1>4 DEF Unregister, AtSelect
  <2>2. ~panicked' /\ (UNCHANGED <<clients, closed>> \/ Drop(c))
    <3>1. CASE c \in clients
      <4>1. Drop(c) /\ panicked' = (panicked \/ closed[c])
        BY <1>4, <3>1, Zenon DEF Unregister, StillRegistered
      <4>2. ~closed[c] /\ ~panicked
        BY <3>1
      <4> QED
        BY <4>1, <4>2, Zenon
    <3>2. CASE c \notin clients
      <4>1. UNCHANGED <<clients, closed, panicked>>
        BY <1>4, <3>2, Zenon DEF Unregister, StillRegistered
      <4>2. UNCHANGED panicked /\ UNCHANGED clients /\ UNCHANGED closed
        BY <4>1, Zenon
      <4>3. ~panicked'
        BY <4>2
      <4> QED
        BY <4>2, <4>3, Zenon
    <3> QED
      BY <3>1, <3>2
  <2>3. readPc[c] = "unregister"
    BY <1>4 DEF Unregister
  <2> QED
    BY <2>1, <2>2, <2>3 DEF Drop, TypeOK
<1>5. ASSUME NEW c \in Client, ReadPump(c) PROVE OpenInv'
  BY <1>5 DEF ReadPump, ReadMessage, ReadError, ReadClose, TypeOK
<1>6. CASE UNCHANGED <<clients, fanout, closed, readPc, panicked>>
  BY <1>6
<1> QED
  BY <1>1, <1>2, <1>3, <1>4, <1>5, <1>6
     DEF Next, ServeWs, HubStep, WritePump, Connect, PeerGone, Take, RangeEnds, WriteMessage,
         WriteError, WriteClose

\* No goroutine sends on a closed channel or closes it again, and every value
\* has its type (hub.go 47-53, 65-73).
THEOREM NoPanicTheorem == Spec => []NoPanic
<1>1. Init => OpenInv
  BY DEF Init, OpenInv
<1>2. TypeInv /\ OpenInv => NoPanic
  BY DEF TypeInv, OpenInv, NoPanic
<1>3. TypeInv => TypeOK
  BY DEF TypeInv
<1> QED
  BY <1>1, <1>2, <1>3, TypeInit, TypeStep, OpenStep, PTL DEF Spec

-----------------------------------------------------------------------------
(* Streams.                                                                *)

\* Taking a message from the channel and writing it leave the stream as it is,
\* a send extends it.
LEMMA StreamTake ==
  ASSUME NEW r \in Seq(Message), NEW q \in Seq(Message), q # <<>>
  PROVE  (r \o <<Head(q)>>) \o Tail(q) = (r \o <<>>) \o q
<1>1. Head(q) \in Message /\ Tail(q) \in Seq(Message) /\ <<Head(q)>> \in Seq(Message)
  BY HeadTailProperties
<1>2. <<Head(q)>> \o Tail(q) = q
  BY <1>1
<1>3. (r \o <<Head(q)>>) \o Tail(q) = r \o (<<Head(q)>> \o Tail(q))
  BY <1>1, ConcatAssociative
<1>4. r \o <<>> = r
  BY ConcatEmptySeq
<1> QED
  BY <1>2, <1>3, <1>4

LEMMA StreamWrite ==
  ASSUME NEW r \in Seq(Message), NEW q \in Seq(Message), NEW w \in Message
  PROVE  (Append(r, w) \o <<>>) \o q = (r \o <<w>>) \o q
<1>1. Append(r, w) = r \o <<w>> /\ Append(r, w) \in Seq(Message)
  BY AppendIsConcat, AppendProperties
<1>2. Append(r, w) \o <<>> = Append(r, w)
  BY <1>1, ConcatEmptySeq
<1> QED
  BY <1>1, <1>2

LEMMA StreamSend ==
  ASSUME NEW r \in Seq(Message), NEW q \in Seq(Message), NEW m \in Message
  PROVE  r \o Append(q, m) = Append(r \o q, m)
<1>1. Append(q, m) = q \o <<m>> /\ <<m>> \in Seq(Message)
  BY AppendIsConcat
<1>2. r \o (q \o <<m>>) = (r \o q) \o <<m>>
  BY <1>1, ConcatAssociative
<1>3. r \o q \in Seq(Message)
  BY ConcatProperties
<1> QED
  BY <1>1, <1>2, <1>3, AppendIsConcat

\* Being a prefix, place by place.
LEMMA PrefixByPlace ==
  ASSUME NEW S, NEW s \in Seq(S), NEW t \in Seq(S), NEW j \in Nat, j <= Len(t),
         Len(s) <= Len(t) - j, \A i \in 1..Len(s) : s[i] = t[j + i]
  PROVE  /\ IsPrefix(s, SubSeq(t, j + 1, Len(t)))
         /\ Len(SubSeq(t, j + 1, Len(t))) = Len(t) - j
<1> DEFINE u == SubSeq(t, j + 1, Len(t))
<1>1. Len(s) \in Nat /\ Len(t) \in Nat
  OBVIOUS
<1>2. /\ u \in Seq(S)
      /\ Len(u) = Len(t) - j
      /\ \A i \in 1..Len(t) - j : u[i] = t[j + i]
  <2>1. \A i \in j + 1 .. Len(t) : t[i] \in S
    BY <1>1, ElementOfSeq
  <2>2. /\ u \in Seq(S)
        /\ Len(u) = IF j + 1 <= Len(t) THEN Len(t) - (j + 1) + 1 ELSE 0
        /\ \A i \in 1 .. Len(t) - (j + 1) + 1 : u[i] = t[j + 1 + i - 1]
    BY <1>1, <2>1, SubSeqProperties
  <2> QED
    BY <1>1, <2>2
<1> HIDE DEF u
<1>3. /\ Len(SubSeq(s, 1, Len(s))) = Len(s)
      /\ SubSeq(s, 1, Len(s)) = s
  BY SubSeqFull
<1>4. SubSeq(u, 1, Len(s)) = s
  <2>1. \A i \in 1..Len(s) : i \in 1..Len(u) /\ u[i] = s[i]
    BY <1>1, <1>2
  <2>2. \A i \in 1..Len(s) : u[i] \in S
    BY <1>2, <2>1, ElementOfSeq
  <2>3. /\ SubSeq(u, 1, Len(s)) \in Seq(S)
        /\ Len(SubSeq(u, 1, Len(s))) = IF 1 <= Len(s) THEN Len(s) - 1 + 1 ELSE 0
        /\ \A i \in 1 .. Len(s) - 1 + 1 : SubSeq(u, 1, Len(s))[i] = u[1 + i - 1]
    BY <1>1, <2>2, SubSeqProperties
  <2>4. Len(SubSeq(u, 1, Len(s))) = Len(s)
    BY <1>1, <2>3
  <2>5. \A i \in 1..Len(s) : SubSeq(u, 1, Len(s))[i] = s[i]
    BY <1>1, <2>1, <2>3
  <2> QED
    BY <2>3, <2>4, <2>5, SeqEqual
<1> QED
  BY <1>1, <1>2, <1>3, <1>4 DEF IsPrefix, u

\* A client that has not registered is new, and a pump that waits has nothing
\* in hand.
FreshInv ==
    \A c \in Client :
        /\ readPc[c] = "none" =>
              /\ received[c] = <<>> /\ writing[c] = NoMessage /\ send[c] = <<>>
              /\ writePc[c] = "none"
        /\ writePc[c] = "range" => writing[c] = NoMessage

LEMMA FreshStep == TypeInv /\ OpenInv /\ FreshInv /\ [Next]_vars => FreshInv'
<1> SUFFICES ASSUME TypeInv, OpenInv, FreshInv, [Next]_vars PROVE FreshInv'
  OBVIOUS
<1> USE DEF FreshInv, TypeInv, TypeOK
<1>1. ASSUME NEW c \in Client, Register(c) PROVE FreshInv'
  BY <1>1 DEF Register
<1>2. ASSUME NEW c \in Client, ReadPump(c) PROVE FreshInv'
  BY <1>2 DEF ReadPump, ReadMessage, ReadError, ReadClose
<1>3. ASSUME NEW c \in Client, Broadcast(c) PROVE FreshInv'
  BY <1>3 DEF Broadcast
<1>4. ASSUME NEW c \in Client, Fanout(c) PROVE FreshInv'
  <2>1. readPc[c] # "none"
    BY <1>4 DEF Fanout, OpenInv
  <2>2. /\ UNCHANGED <<readPc, writePc, received, writing>>
        /\ \/ UNCHANGED send
           \/ send' = [send EXCEPT ![c] = Append(@, message)]
    BY <1>4 DEF Fanout
  <2> QED
    BY <2>1, <2>2
<1>5. ASSUME NEW c \in Client, Unregister(c) PROVE FreshInv'
  BY <1>5 DEF Unregister
<1>6. ASSUME NEW c \in Client, Take(c) PROVE FreshInv'
  BY <1>6 DEF Take
<1>7. ASSUME NEW c \in Client, WriteMessage(c) PROVE FreshInv'
  BY <1>7 DEF WriteMessage
<1>8. ASSUME NEW c \in Client, RangeEnds(c) PROVE FreshInv'
  BY <1>8 DEF RangeEnds
<1>9. ASSUME NEW c \in Client, WriteError(c) PROVE FreshInv'
  BY <1>9 DEF WriteError
<1>10. ASSUME NEW c \in Client, WriteClose(c) PROVE FreshInv'
  BY <1>10 DEF WriteClose
<1>11. CASE UNCHANGED <<readPc, writePc, received, writing, send>>
  BY <1>11
<1> QED
  BY <1>1, <1>2, <1>3, <1>4, <1>5, <1>6, <1>7, <1>8, <1>9, <1>10, <1>11
     DEF Next, ServeWs, HubStep, WritePump, Connect, PeerGone

\* What the room has logged since a client registered is its stream, and the
\* one message more that the hub has yet to hand it.
Log(c) == roomLog[RoomOf[c]]
Owed(c) == IF c \in fanout THEN 1 ELSE 0
Writes(c) == writePc[c] \in {"range", "write"}

Followed(c) ==
    /\ Len(Stream(c)) <= Len(Log(c)) - joinedAt[c]
    /\ \A i \in 1..Len(Stream(c)) : Stream(c)[i] = Log(c)[joinedAt[c] + i]
    /\ c \in clients => Len(Log(c)) - joinedAt[c] - Len(Stream(c)) = Owed(c)

Streams(c) ==
    /\ joinedAt[c] <= Len(Log(c))
    /\ c \in fanout => Len(Log(c)) > 0 /\ Log(c)[Len(Log(c))] = message
    /\ Writes(c) => Followed(c)

StreamInv == \A c \in Client : Streams(c)

LEMMA StreamType ==
  ASSUME TypeInv, NEW c \in Client
  PROVE  /\ Stream(c) \in Seq(Message) /\ Len(Stream(c)) \in Nat
         /\ Log(c) \in Seq(Message) /\ Len(Log(c)) \in Nat
         /\ Taken(c) \in Seq(Message) /\ received[c] \o Taken(c) \in Seq(Message)
         /\ joinedAt[c] \in Nat
<1>1. /\ received[c] \in Seq(Message) /\ send[c] \in Seq(Message)
      /\ writing[c] \in Message \cup {NoMessage}
      /\ joinedAt[c] \in Nat
      /\ roomLog[RoomOf[c]] \in Seq(Message)
  BY DEF TypeInv, TypeOK
<1>2. Taken(c) \in Seq(Message)
  BY <1>1 DEF Taken
<1>3. received[c] \o Taken(c) \in Seq(Message)
  BY <1>1, <1>2, ConcatProperties
<1>4. Stream(c) \in Seq(Message)
  BY <1>1, <1>3, ConcatProperties DEF Stream
<1> QED
  BY <1>1, <1>2, <1>3, <1>4 DEF Log

LEMMA StreamSame ==
  ASSUME NEW c \in Client, received'[c] = received[c], writing'[c] = writing[c],
         send'[c] = send[c]
  PROVE  Stream(c)' = Stream(c)
  BY DEF Stream, Taken

\* Steps that leave a client's stream and the log of its room alone.
LEMMA StreamKept ==
  ASSUME NEW c \in Client, Streams(c),
         Stream(c)' = Stream(c), Log(c)' = Log(c), UNCHANGED <<joinedAt, message>>,
         c \in fanout' => c \in fanout,
         c \in clients' => c \in clients /\ (c \in fanout => c \in fanout'),
         Writes(c)' => Writes(c)
  PROVE  Streams(c)'
<1>1. joinedAt'[c] = joinedAt[c] /\ message' = message
  OBVIOUS
<1>2. joinedAt'[c] <= Len(Log(c)')
  BY <1>1 DEF Streams
<1>3. c \in fanout' => Len(Log(c)') > 0 /\ Log(c)'[Len(Log(c)')] = message'
  BY <1>1 DEF Streams
<1>4. Writes(c)' => Followed(c)'
  BY <1>1 DEF Streams, Followed, Owed
<1> QED
  BY <1>2, <1>3, <1>4 DEF Streams

LEMMA StreamStep ==
  TypeInv /\ TypeInv' /\ OpenInv /\ FreshInv /\ StreamInv /\ [Next]_vars => StreamInv'
<1> SUFFICES ASSUME TypeInv, TypeInv', OpenInv, FreshInv, StreamInv, [Next]_vars,
                    NEW d \in Client
             PROVE  Streams(d)'
  BY DEF StreamInv
<1>1. Streams(d)
  BY DEF StreamInv
<1>2. /\ received \in [Client -> Seq(Message)] /\ send \in [Client -> Seq(Message)]
      /\ writing \in [Client -> Message \cup {NoMessage}]
      /\ DOMAIN writePc = Client /\ DOMAIN roomLog = Room /\ DOMAIN joinedAt = Client
      /\ RoomOf[d] \in Room
  BY DEF TypeInv, TypeOK
<1>3. NoMessage \notin Message
  BY DEF NoMessage, Message
<1>4. ASSUME UNCHANGED <<received, writing, send, roomLog, joinedAt, message>>,
             d \in fanout' => d \in fanout,
             d \in clients' => d \in clients /\ (d \in fanout => d \in fanout'),
             Writes(d)' => Writes(d)
      PROVE  Streams(d)'
  <2>1. Stream(d)' = Stream(d) /\ Log(d)' = Log(d)
    BY <1>4 DEF Stream, Taken, Log
  <2> QED
    BY <1>1, <1>4, <2>1, StreamKept
<1>5. ASSUME NEW c \in Client, Register(c) PROVE Streams(d)'
  <2>1. fanout = {} /\ UNCHANGED <<received, writing, send, roomLog, message, fanout>>
    BY <1>5 DEF Register, AtSelect
  <2>2. CASE d = c
    <3>1. Stream(d)' = <<>> /\ Log(d)' = Log(d)
      <4>1. received[d] = <<>> /\ Taken(d) = <<>> /\ send[d] = <<>>
        BY <1>5, <2>2 DEF Register, FreshInv, Taken
      <4>2. Stream(d) = <<>>
        BY <4>1 DEF Stream
      <4> QED
        BY <2>1, <4>2 DEF Stream, Taken, Log
    <3>2. joinedAt'[d] = Len(Log(d)) /\ Len(Log(d)) \in Nat
      BY <1>2, <1>5, <2>2, StreamType DEF Register, Log
    <3>3. Len(Stream(d)') = 0 /\ Len(Log(d)') = joinedAt'[d] /\ d \notin fanout'
      BY <2>1, <3>1, <3>2
    <3>4. Followed(d)'
      BY <3>2, <3>3 DEF Followed, Owed
    <3> QED
      BY <3>2, <3>3, <3>4 DEF Streams
  <2>3. CASE d # c
    <3>1. Stream(d)' = Stream(d) /\ Log(d)' = Log(d) /\ joinedAt'[d] = joinedAt[d]
      BY <1>5, <2>1, <2>3 DEF Register, Stream, Taken, Log
    <3>2. (Writes(d)' => Writes(d)) /\ (d \in clients' => d \in clients)
      BY <1>5, <2>3 DEF Register, Writes
    <3> QED
      BY <1>1, <2>1, <3>1, <3>2 DEF Streams, Followed, Owed
  <2> QED
    BY <2>2, <2>3
<1>6. ASSUME NEW c \in Client, Broadcast(c) PROVE Streams(d)'
  <2>1. /\ fanout = {} /\ fanout' = {e \in clients : RoomOf[e] = RoomOf[c]}
        /\ message' = <<c, sent[c]>>
        /\ roomLog' = [roomLog EXCEPT ![RoomOf[c]] = Append(@, <<c, sent[c]>>)]
        /\ UNCHANGED <<clients, send, writing, received, writePc, joinedAt>>
    BY <1>6 DEF Broadcast, AtSelect, Recipients, Members
  <2>2. Stream(d)' = Stream(d) /\ joinedAt'[d] = joinedAt[d] /\ (Writes(d)' <=> Writes(d))
    BY <2>1 DEF Stream, Taken, Writes
  <2>3. Streams(d) /\ d \notin fanout
    BY <1>1, <2>1
  <2>4. CASE RoomOf[d] = RoomOf[c]
    <3>1. message' \in Message
      BY <1>6, <2>1 DEF Broadcast, TypeInv, HandsInv
    <3>2. Log(d)' = Append(Log(d), message')
      BY <1>2, <2>1, <2>4 DEF Log
    <3>3. /\ Len(Log(d)') = Len(Log(d)) + 1
          /\ \A i \in 1..Len(Log(d)) : Log(d)'[i] = Log(d)[i]
          /\ Log(d)'[Len(Log(d)) + 1] = message'
      BY <3>1, <3>2, StreamType, AppendProperties
    <3>4. Len(Log(d)) \in Nat /\ Len(Stream(d)) \in Nat /\ joinedAt[d] \in Nat
      BY StreamType
    <3>5. joinedAt'[d] <= Len(Log(d)')
      BY <2>2, <2>3, <3>3, <3>4 DEF Streams
    <3>6. d \in fanout' => Len(Log(d)') > 0 /\ Log(d)'[Len(Log(d)')] = message'
      BY <3>3, <3>4
    <3>7. ASSUME Writes(d)' PROVE Followed(d)'
      <4>1. Followed(d)
        BY <2>2, <2>3, <3>7 DEF Streams
      <4>2. Len(Stream(d)') <= Len(Log(d)') - joinedAt'[d]
        BY <2>2, <3>3, <3>4, <4>1 DEF Followed
      <4>3. \A i \in 1..Len(Stream(d)') : Stream(d)'[i] = Log(d)'[joinedAt'[d] + i]
        <5> SUFFICES ASSUME NEW i \in 1..Len(Stream(d))
                     PROVE  Stream(d)[i] = Log(d)'[joinedAt[d] + i]
          BY <2>2
        <5>1. Stream(d)[i] = Log(d)[joinedAt[d] + i] /\ Len(Stream(d)) <= Len(Log(d)) - joinedAt[d]
          BY <4>1 DEF Followed
        <5>2. joinedAt[d] + i \in 1..Len(Log(d))
          BY <3>4, <5>1
        <5> QED
          BY <3>3, <5>1, <5>2
      <4>4. d \in clients' => Owed(d)' = 1 /\ Owed(d) = 0
        BY <2>1, <2>4 DEF Owed
      <4>5. d \in clients' => Len(Log(d)') - joinedAt'[d] - Len(Stream(d)') = Owed(d)'
        BY <2>1, <2>2, <3>3, <3>4, <4>1, <4>4 DEF Followed
      <4> QED
        BY <4>2, <4>3, <4>5 DEF Followed
    <3> QED
      BY <3>5, <3>6, <3>7 DEF Streams
  <2>5. CASE RoomOf[d] # RoomOf[c]
    <3>1. Log(d)' = Log(d) /\ d \notin fanout'
      BY <1>2, <2>1, <2>5 DEF Log
    <3> QED
      BY <2>1, <2>2, <2>3, <3>1 DEF Streams, Followed, Owed
  <2> QED
    BY <2>4, <2>5
<1>7. ASSUME NEW c \in Client, Fanout(c) PROVE Streams(d)'
  <2>1. /\ c \in fanout /\ c \in clients /\ ~closed[c]
        /\ fanout' = fanout \ {c}
        /\ UNCHANGED <<message, writePc, writing, received, roomLog, joinedAt>>
    BY <1>7 DEF Fanout, OpenInv
  <2>2. \/ send' = [send EXCEPT ![c] = Append(@, message)] /\ UNCHANGED clients
        \/ UNCHANGED send /\ clients' = clients \ {c}
    BY <1>7, <2>1 DEF Fanout, Drop
  <2>3. CASE UNCHANGED send /\ clients' = clients \ {c}
    BY <1>4, <2>1, <2>3 DEF Writes
  <2>4. CASE send' = [send EXCEPT ![c] = Append(@, message)] /\ UNCHANGED clients /\ d # c
    <3>1. received'[d] = received[d] /\ writing'[d] = writing[d] /\ send'[d] = send[d]
      BY <1>2, <2>1, <2>4
    <3>2. Stream(d)' = Stream(d) /\ Log(d)' = Log(d)
      BY <2>1, <3>1, StreamSame DEF Log
    <3> QED
      BY <1>1, <2>1, <2>4, <3>2, StreamKept DEF Writes
  <2>5. CASE send' = [send EXCEPT ![c] = Append(@, message)] /\ UNCHANGED clients /\ d = c
    <3>1. message \in Message
      BY <2>1 DEF TypeInv, HandsInv
    <3>2. send'[d] = Append(send[d], message) /\ Taken(d)' = Taken(d) /\ Log(d)' = Log(d)
      BY <1>2, <2>1, <2>5 DEF Taken, Log
    <3>3. Stream(d)' = Append(Stream(d), message)
      <4>1. received[d] \o Taken(d) \in Seq(Message) /\ send[d] \in Seq(Message)
        BY <1>2, StreamType
      <4> DEFINE r == received[d] \o Taken(d)
      <4> HIDE DEF r
      <4>2. r \o Append(send[d], message) = Append(r \o send[d], message)
        BY <3>1, <4>1, StreamSend DEF r
      <4> QED
        BY <2>1, <3>2, <4>2 DEF Stream, r
    <3>4. Len(Log(d)) \in Nat /\ Len(Stream(d)) \in Nat /\ joinedAt[d] \in Nat
      BY StreamType
    <3>5. /\ Len(Stream(d)') = Len(Stream(d)) + 1
          /\ \A i \in 1..Len(Stream(d)) : Stream(d)'[i] = Stream(d)[i]
          /\ Stream(d)'[Len(Stream(d)) + 1] = message
      BY <3>1, <3>3, StreamType, AppendProperties
    <3>6. ASSUME Writes(d)' PROVE Followed(d)'
      <4>1. Followed(d) /\ Owed(d) = 1 /\ Owed(d)' = 0 /\ Log(d)[Len(Log(d))] = message
        BY <1>1, <2>1, <2>5, <3>6 DEF Streams, Owed, Writes
      <4>2. Len(Log(d)) - joinedAt[d] - Len(Stream(d)) = 1
        BY <2>1, <2>5, <4>1 DEF Followed
      <4>3. Len(Stream(d)') = Len(Log(d)') - joinedAt'[d] /\ joinedAt'[d] = joinedAt[d]
        BY <2>1, <3>2, <3>4, <3>5, <4>2
      <4>4. \A i \in 1..Len(Stream(d)') : Stream(d)'[i] = Log(d)'[joinedAt'[d] + i]
        <5> SUFFICES ASSUME NEW i \in 1..Len(Stream(d)')
                     PROVE  Stream(d)'[i] = Log(d)[joinedAt[d] + i]
          BY <3>2, <4>3
        <5>1. CASE i <= Len(Stream(d))
          <6>1. i \in 1..Len(Stream(d))
            BY <3>4, <3>5, <5>1
          <6> QED
            BY <3>5, <4>1, <6>1 DEF Followed
        <5>2. CASE i > Len(Stream(d))
          <6>1. i = Len(Stream(d)) + 1 /\ joinedAt[d] + i = Len(Log(d))
            BY <3>4, <3>5, <4>2, <5>2
          <6> QED
            BY <3>5, <4>1, <6>1
        <5> QED
          BY <3>4, <3>5, <5>1, <5>2
      <4>5. Len(Log(d)') - joinedAt'[d] - Len(Stream(d)') = Owed(d)'
        BY <3>2, <3>4, <4>1, <4>3
      <4>6. Len(Stream(d)') <= Len(Log(d)') - joinedAt'[d]
        BY <3>2, <3>4, <4>3
      <4> QED
        BY <4>4, <4>5, <4>6 DEF Followed
    <3> QED
      BY <1>1, <2>1, <2>5, <3>2, <3>6 DEF Streams
  <2> QED
    BY <2>2, <2>3, <2>4, <2>5
<1>8. ASSUME NEW c \in Client, Unregister(c) PROVE Streams(d)'
  <2>1. /\ UNCHANGED <<fanout, message, send, writePc, writing, received, roomLog, joinedAt>>
        /\ clients' \subseteq clients
    BY <1>8 DEF Unregister, Drop
  <2> QED
    BY <1>4, <2>1 DEF Writes
<1>9. ASSUME NEW c \in Client, Take(c) PROVE Streams(d)'
  <2>1. /\ send[c] # <<>> /\ writePc[c] = "range"
        /\ writing' = [writing EXCEPT ![c] = Head(send[c])]
        /\ send' = [send EXCEPT ![c] = Tail(@)]
        /\ writePc' = [writePc EXCEPT ![c] = "write"]
        /\ UNCHANGED <<clients, fanout, message, received, roomLog, joinedAt>>
    BY <1>9 DEF Take
  <2>2. Stream(d)' = Stream(d)
    <3>1. CASE d = c
      <4>1. writing[d] = NoMessage /\ Taken(d) = <<>>
        BY <2>1, <3>1 DEF FreshInv, Taken
      <4>2. Head(send[d]) \in Message /\ received[d] \in Seq(Message) /\ send[d] \in Seq(Message)
        BY <1>2, <2>1, <3>1, HeadTailProperties
      <4>3. /\ writing'[d] = Head(send[d]) /\ send'[d] = Tail(send[d])
            /\ received'[d] = received[d]
        BY <1>2, <2>1, <3>1
      <4>4. Taken(d)' = <<Head(send[d])>>
        BY <1>3, <4>2, <4>3 DEF Taken
      <4>5. (received[d] \o <<Head(send[d])>>) \o Tail(send[d]) = (received[d] \o <<>>) \o send[d]
        BY <2>1, <3>1, <4>2, StreamTake
      <4> QED
        BY <4>1, <4>3, <4>4, <4>5 DEF Stream
    <3>2. CASE d # c
      <4>1. received'[d] = received[d] /\ writing'[d] = writing[d] /\ send'[d] = send[d]
        BY <1>2, <2>1, <3>2
      <4> QED
        BY <4>1, StreamSame
    <3> QED
      BY <3>1, <3>2
  <2>3. Log(d)' = Log(d) /\ (Writes(d)' => Writes(d))
    BY <1>2, <2>1 DEF Log, Writes
  <2> QED
    BY <1>1, <2>1, <2>2, <2>3, StreamKept
<1>10. ASSUME NEW c \in Client, WriteMessage(c) PROVE Streams(d)'
  <2>1. /\ writePc[c] = "write"
        /\ received' = [received EXCEPT ![c] = Append(@, writing[c])]
        /\ writing' = [writing EXCEPT ![c] = NoMessage]
        /\ writePc' = [writePc EXCEPT ![c] = "range"]
        /\ UNCHANGED <<clients, fanout, message, send, roomLog, joinedAt>>
    BY <1>10 DEF WriteMessage
  <2>2. Stream(d)' = Stream(d)
    <3>1. CASE d = c
      <4>1. writing[d] \in Message /\ received[d] \in Seq(Message) /\ send[d] \in Seq(Message)
        BY <1>2, <2>1, <3>1 DEF TypeInv, HandsInv
      <4>2. Taken(d) = <<writing[d]>>
        BY <1>3, <4>1 DEF Taken
      <4>3. /\ writing'[d] = NoMessage /\ received'[d] = Append(received[d], writing[d])
            /\ send'[d] = send[d]
        BY <1>2, <2>1, <3>1
      <4>4. Taken(d)' = <<>>
        BY <4>3 DEF Taken
      <4>5. (Append(received[d], writing[d]) \o <<>>) \o send[d]
               = (received[d] \o <<writing[d]>>) \o send[d]
        BY <4>1, StreamWrite
      <4> QED
        BY <4>2, <4>3, <4>4, <4>5 DEF Stream
    <3>2. CASE d # c
      <4>1. received'[d] = received[d] /\ writing'[d] = writing[d] /\ send'[d] = send[d]
        BY <1>2, <2>1, <3>2
      <4> QED
        BY <4>1, StreamSame
    <3> QED
      BY <3>1, <3>2
  <2>3. Log(d)' = Log(d) /\ (Writes(d)' => Writes(d))
    BY <1>2, <2>1 DEF Log, Writes
  <2> QED
    BY <1>1, <2>1, <2>2, <2>3, StreamKept
<1>11. ASSUME NEW c \in Client, WriteError(c) PROVE Streams(d)'
  <2>1. /\ writing' = [writing EXCEPT ![c] = NoMessage]
        /\ writePc' = [writePc EXCEPT ![c] = "close"]
        /\ UNCHANGED <<clients, fanout, message, send, received, roomLog, joinedAt>>
    BY <1>11 DEF WriteError
  <2>2. Log(d)' = Log(d)
    BY <2>1 DEF Log
  <2>3. CASE d = c
    <3>1. ~Writes(d)'
      BY <1>2, <2>1, <2>3 DEF Writes
    <3> QED
      BY <1>1, <2>1, <2>2, <3>1 DEF Streams
  <2>4. CASE d # c
    <3>1. received'[d] = received[d] /\ writing'[d] = writing[d] /\ send'[d] = send[d]
      BY <1>2, <2>1, <2>4
    <3>2. Stream(d)' = Stream(d)
      BY <3>1, StreamSame
    <3>3. Writes(d)' => Writes(d)
      BY <1>2, <2>1, <2>4 DEF Writes
    <3> QED
      BY <1>1, <2>1, <2>2, <3>2, <3>3, StreamKept
  <2> QED
    BY <2>3, <2>4
<1>12. ASSUME NEW c \in Client, Connect(c) \/ PeerGone(c) \/ ReadPump(c) PROVE Streams(d)'
  <2>1. UNCHANGED <<hubVars, send, writePc, writing, received, roomLog, joinedAt>>
    BY <1>12 DEF Connect, PeerGone, ReadPump, ReadMessage, ReadError, ReadClose
  <2> QED
    BY <1>4, <2>1 DEF Writes
<1>13. ASSUME NEW c \in Client, RangeEnds(c) \/ WriteClose(c) PROVE Streams(d)'
  <2>1. /\ UNCHANGED <<hubVars, send, writing, received, roomLog, joinedAt>>
        /\ \/ writePc' = [writePc EXCEPT ![c] = "close"]
           \/ writePc' = [writePc EXCEPT ![c] = "done"]
    BY <1>13 DEF RangeEnds, WriteClose
  <2>2. Writes(d)' => Writes(d)
    BY <1>2, <2>1 DEF Writes
  <2> QED
    BY <1>4, <2>1, <2>2
<1>14. CASE UNCHANGED vars
  BY <1>4, <1>14 DEF Writes
<1> QED
  BY <1>5, <1>6, <1>7, <1>8, <1>9, <1>10, <1>11, <1>12, <1>13, <1>14
     DEF Next, ServeWs, HubStep, WritePump

LEMMA NoGapsHolds == TypeInv /\ StreamInv => NoGaps
<1> SUFFICES ASSUME TypeInv, StreamInv, NEW c \in Client, Writes(c)
             PROVE  /\ IsPrefix(Stream(c), SinceJoined(c))
                    /\ c \in clients =>
                          Len(SinceJoined(c)) - Len(Stream(c)) = (IF c \in fanout THEN 1 ELSE 0)
  BY DEF NoGaps, Writes
<1>1. joinedAt[c] <= Len(Log(c)) /\ Followed(c)
  BY DEF StreamInv, Streams
<1>2. SinceJoined(c) = SubSeq(Log(c), joinedAt[c] + 1, Len(Log(c)))
  BY DEF SinceJoined, Log
<1>3. /\ IsPrefix(Stream(c), SinceJoined(c))
      /\ Len(SinceJoined(c)) = Len(Log(c)) - joinedAt[c]
  <2> DEFINE str == Stream(c)
             log == Log(c)
  <2>1. str \in Seq(Message) /\ log \in Seq(Message) /\ joinedAt[c] \in Nat
    BY StreamType
  <2>2. /\ joinedAt[c] <= Len(log) /\ Len(str) <= Len(log) - joinedAt[c]
        /\ \A i \in 1..Len(str) : str[i] = log[joinedAt[c] + i]
    BY <1>1 DEF Followed
  <2> HIDE DEF str, log
  <2>3. /\ IsPrefix(str, SubSeq(log, joinedAt[c] + 1, Len(log)))
        /\ Len(SubSeq(log, joinedAt[c] + 1, Len(log))) = Len(log) - joinedAt[c]
    BY <2>1, <2>2, PrefixByPlace
  <2> QED
    BY <1>2, <2>3 DEF str, log
<1> QED
  BY <1>1, <1>3 DEF Followed, Owed

\* A client's stream has no hole, and a registered client has been handed
\* everything but the message being distributed (hub.go 47-54, 64).
THEOREM NoGapsTheorem == Spec => []NoGaps
<1>1. Init => OpenInv /\ FreshInv /\ StreamInv
  <2> SUFFICES ASSUME Init PROVE OpenInv /\ FreshInv /\ StreamInv
    OBVIOUS
  <2>1. \A c \in Client : joinedAt[c] = 0 /\ Log(c) = <<>> /\ ~Writes(c) /\ c \notin fanout
    BY DEF Init, Log, Writes
  <2> QED
    BY <2>1 DEF Init, OpenInv, FreshInv, StreamInv, Streams
<1>2. TypeInv => TypeOK
  BY DEF TypeInv
<1> QED
  BY <1>1, <1>2, TypeInit, TypeStep, OpenStep, FreshStep, StreamStep, NoGapsHolds, PTL DEF Spec

=============================================================================
