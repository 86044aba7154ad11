---------------------------------- MODULE Hub ----------------------------------
(***************************************************************************)
(* 05-websocket_server_multi_room_broadcast: the hub goroutine and the     *)
(* readPump and writePump of every connection.                             *)
(*                                                                         *)
(* The channels broadcast, register and unregister have no buffer: a send  *)
(* on one is a joint step of the sender and the hub at its select.  A      *)
(* message is numbered by its sender: <<client, n>>.                       *)
(***************************************************************************)
EXTENDS Integers, Sequences, FiniteSets, SequencesExt

CONSTANTS
    Client,
    Room,
    RoomOf,         \* [Client -> Room]
    SendCap,        \* capacity of a client's send channel (256)
    MaxMessages     \* bound: [Client -> how many messages its peer sends]

ASSUME HubAssumption ==
    /\ RoomOf \in [Client -> Room]
    /\ SendCap \in Nat \ {0}
    /\ MaxMessages \in [Client -> Nat]

VARIABLES
    \* the hub
    clients,        \* h.clients: the registered clients (each in its room)
    fanout,         \* the clients a broadcast has not reached yet
    message,        \* the message of that broadcast
    \* each client
    send,           \* the send channel's contents
    closed,         \* is it closed?
    conn,           \* "none", "open", "closed": the websocket connection
    readPc,         \* readPump: "none", "read", "broadcast", "unregister", ...
    writePc,        \* writePump: "none", "range", "write", ...
    writing,        \* the message writePump has taken
    sent,           \* messages the peer has sent
    \* history
    roomLog,        \* the messages the hub has taken, by room
    joinedAt,       \* length of the room's log when a client registered
    received,       \* what has been written to a client's peer
    panicked        \* a goroutine has sent on or closed a closed channel

hubVars == <<clients, fanout, message>>
chanVars == <<send, closed>>
pumpVars == <<conn, readPc, writePc, writing, sent>>
history == <<roomLog, joinedAt, received, panicked>>
vars == <<hubVars, chanVars, pumpVars, history>>

Message == UNION {{c} \X (1..MaxMessages[c]) : c \in Client}
NoMessage == <<>>
Members(room) == {c \in clients : RoomOf[c] = room}

Init ==
    /\ clients = {}
    /\ fanout = {}
    /\ message = NoMessage
    /\ send = [c \in Client |-> <<>>]
    /\ closed = [c \in Client |-> FALSE]
    /\ conn = [c \in Client |-> "none"]
    /\ readPc = [c \in Client |-> "none"]
    /\ writePc = [c \in Client |-> "none"]
    /\ writing = [c \in Client |-> NoMessage]
    /\ sent = [c \in Client |-> 0]
    /\ roomLog = [r \in Room |-> <<>>]
    /\ joinedAt = [c \in Client |-> 0]
    /\ received = [c \in Client |-> <<>>]
    /\ panicked = FALSE

\* The hub waits at its select.
AtSelect == fanout = {}

-----------------------------------------------------------------------------
(* ServeWs.                                                                *)

\* Accept, NewClient.
Connect(c) ==
    /\ conn[c] = "none"
    /\ conn' = [conn EXCEPT ![c] = "open"]
    /\ UNCHANGED <<hubVars, chanVars, readPc, writePc, writing, sent, history>>

\* hub.register <- client, then the two pumps start.
Register(c) ==
    /\ AtSelect
    /\ conn[c] # "none"
    /\ readPc[c] = "none"
    /\ clients' = clients \cup {c}
    /\ readPc' = [readPc EXCEPT ![c] = "read"]
    /\ writePc' = [writePc EXCEPT ![c] = "range"]
    /\ joinedAt' = [joinedAt EXCEPT ![c] = Len(roomLog[RoomOf[c]])]
    /\ UNCHANGED <<fanout, message, chanVars, conn, writing, sent,
                   roomLog, received, panicked>>

-----------------------------------------------------------------------------
(* readPump.                                                               *)

\* conn.Read returns a message of the peer ...
ReadMessage(c) ==
    /\ readPc[c] = "read"
    /\ conn[c] = "open"
    /\ sent[c] < MaxMessages[c]
    /\ sent' = [sent EXCEPT ![c] = @ + 1]
    /\ readPc' = [readPc EXCEPT ![c] = "broadcast"]
    /\ UNCHANGED <<hubVars, chanVars, conn, writePc, writing, history>>

\* ... or an error: the peer has gone, or the connection was closed here.
ReadError(c) ==
    /\ readPc[c] = "read"
    /\ conn[c] = "closed"
    /\ readPc' = [readPc EXCEPT ![c] = "unregister"]
    /\ UNCHANGED <<hubVars, chanVars, conn, writePc, writing, sent, history>>

\* h.clients[msg.room]
Recipients(room) == Members(room)

\* hub.broadcast <- msg: the hub takes the message of c and starts its loop
\* over the clients of the room.
Broadcast(c) ==
    /\ AtSelect
    /\ readPc[c] = "broadcast"
    /\ readPc' = [readPc EXCEPT ![c] = "read"]
    /\ message' = <<c, sent[c]>>
    /\ fanout' = Recipients(RoomOf[c])
    /\ roomLog' = [roomLog EXCEPT ![RoomOf[c]] = Append(@, <<c, sent[c]>>)]
    /\ UNCHANGED <<clients, chanVars, conn, writePc, writing, sent,
                   joinedAt, received, panicked>>

\* Mutant of Drop: the slow client loses the message and stays.
DropMessage(c) == UNCHANGED <<clients, closed>>

\* close(c.send); delete(h.clients[room], c)
Drop(c) ==
    /\ closed' = [closed EXCEPT ![c] = TRUE]
    /\ clients' = clients \ {c}

Full(c) == Len(send[c]) >= SendCap

\* One turn of the hub's loop, in any order (a map is ranged over): the
\* message goes into the channel, or the client is too slow and is dropped.
Fanout(c) ==
    /\ c \in fanout
    /\ fanout' = fanout \ {c}
    /\ IF closed[c]
         THEN panicked' = TRUE /\ UNCHANGED <<send, closed, clients>>
         ELSE /\ UNCHANGED panicked
              /\ \/ /\ ~Full(c)
                    /\ send' = [send EXCEPT ![c] = Append(@, message)]
                    /\ UNCHANGED <<closed, clients>>
                 \/ /\ Full(c)
                    /\ Drop(c)
                    /\ UNCHANGED send
    /\ UNCHANGED <<message, pumpVars, roomLog, joinedAt, received>>

\* Mutant of StillRegistered: unregister without the exists check.
Anyway(c) == TRUE

\* _, exists := h.clients[client.room][client]
StillRegistered(c) == c \in clients

\* The deferred hub.unregister <- c of readPump.
Unregister(c) ==
    /\ AtSelect
    /\ readPc[c] = "unregister"
    /\ readPc' = [readPc EXCEPT ![c] = "close"]
    /\ IF StillRegistered(c)
         THEN /\ Drop(c)
              /\ panicked' = (panicked \/ closed[c])
         ELSE UNCHANGED <<clients, closed, panicked>>
    /\ UNCHANGED <<fanout, message, send, conn, writePc, writing, sent,
                   roomLog, joinedAt, received>>

\* ... and its conn.Close.
ReadClose(c) ==
    /\ readPc[c] = "close"
    /\ readPc' = [readPc EXCEPT ![c] = "done"]
    /\ conn' = [conn EXCEPT ![c] = "closed"]
    /\ UNCHANGED <<hubVars, chanVars, writePc, writing, sent, history>>

-----------------------------------------------------------------------------
(* writePump.                                                              *)

\* for msg := range c.send
Take(c) ==
    /\ writePc[c] = "range"
    /\ send[c] # <<>>
    /\ writing' = [writing EXCEPT ![c] = Head(send[c])]
    /\ send' = [send EXCEPT ![c] = Tail(@)]
    /\ writePc' = [writePc EXCEPT ![c] = "write"]
    /\ UNCHANGED <<hubVars, closed, conn, readPc, sent, history>>

RangeEnds(c) ==
    /\ writePc[c] = "range"
    /\ send[c] = <<>>
    /\ closed[c]
    /\ writePc' = [writePc EXCEPT ![c] = "close"]
    /\ UNCHANGED <<hubVars, chanVars, conn, readPc, writing, sent, history>>

\* conn.Write
WriteMessage(c) ==
    /\ writePc[c] = "write"
    /\ conn[c] = "open"
    /\ received' = [received EXCEPT ![c] = Append(@, writing[c])]
    /\ writing' = [writing EXCEPT ![c] = NoMessage]
    /\ writePc' = [writePc EXCEPT ![c] = "range"]
    /\ UNCHANGED <<hubVars, chanVars, conn, readPc, sent,
                   roomLog, joinedAt, panicked>>

WriteError(c) ==
    /\ writePc[c] = "write"
    /\ conn[c] = "closed"
    /\ writing' = [writing EXCEPT ![c] = NoMessage]
    /\ writePc' = [writePc EXCEPT ![c] = "close"]
    /\ UNCHANGED <<hubVars, chanVars, conn, readPc, sent, history>>

\* Mutant of WriteClose: without the deferred Close.
WriteLeaveOpen(c) ==
    /\ writePc[c] = "close"
    /\ writePc' = [writePc EXCEPT ![c] = "done"]
    /\ UNCHANGED <<hubVars, chanVars, conn, readPc, writing, sent, history>>

\* The deferred conn.Close of writePump.
WriteClose(c) ==
    /\ writePc[c] = "close"
    /\ writePc' = [writePc EXCEPT ![c] = "done"]
    /\ conn' = [conn EXCEPT ![c] = "closed"]
    /\ UNCHANGED <<hubVars, chanVars, readPc, writing, sent, history>>

-----------------------------------------------------------------------------
\* The peer leaves or the network breaks the connection.
PeerGone(c) ==
    /\ conn[c] = "open"
    /\ conn' = [conn EXCEPT ![c] = "closed"]
    /\ UNCHANGED <<hubVars, chanVars, readPc, writePc, writing, sent, history>>

ServeWs(c) == Connect(c) \/ Register(c)
HubStep(c) == Broadcast(c) \/ Fanout(c) \/ Unregister(c)
ReadPump(c) == ReadMessage(c) \/ ReadError(c) \/ ReadClose(c)
WritePump(c) ==
    Take(c) \/ RangeEnds(c) \/ WriteMessage(c) \/ WriteError(c) \/ WriteClose(c)

Next == \E c \in Client :
    ServeWs(c) \/ PeerGone(c) \/ HubStep(c) \/ ReadPump(c) \/ WritePump(c)

Spec == Init /\ [][Next]_vars

\* The goroutines run, and a peer's writes end.  The peers send a bounded
\* number of messages, so weak fairness of the hub is enough for each of the
\* senders its select chooses from.
FairSpec ==
    /\ Spec
    /\ WF_vars(\E c \in Client : Register(c) \/ HubStep(c))
    /\ \A c \in Client : WF_vars(ReadError(c) \/ ReadClose(c)) /\ WF_vars(WritePump(c))

-----------------------------------------------------------------------------
TypeOK ==
    /\ clients \subseteq Client
    /\ fanout \subseteq Client
    /\ message \in Message \cup {NoMessage}
    /\ send \in [Client -> Seq(Message)] /\ \A c \in Client : Len(send[c]) <= SendCap
    /\ writing \in [Client -> Message \cup {NoMessage}]
    /\ received \in [Client -> Seq(Message)]
    /\ closed \in [Client -> BOOLEAN]
    /\ conn \in [Client -> {"none", "open", "closed"}]
    /\ readPc \in [Client -> {"none", "read", "broadcast", "unregister", "close", "done"}]
    /\ writePc \in [Client -> {"none", "range", "write", "close", "done"}]
    /\ sent \in [Client -> Nat] /\ \A c \in Client : sent[c] <= MaxMessages[c]
    /\ roomLog \in [Room -> Seq(Message)]
    /\ joinedAt \in [Client -> Nat]
    /\ panicked \in BOOLEAN

\* Every value has its type, and no goroutine sends on a closed channel or
\* closes it a second time: the client that was dropped for slowness still
\* unregisters (hub.go 47-53, 65-73).
NoPanic == TypeOK /\ ~panicked

Taken(c) == IF writing[c] = NoMessage THEN <<>> ELSE <<writing[c]>>

\* What client c was, is being and will be sent.
Stream(c) == received[c] \o Taken(c) \o send[c]

\* What the room has heard since c registered.
SinceJoined(c) ==
    LET log == roomLog[RoomOf[c]]
    IN  SubSeq(log, joinedAt[c] + 1, Len(log))

\* A client's stream has no hole, in the order of the hub and from the message
\* after its registration on: a registered client has been handed everything
\* but the message being distributed, one that could not keep up is cut off
\* and never misses a message in the middle (hub.go 47-54, 64).
NoGaps ==
    \A c \in Client : writePc[c] \in {"range", "write"} =>
        /\ IsPrefix(Stream(c), SinceJoined(c))
        /\ c \in clients =>
              Len(SinceJoined(c)) - Len(Stream(c)) = (IF c \in fanout THEN 1 ELSE 0)

\* A connection that breaks, and a client that the hub has given up for its
\* slowness, leave nothing behind: the client leaves the hub, its connection is
\* closed, it does not stay connected and deaf, and both pumps end (client.go
\* 29-32, 52, 56, hub.go 51, 65-73).
CleansUp ==
    \A c \in Client :
        closed[c] \/ (conn[c] = "closed" /\ readPc[c] # "none") ~>
            /\ c \notin clients
            /\ conn[c] = "closed"
            /\ readPc[c] = "done" /\ writePc[c] = "done"

=============================================================================
