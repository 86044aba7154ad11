------------------------------- MODULE ChatServer -------------------------------
(***************************************************************************)
(* 01-tcp_chat_server: the accept loop, the handler and the two loops of   *)
(* every client, the lobby's condition variable, the WaitGroup that the    *)
(* whole server shares, and Stop, which main calls when its context ends.  *)
(*                                                                         *)
(* What a message says is never looked at: a channel is the number of      *)
(* messages it holds.                                                      *)
(***************************************************************************)
EXTENDS Integers, FiniteSets

CONSTANTS
    Client,
    MinClients,     \* the values of minClients, how many open the lobby
    Capacity,       \* of a client's channel (100)
    MaxLines        \* bound: lines the peers type

ASSUME ChatServerAssumption ==
    /\ IsFiniteSet(Client)
    /\ MinClients \subseteq Nat
    /\ Capacity \in Nat \ {0} /\ MaxLines \in Nat

VARIABLES
    minClients,     \* fixed by NewChatServer
    ctxDone,        \* the context's deadline has passed
    peer,           \* "none", "open", "gone"
    lines,          \* lines the peers have typed
    handler,        \* handleClient: see HandlerPc
    reader, writer, \* readLoop and writeLoop
    clients, clientCounter, \* under mu
    messages,       \* how many messages a client's channel holds
    closed,         \* is that channel closed?
    wg,             \* the counter of the WaitGroup
    stop,           \* Stop: its place, and the clients it still has to remove
    panicked

serverVars == <<minClients, clients, clientCounter, messages, closed>>
loopVars == <<reader, writer, wg>>
vars == <<ctxDone, peer, lines, handler, loopVars, serverVars, stop, panicked>>

HandlerPc == {"none", "refused", "started", "lobby", "awake", "added",
              "waiting", "released", "closed"}
LoopPc == {"none", "top", "blocked", "busy", "done"}
StopPc == {"idle", "remove", "notify", "wait", "waiting", "released", "returned"}

Init ==
    /\ minClients \in MinClients
    /\ ctxDone = FALSE
    /\ peer = [c \in Client |-> "none"]
    /\ lines = 0
    /\ handler = [c \in Client |-> "none"]
    /\ reader = [c \in Client |-> "none"]
    /\ writer = [c \in Client |-> "none"]
    /\ clients = {}
    /\ clientCounter = 0
    /\ messages = [c \in Client |-> 0]
    /\ closed = [c \in Client |-> FALSE]
    /\ wg = 0
    /\ stop = [pc |-> "idle", ids |-> {}, removed |-> {}]
    /\ panicked = FALSE

-----------------------------------------------------------------------------
(* The peers, and main's context.                                          *)

HangUp(c) ==
    /\ peer[c] = "open"
    /\ peer' = [peer EXCEPT ![c] = "gone"]
    /\ UNCHANGED <<ctxDone, lines, handler, loopVars, serverVars, stop, panicked>>

\* main's five minutes are over.
Deadline ==
    /\ ~ctxDone
    /\ ctxDone' = TRUE
    /\ UNCHANGED <<peer, lines, handler, loopVars, serverVars, stop, panicked>>

-----------------------------------------------------------------------------
(* Start and handleClient.                                                 *)

\* Once the context is over a connection is accepted and forgotten: no
\* handler, no Close.
Accept(c) ==
    /\ handler[c] = "none"
    /\ peer' = [peer EXCEPT ![c] = "open"]
    /\ handler' = [handler EXCEPT ![c] = IF ctxDone THEN "refused" ELSE "started"]
    /\ UNCHANGED <<ctxDone, lines, loopVars, serverVars, stop, panicked>>

\* Mutant of LobbyOpens: the lobby opens one client too late.
OneTooMany(n) == n > minClients

LobbyOpens(n) == n >= minClients

\* Who cond.Broadcast wakes.
Woken == {c \in Client : handler[c] = "lobby"}

\* The critical section: the client is registered, then it opens the lobby
\* or waits there.
Enter(c) ==
    /\ handler[c] = "started"
    /\ clients' = clients \cup {c}
    /\ clientCounter' = clientCounter + 1
    /\ handler' =
          IF LobbyOpens(clientCounter')
            THEN [d \in Client |-> IF d \in Woken \cup {c} THEN "awake" ELSE handler[d]]
            ELSE [handler EXCEPT ![c] = "lobby"]
    /\ UNCHANGED <<ctxDone, peer, lines, loopVars, minClients, messages, closed, stop,
                   panicked>>

\* wg.Add(2) and the two go statements.
Serve(c) ==
    /\ handler[c] = "awake"
    /\ handler' = [handler EXCEPT ![c] = "added"]
    /\ wg' = wg + 2
    /\ reader' = [reader EXCEPT ![c] = "top"]
    /\ writer' = [writer EXCEPT ![c] = "top"]
    /\ UNCHANGED <<ctxDone, peer, lines, serverVars, stop, panicked>>

\* wg.Wait waits for the loops of every client, not only for its own two.
Wait(c) ==
    /\ handler[c] = "added"
    /\ handler' = [handler EXCEPT ![c] = IF wg = 0 THEN "closed" ELSE "waiting"]
    /\ UNCHANGED <<ctxDone, peer, lines, loopVars, serverVars, stop, panicked>>

\* A waiter that was woken at zero panics when the counter has moved since
\* ("WaitGroup is reused before previous Wait has returned"); otherwise the
\* handler closes its connection.
Resume(c) ==
    /\ handler[c] = "released"
    /\ IF wg = 0
         THEN handler' = [handler EXCEPT ![c] = "closed"] /\ UNCHANGED panicked
         ELSE panicked' = TRUE /\ UNCHANGED handler
    /\ UNCHANGED <<ctxDone, peer, lines, loopVars, serverVars, stop>>

-----------------------------------------------------------------------------
(* broadcast, readLoop and writeLoop.                                      *)

\* The channels after a broadcast of c: everyone else's that has room.
AfterBroadcast(c) ==
    [d \in Client |-> IF d \in clients \ {c} /\ messages[d] < Capacity
                        THEN messages[d] + 1 ELSE messages[d]]

\* wg.Done: at zero it wakes every waiter.
LoopEnds ==
    /\ wg' = wg - 1
    /\ handler' = [c \in Client |-> IF wg' = 0 /\ handler[c] = "waiting"
                                      THEN "released" ELSE handler[c]]
    /\ stop' = IF wg' = 0 /\ stop.pc = "waiting"
                 THEN [stop EXCEPT !.pc = "released"] ELSE stop

\* The select at the top of the loop.
ReaderTop(c) ==
    /\ reader[c] = "top"
    /\ reader' = [reader EXCEPT ![c] = IF ctxDone THEN "done" ELSE "blocked"]
    /\ IF ctxDone THEN LoopEnds ELSE UNCHANGED <<wg, handler, stop>>
    /\ UNCHANGED <<ctxDone, peer, lines, writer, serverVars, panicked>>

\* ReadBytes returns a line.
ReadLine(c) ==
    /\ reader[c] = "blocked"
    /\ lines < MaxLines
    /\ peer[c] = "open"
    /\ lines' = lines + 1
    /\ reader' = [reader EXCEPT ![c] = "busy"]
    /\ UNCHANGED <<ctxDone, peer, handler, writer, wg, serverVars, stop, panicked>>

\* The client that has gone stays in clients: only Stop removes.
ReadError(c) ==
    /\ reader[c] = "blocked"
    /\ peer[c] = "gone"
    /\ reader' = [reader EXCEPT ![c] = "done"]
    /\ LoopEnds
    /\ UNCHANGED <<ctxDone, peer, lines, writer, serverVars, panicked>>

\* broadcast, under mu: a full channel is skipped; a closed one panics.
Broadcast(c) ==
    /\ reader[c] = "busy"
    /\ reader' = [reader EXCEPT ![c] = "top"]
    /\ messages' = AfterBroadcast(c)
    /\ panicked' = \E d \in clients \ {c} : closed[d]
    /\ UNCHANGED <<ctxDone, peer, lines, handler, writer, wg, minClients, clients,
                   clientCounter, closed, stop>>

\* The select of writeLoop takes a message ...
Take(c) ==
    /\ writer[c] = "top"
    /\ messages[c] > 0
    /\ messages' = [messages EXCEPT ![c] = @ - 1]
    /\ writer' = [writer EXCEPT ![c] = "busy"]
    /\ UNCHANGED <<ctxDone, peer, lines, handler, reader, wg, minClients, clients,
                   clientCounter, closed, stop, panicked>>

\* Mutant of WriterEnds: the select has no case for the context.
WriterEndsOnClose(c) ==
    /\ writer[c] = "top"
    /\ closed[c] /\ messages[c] = 0
    /\ writer' = [writer EXCEPT ![c] = "done"]
    /\ LoopEnds
    /\ UNCHANGED <<ctxDone, peer, lines, reader, serverVars, panicked>>

\* ... or finds the context over, or the channel closed and empty.
WriterEnds(c) ==
    /\ writer[c] = "top"
    /\ ctxDone \/ (closed[c] /\ messages[c] = 0)
    /\ writer' = [writer EXCEPT ![c] = "done"]
    /\ LoopEnds
    /\ UNCHANGED <<ctxDone, peer, lines, reader, serverVars, panicked>>

\* Fprintf succeeds, also for a while after the peer has gone ...
Written(c) ==
    /\ writer[c] = "busy"
    /\ writer' = [writer EXCEPT ![c] = "top"]
    /\ UNCHANGED <<ctxDone, peer, lines, handler, reader, wg, serverVars, stop, panicked>>

\* ... or fails.
WriteError(c) ==
    /\ writer[c] = "busy"
    /\ peer[c] = "gone"
    /\ writer' = [writer EXCEPT ![c] = "done"]
    /\ LoopEnds
    /\ UNCHANGED <<ctxDone, peer, lines, reader, serverVars, panicked>>

-----------------------------------------------------------------------------
(* Stop and removeClient.                                                  *)

\* The snapshot of the clients, once main has seen the context end.
Stop ==
    /\ ctxDone
    /\ stop.pc = "idle"
    /\ stop' = [stop EXCEPT !.pc = "remove", !.ids = clients]
    /\ UNCHANGED <<ctxDone, peer, lines, handler, loopVars, serverVars, panicked>>

\* Mutant of Removed: the channel is closed, the client stays in the map.
RemovedLater(c) == clients

Removed(c) == clients \ {c}

\* removeClient: delete, close and count under mu ...
RemoveClient(c) ==
    /\ stop.pc = "remove"
    /\ c \in stop.ids
    /\ clients' = Removed(c)
    /\ closed' = [closed EXCEPT ![c] = TRUE]
    /\ clientCounter' = clientCounter - 1
    /\ stop' = [pc |-> "notify", ids |-> stop.ids \ {c}, removed |-> {c}]
    /\ UNCHANGED <<ctxDone, peer, lines, handler, loopVars, minClients, messages, panicked>>

\* ... then the notice to the others, under mu again.
Notify ==
    /\ stop.pc = "notify"
    /\ \E c \in stop.removed :
          /\ messages' = AfterBroadcast(c)
          /\ panicked' = \E d \in clients \ {c} : closed[d]
    /\ stop' = [stop EXCEPT !.pc = "remove", !.removed = {}]
    /\ UNCHANGED <<ctxDone, peer, lines, handler, loopVars, minClients, clients,
                   clientCounter, closed>>

StopWaits ==
    /\ stop.pc = "remove"
    /\ stop.ids = {}
    /\ stop' = [stop EXCEPT !.pc = IF wg = 0 THEN "returned" ELSE "waiting"]
    /\ UNCHANGED <<ctxDone, peer, lines, handler, loopVars, serverVars, panicked>>

StopReturns ==
    /\ stop.pc = "released"
    /\ IF wg = 0
         THEN stop' = [stop EXCEPT !.pc = "returned"] /\ UNCHANGED panicked
         ELSE panicked' = TRUE /\ UNCHANGED stop
    /\ UNCHANGED <<ctxDone, peer, lines, handler, loopVars, serverVars>>

-----------------------------------------------------------------------------
HandleClient(c) == Enter(c) \/ Serve(c) \/ Wait(c) \/ Resume(c)
ReadLoop(c) == ReaderTop(c) \/ ReadLine(c) \/ ReadError(c) \/ Broadcast(c)
WriteLoop(c) == Take(c) \/ WriterEnds(c) \/ Written(c) \/ WriteError(c)
StopStep == Stop \/ (\E c \in Client : RemoveClient(c)) \/ Notify \/ StopWaits \/ StopReturns

\* A panic, and main's return after Stop, end the process.
Running == ~panicked /\ stop.pc # "returned"

Next ==
    /\ Running
    /\ \/ Deadline \/ StopStep
       \/ \E c \in Client : Accept(c) \/ HangUp(c)
                            \/ HandleClient(c) \/ ReadLoop(c) \/ WriteLoop(c)

Spec == Init /\ [][Next]_vars

\* The goroutines run and a read of a dead connection fails.  Nothing is
\* assumed of a live peer: it need not type, read what it is sent, or leave.
FairSpec ==
    /\ Spec
    /\ WF_vars(Running /\ StopStep)
    /\ \A c \in Client :
          /\ WF_vars(Running /\ HandleClient(c))
          /\ WF_vars(Running /\ (ReaderTop(c) \/ ReadError(c) \/ Broadcast(c)))
          /\ WF_vars(Running /\ (Take(c) \/ WriterEnds(c)))
          /\ WF_vars(Running /\ peer[c] = "gone" /\ (Written(c) \/ WriteError(c)))

-----------------------------------------------------------------------------
TypeOK ==
    /\ ctxDone \in BOOLEAN /\ panicked \in BOOLEAN
    /\ minClients \in MinClients
    /\ peer \in [Client -> {"none", "open", "gone"}]
    /\ lines \in 0..MaxLines
    /\ handler \in [Client -> HandlerPc]
    /\ reader \in [Client -> LoopPc] /\ writer \in [Client -> LoopPc]
    /\ clients \subseteq Client /\ clientCounter \in Nat
    /\ messages \in [Client -> 0..Capacity]
    /\ closed \in [Client -> BOOLEAN]
    /\ stop \in [pc : StopPc, ids : SUBSET Client, removed : SUBSET Client]

\* The lobby loses no wake-up: whoever still waits there, waits because too
\* few are registered (main.go 173-177), also after a removal.
LobbyWaitsForMore ==
    (\E c \in Client : handler[c] = "lobby") => clientCounter < minClients

\* Whoever may send to a client finds its channel open: the map, the counter
\* and the closed channels agree whenever mu is free, and the WaitGroup counts
\* the loops that run (main.go 170-171, 180-190, 260-268, 281-284).
Consistent ==
    /\ TypeOK
    /\ clientCounter = Cardinality(clients)
    /\ \A c \in clients : ~closed[c]
    /\ wg = Cardinality({c \in Client : reader[c] \notin {"none", "done"}})
            + Cardinality({c \in Client : writer[c] \notin {"none", "done"}})

\* Once Stop waits and no peer holds a connection open, it returns: what
\* keeps it is only the peers that stay (main.go 294-310).
StopWaitsForPeersOnly ==
    stop.pc = "waiting" /\ (\A c \in Client : peer[c] # "open") ~> ~Running

=============================================================================
