------------------------------ MODULE WorkerPool ------------------------------
(***************************************************************************)
(* 03-tcp_server_worker_pools/server.go: Start with its accept loop, the   *)
(* workers that range over connCh, and the callers of Shutdown.            *)
(***************************************************************************)
EXTENDS Integers, Sequences, FiniteSets, SequencesExt

CONSTANTS
    Conn,           \* the connections clients open
    Worker,         \* config.Workers goroutines
    Stopper,        \* goroutines that call Shutdown
    QueueSize,      \* config.QueueSize: connCh is buffered
    NoConn

ASSUME WorkerPoolAssumption ==
    /\ IsFiniteSet(Worker)
    /\ QueueSize \in Nat \ {0}
    /\ NoConn \notin Conn

VARIABLES
    startPc,        \* Start: "listen", "set", "spawn", "accept", "dispatch", "returned"
    listener,       \* the socket: "none", "open", "closed"
    stored,         \* is s.listener set?
    accepted,       \* the connection Start holds, NoConn otherwise
    spawned,        \* workers that have been started
    serving,        \* [worker -> the connection its handler has, or NoConn]
    ended,          \* workers whose range loop is over
    connCh,         \* the channel's contents
    chClosed,
    phase,          \* [connection -> where it is]
    stopPc,         \* [stopper -> where Shutdown is]
    panicked        \* what killed the process, "no" as long as it lives

vars == <<startPc, listener, stored, accepted, spawned, serving, ended,
          connCh, chClosed, phase, stopPc, panicked>>

Init ==
    /\ startPc = "listen"
    /\ listener = "none"
    /\ stored = FALSE
    /\ accepted = NoConn
    /\ spawned = {}
    /\ serving = [w \in Worker |-> NoConn]
    /\ ended = {}
    /\ connCh = <<>>
    /\ chClosed = FALSE
    /\ phase = [c \in Conn |-> "new"]
    /\ stopPc = [s \in Stopper |-> "idle"]
    /\ panicked = "no"

-----------------------------------------------------------------------------
(* Start.                                                                  *)

Listen ==
    /\ startPc = "listen"
    /\ listener' = "open"
    /\ startPc' = "set"
    /\ UNCHANGED <<stored, accepted, spawned, serving, ended, connCh,
                   chClosed, phase, stopPc, panicked>>

\* s.listener = listener, under s.mu.
SetListener ==
    /\ startPc = "set"
    /\ stored' = TRUE
    /\ startPc' = "spawn"
    /\ UNCHANGED <<listener, accepted, spawned, serving, ended, connCh,
                   chClosed, phase, stopPc, panicked>>

SpawnWorker(w) ==
    /\ startPc = "spawn"
    /\ w \notin spawned
    /\ spawned' = spawned \cup {w}
    /\ startPc' = IF spawned' = Worker THEN "accept" ELSE "spawn"
    /\ UNCHANGED <<listener, stored, accepted, serving, ended, connCh,
                   chClosed, phase, stopPc, panicked>>

Accept(c) ==
    /\ startPc = "accept"
    /\ listener = "open"
    /\ phase[c] = "dialed"
    /\ accepted' = c
    /\ phase' = [phase EXCEPT ![c] = "accepted"]
    /\ startPc' = "dispatch"
    /\ UNCHANGED <<listener, stored, spawned, serving, ended, connCh,
                   chClosed, stopPc, panicked>>

\* Accept returns net.ErrClosed: Start returns nil.
AcceptClosed ==
    /\ startPc = "accept"
    /\ listener = "closed"
    /\ startPc' = "returned"
    /\ UNCHANGED <<listener, stored, accepted, spawned, serving, ended, connCh,
                   chClosed, phase, stopPc, panicked>>

\* Mutant of Room: a connection more than the queue holds.
RoomForOneMore == Len(connCh) <= QueueSize

Room == Len(connCh) < QueueSize

\* Mutant of Reject: the connection is forgotten, not closed.
RejectSilently(c) == UNCHANGED phase

\* conn.Close()
Reject(c) == phase' = [phase EXCEPT ![c] = "rejected"]

\* The select with its default case.  A send on a closed channel panics.
Dispatch ==
    /\ startPc = "dispatch"
    /\ startPc' = "accept"
    /\ accepted' = NoConn
    /\ \/ /\ chClosed
          /\ panicked' = "send on closed channel"
          /\ UNCHANGED <<connCh, phase>>
       \/ /\ ~chClosed /\ Room
          /\ connCh' = Append(connCh, accepted)
          /\ phase' = [phase EXCEPT ![accepted] = "queued"]
          /\ UNCHANGED panicked
       \/ /\ ~chClosed /\ ~Room
          /\ Reject(accepted)
          /\ UNCHANGED <<connCh, panicked>>
    /\ UNCHANGED <<listener, stored, spawned, serving, ended, chClosed, stopPc>>

-----------------------------------------------------------------------------
(* The workers.                                                            *)

Waiting == {w \in spawned \ ended : serving[w] = NoConn}

\* for conn := range s.connCh
Receive(w) ==
    /\ w \in Waiting
    /\ connCh # <<>>
    /\ serving' = [serving EXCEPT ![w] = Head(connCh)]
    /\ phase' = [phase EXCEPT ![Head(connCh)] = "handling"]
    /\ connCh' = Tail(connCh)
    /\ UNCHANGED <<startPc, listener, stored, accepted, spawned, ended,
                   chClosed, stopPc, panicked>>

\* s.handler(conn) returns: EchoHandler does when the peer closes.
HandlerReturns(w) ==
    /\ serving[w] # NoConn
    /\ phase' = [phase EXCEPT ![serving[w]] = "handled"]
    /\ serving' = [serving EXCEPT ![w] = NoConn]
    /\ UNCHANGED <<startPc, listener, stored, accepted, spawned, ended,
                   connCh, chClosed, stopPc, panicked>>

\* Mutant of Drained: a closed channel ends the loop, what it holds is lost.
DrainedOrNot == chClosed

\* The range loop ends when the channel is closed and empty.
Drained == chClosed /\ connCh = <<>>

RangeEnds(w) ==
    /\ w \in Waiting
    /\ Drained
    /\ ended' = ended \cup {w}
    /\ UNCHANGED <<startPc, listener, stored, accepted, spawned, serving,
                   connCh, chClosed, phase, stopPc, panicked>>

-----------------------------------------------------------------------------
(* Shutdown.                                                               *)

\* s.listener.Close(), an error is only remembered; without a listener it is
\* a call on a nil interface.
CloseListener(s) ==
    /\ stopPc[s] = "idle"
    /\ \/ /\ stored
          /\ listener' = "closed"
          /\ stopPc' = [stopPc EXCEPT ![s] = "close"]
          /\ UNCHANGED panicked
       \/ /\ ~stored
          /\ panicked' = "nil listener"
          /\ UNCHANGED <<listener, stopPc>>
    /\ UNCHANGED <<startPc, stored, accepted, spawned, serving, ended, connCh,
                   chClosed, phase>>

\* Mutant of CloseChannel: Shutdown only waits.
KeepChannelOpen(s) ==
    /\ stopPc[s] = "close"
    /\ stopPc' = [stopPc EXCEPT ![s] = "wait"]
    /\ UNCHANGED <<startPc, listener, stored, accepted, spawned, serving,
                   ended, connCh, chClosed, phase, panicked>>

\* close(s.connCh)
CloseChannel(s) ==
    /\ stopPc[s] = "close"
    /\ chClosed' = TRUE
    /\ panicked' = IF chClosed THEN "close of closed channel" ELSE panicked
    /\ stopPc' = [stopPc EXCEPT ![s] = "wait"]
    /\ UNCHANGED <<startPc, listener, stored, accepted, spawned, serving,
                   ended, connCh, phase>>

\* The counter of s.wg is zero.
AllDone == spawned = ended

WaitReturns(s) ==
    /\ stopPc[s] = "wait"
    /\ AllDone
    /\ stopPc' = [stopPc EXCEPT ![s] = "returned"]
    /\ UNCHANGED <<startPc, listener, stored, accepted, spawned, serving,
                   ended, connCh, chClosed, phase, panicked>>

-----------------------------------------------------------------------------
\* A client connects: the kernel completes the handshake while the socket
\* listens.
Dial(c) ==
    /\ listener = "open"
    /\ phase[c] = "new"
    /\ phase' = [phase EXCEPT ![c] = "dialed"]
    /\ UNCHANGED <<startPc, listener, stored, accepted, spawned, serving,
                   ended, connCh, chClosed, stopPc, panicked>>

Start ==
    \/ Listen \/ SetListener \/ AcceptClosed \/ Dispatch
    \/ \E w \in Worker : SpawnWorker(w)
    \/ \E c \in Conn : Accept(c)
Work(w) == Receive(w) \/ HandlerReturns(w) \/ RangeEnds(w)
Shutdown(s) == CloseListener(s) \/ CloseChannel(s) \/ WaitReturns(s)

\* A panic of any goroutine ends the process.
Next ==
    /\ panicked = "no"
    /\ \/ Start
       \/ \E w \in Worker : Work(w)
       \/ \E s \in Stopper : Shutdown(s)
       \/ \E c \in Conn : Dial(c)

Spec == Init /\ [][Next]_vars

\* The goroutines run and every handler returns (EchoHandler: the peer closes
\* its connection; there is no idle timeout).
FairSpec ==
    /\ Spec
    /\ WF_vars(panicked = "no" /\ Start)
    /\ \A w \in Worker : WF_vars(panicked = "no" /\ Work(w))
    /\ \A s \in Stopper :
          WF_vars(panicked = "no" /\ (CloseChannel(s) \/ WaitReturns(s)))

-----------------------------------------------------------------------------
TypeOK ==
    /\ startPc \in {"listen", "set", "spawn", "accept", "dispatch", "returned"}
    /\ listener \in {"none", "open", "closed"}
    /\ stored \in BOOLEAN /\ chClosed \in BOOLEAN
    /\ accepted \in Conn \cup {NoConn}
    /\ ended \subseteq spawned /\ spawned \subseteq Worker
    /\ serving \in [Worker -> Conn \cup {NoConn}]
    /\ connCh \in Seq(Conn) /\ Len(connCh) <= QueueSize
    /\ phase \in [Conn -> {"new", "dialed", "accepted", "queued", "handling",
                           "handled", "rejected"}]
    /\ stopPc \in [Stopper -> {"idle", "close", "wait", "returned"}]
    /\ panicked \in {"no", "nil listener", "send on closed channel",
                     "close of closed channel"}

Count(c) ==
    Cardinality({w \in Worker : serving[w] = c})
    + Cardinality({i \in 1..Len(connCh) : connCh[i] = c})
    + (IF accepted = c THEN 1 ELSE 0)

\* A connection is in exactly one pair of hands from its Accept to its Close:
\* never with two workers, never queued and served, never leaked
\* (server.go 61-63, 86-91).
OneOwner ==
    panicked = "no" =>
        \A c \in Conn :
            Count(c) = IF phase[c] \in {"accepted", "queued", "handling"} THEN 1 ELSE 0

\* The ceiling on resources is explicit: whatever clients do, no more than
\* Workers + QueueSize connections are open here, and the one that the accept
\* loop holds; and every value has its type (server.go 58-65, 86-91).
ResourceCeiling ==
    /\ TypeOK
    /\ Cardinality({c \in Conn : phase[c] \in {"accepted", "queued", "handling"}})
           <= Cardinality(Worker) + QueueSize + 1

\* Draining: when Shutdown returns, everything that was queued has been
\* handled (server.go 116-117).
DrainedOnReturn ==
    (\E s \in Stopper : stopPc[s] = "returned") =>
        \A c \in Conn : phase[c] \notin {"queued", "handling"}

\* Shutdown returns, and so does Start (server.go 70-74, 105-120).
ShutdownReturns ==
    \A s \in Stopper :
        stopPc[s] = "close" ~>
            panicked # "no" \/ (stopPc[s] = "returned" /\ startPc = "returned")

=============================================================================
