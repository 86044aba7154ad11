----------------------------- MODULE ReliableUdp -----------------------------
(***************************************************************************)
(* 08-udp_reliable_retransmit: the client's SendReliable goroutines and    *)
(* its readLoop, the UDP network, and the deduplicating server.            *)
(*                                                                         *)
(* A Line is one line of a client's standard input, i.e. one goroutine     *)
(* that runs SendReliable; the line is also the content of its message.    *)
(* Owner[l] is the client (its UDP address) that reads line l.             *)
(***************************************************************************)
EXTENDS Integers, FiniteSets

CONSTANTS
    Line,               \* input lines = SendReliable goroutines
    Client,             \* client processes, identified by their address
    Owner,              \* [Line -> Client]
    NoLine,             \* "no reply channel", not a line
    MaxRetries,         \* Client.maxRetries
    SeqLimit,           \* first sequence number ParseMsg refuses (2^32)
    OverlappingNextSeq, \* may two goroutines be inside NextSeq at once?
    MaxServerRestarts   \* bound: how often the server process is restarted

ASSUME ReliableUdpAssumption ==
    /\ Owner \in [Line -> Client]
    /\ NoLine \notin Line
    /\ MaxRetries \in Nat
    /\ SeqLimit \in Nat
    /\ OverlappingNextSeq \in BOOLEAN
    /\ MaxServerRestarts \in Nat

VARIABLES
    \* client
    nextSeq,    \* Session.nextSeq of each client
    pc,         \* where each SendReliable goroutine is
    loaded,     \* the value of nextSeq that NextSeq has loaded
    seq,        \* the goroutine's sequence number, 0 before NextSeq returns
    attempts,   \* datagrams written so far
    result,     \* what SendReliable returns
    pending,    \* Client.pending: entries seq -> the line owning the channel
    replyCh,    \* TRUE: the line's reply channel (capacity 1) holds a reply
    readPc,     \* where each client's readLoop is
    deliverTo,  \* the channel readLoop looked up and is about to send on
    shutdown,   \* the signal handler: "up", "cancelled", "closed"
    \* network
    reqs,       \* MSG datagrams in flight
    acks,       \* ACK datagrams in flight
    \* server
    Msgs,       \* Server.Msgs: the sequence numbers seen, by client address
    restarts,   \* how often the server has been restarted
    processed   \* history: how often the server processed each line

clientVars == <<nextSeq, pc, loaded, seq, attempts, result, pending, replyCh,
                readPc, deliverTo, shutdown>>
serverVars == <<Msgs, restarts, processed>>
vars == <<nextSeq, pc, loaded, seq, attempts, result, pending, replyCh,
          readPc, deliverTo, shutdown, reqs, acks, Msgs, restarts, processed>>

PC == {"input", "load", "store", "return", "register", "write", "wait",
       "cleanup", "done"}
InNextSeq == {"load", "store", "return"}
Result == {"none", "ok", "failed", "cancelled", "error"}

Request == [from : Client, seq : Nat, text : Line]
Ack == [to : Client, seq : Nat]
Entry == [client : Client, seq : Nat, line : Line]

Init ==
    /\ nextSeq = [c \in Client |-> 0]
    /\ pc = [l \in Line |-> "input"]
    /\ loaded = [l \in Line |-> 0]
    /\ seq = [l \in Line |-> 0]
    /\ attempts = [l \in Line |-> 0]
    /\ result = [l \in Line |-> "none"]
    /\ pending = {}
    /\ replyCh = [l \in Line |-> FALSE]
    /\ readPc = [c \in Client |-> "check"]
    /\ deliverTo = [c \in Client |-> NoLine]
    /\ shutdown = [c \in Client |-> "up"]
    /\ reqs = {}
    /\ acks = {}
    /\ Msgs = [c \in Client |-> {}]
    /\ restarts = 0
    /\ processed = [l \in Line |-> 0]

-----------------------------------------------------------------------------
(* SendReliable, one action per step that other goroutines can see.        *)

\* main's scanner loop: a goroutine per input line.  The lines of a person
\* typing are far enough apart for NextSeq calls not to overlap; piped input
\* gives no such distance (OverlappingNextSeq).
SpawnSend(l) ==
    /\ pc[l] = "input"
    /\ \/ OverlappingNextSeq
       \/ \A m \in Line : Owner[m] = Owner[l] => pc[m] \notin InNextSeq
    /\ pc' = [pc EXCEPT ![l] = "load"]
    /\ UNCHANGED <<nextSeq, loaded, seq, attempts, result, pending, replyCh,
                   readPc, deliverTo, shutdown, reqs, acks, serverVars>>

\* NextSeq, "s.nextSeq++" without a lock: a load and a store ...
NextSeqLoad(l) ==
    /\ pc[l] = "load"
    /\ loaded' = [loaded EXCEPT ![l] = nextSeq[Owner[l]]]
    /\ pc' = [pc EXCEPT ![l] = "store"]
    /\ UNCHANGED <<nextSeq, seq, attempts, result, pending, replyCh,
                   readPc, deliverTo, shutdown, reqs, acks, serverVars>>

NextSeqStore(l) ==
    /\ pc[l] = "store"
    /\ nextSeq' = [nextSeq EXCEPT ![Owner[l]] = loaded[l] + 1]
    /\ pc' = [pc EXCEPT ![l] = "return"]
    /\ UNCHANGED <<loaded, seq, attempts, result, pending, replyCh,
                   readPc, deliverTo, shutdown, reqs, acks, serverVars>>

\* ... and "return s.nextSeq", which a build may serve from the register it
\* has just stored or by loading the field again.
NextSeqReturn(l) ==
    /\ pc[l] = "return"
    /\ \E n \in {loaded[l] + 1, nextSeq[Owner[l]]} :
           seq' = [seq EXCEPT ![l] = n]
    /\ pc' = [pc EXCEPT ![l] = "register"]
    /\ UNCHANGED <<nextSeq, loaded, attempts, result, pending, replyCh,
                   readPc, deliverTo, shutdown, reqs, acks, serverVars>>

\* Mutant of HasKey: the map is keyed by the client alone.
HasClient(e, c, n) == e.client = c

HasKey(e, c, n) == e.client = c /\ e.seq = n

\* c.pending[seq] = replyCh, under pendingMu; an older entry is overwritten.
Register(l) ==
    /\ pc[l] = "register"
    /\ pending' = {e \in pending : ~HasKey(e, Owner[l], seq[l])}
                  \cup {[client |-> Owner[l], seq |-> seq[l], line |-> l]}
    /\ pc' = [pc EXCEPT ![l] = "write"]
    /\ UNCHANGED <<nextSeq, loaded, seq, attempts, result, replyCh,
                   readPc, deliverTo, shutdown, reqs, acks, serverVars>>

Leave(l, r) ==
    /\ pc' = [pc EXCEPT ![l] = "cleanup"]
    /\ result' = [result EXCEPT ![l] = r]

\* The loop "for range c.maxRetries" has a turn left.
MayWrite(l) == attempts[l] < MaxRetries

\* One turn of "for range c.maxRetries": the datagram is written.
Write(l) ==
    /\ pc[l] = "write"
    /\ MayWrite(l)
    /\ shutdown[Owner[l]] # "closed"
    /\ attempts' = [attempts EXCEPT ![l] = @ + 1]
    /\ reqs' = reqs \cup {[from |-> Owner[l], seq |-> seq[l], text |-> l]}
    /\ pc' = [pc EXCEPT ![l] = "wait"]
    /\ UNCHANGED <<nextSeq, loaded, seq, result, pending, replyCh,
                   readPc, deliverTo, shutdown, acks, serverVars>>

\* Conn.Write fails: the socket is closed, or an earlier datagram met a
\* closed port (a connected UDP socket reports that on a later call).
WriteError(l) ==
    /\ pc[l] = "write"
    /\ MayWrite(l)
    /\ Leave(l, "error")
    /\ UNCHANGED <<nextSeq, loaded, seq, attempts, pending, replyCh,
                   readPc, deliverTo, shutdown, reqs, acks, serverVars>>

\* The loop is over: "failed to received ACK after %d retries".
GiveUp(l) ==
    /\ pc[l] = "write"
    /\ ~MayWrite(l)
    /\ Leave(l, "failed")
    /\ UNCHANGED <<nextSeq, loaded, seq, attempts, pending, replyCh,
                   readPc, deliverTo, shutdown, reqs, acks, serverVars>>

\* The select: when several cases are ready Go picks any of them.
GetReply(l) ==
    /\ pc[l] = "wait"
    /\ replyCh[l]
    /\ replyCh' = [replyCh EXCEPT ![l] = FALSE]
    /\ Leave(l, "ok")
    /\ UNCHANGED <<nextSeq, loaded, seq, attempts, pending,
                   readPc, deliverTo, shutdown, reqs, acks, serverVars>>

\* Mutant of Timeout: the select without its time.After case.
NoTimeout(l) ==
    /\ shutdown[Owner[l]] = "closed"
    /\ pc[l] = "wait"
    /\ pc' = [pc EXCEPT ![l] = "write"]
    /\ UNCHANGED <<nextSeq, loaded, seq, attempts, result, pending, replyCh,
                   readPc, deliverTo, shutdown, reqs, acks, serverVars>>

Timeout(l) ==
    /\ pc[l] = "wait"
    /\ pc' = [pc EXCEPT ![l] = "write"]
    /\ UNCHANGED <<nextSeq, loaded, seq, attempts, result, pending, replyCh,
                   readPc, deliverTo, shutdown, reqs, acks, serverVars>>

SeeCancel(l) ==
    /\ pc[l] = "wait"
    /\ shutdown[Owner[l]] # "up"
    /\ Leave(l, "cancelled")
    /\ UNCHANGED <<nextSeq, loaded, seq, attempts, pending, replyCh,
                   readPc, deliverTo, shutdown, reqs, acks, serverVars>>

\* The deferred delete(c.pending, seq): by key, whoever registered it.
Cleanup(l) ==
    /\ pc[l] = "cleanup"
    /\ pending' = {e \in pending : ~HasKey(e, Owner[l], seq[l])}
    /\ pc' = [pc EXCEPT ![l] = "done"]
    /\ UNCHANGED <<nextSeq, loaded, seq, attempts, result, replyCh,
                   readPc, deliverTo, shutdown, reqs, acks, serverVars>>

SendReliable(l) ==
    \/ NextSeqLoad(l) \/ NextSeqStore(l) \/ NextSeqReturn(l) \/ Register(l)
    \/ Write(l) \/ WriteError(l) \/ GiveUp(l)
    \/ GetReply(l) \/ Timeout(l) \/ SeeCancel(l) \/ Cleanup(l)

-----------------------------------------------------------------------------
(* readLoop.                                                               *)

\* Taking datagram m out of the socket: the network may hold a duplicate.
Taken(S, m) == {S, S \ {m}}

ReadCheck(c) ==
    /\ readPc[c] = "check"
    /\ readPc' = [readPc EXCEPT ![c] =
                     IF shutdown[c] = "up" THEN "read" ELSE "done"]
    /\ UNCHANGED <<nextSeq, pc, loaded, seq, attempts, result, pending,
                   replyCh, deliverTo, shutdown, reqs, acks, serverVars>>

\* Read, ParseMsg, and the lookup under pendingMu.
ReadAck(c) ==
    /\ readPc[c] = "read"
    /\ shutdown[c] # "closed"
    /\ \E a \in acks :
          /\ a.to = c
          /\ acks' \in Taken(acks, a)
          /\ \/ /\ a.seq < SeqLimit
                /\ \E e \in pending :
                      /\ HasKey(e, c, a.seq)
                      /\ deliverTo' = [deliverTo EXCEPT ![c] = e.line]
                /\ readPc' = [readPc EXCEPT ![c] = "deliver"]
             \/ /\ \/ a.seq >= SeqLimit
                   \/ \A e \in pending : ~HasKey(e, c, a.seq)
                /\ readPc' = [readPc EXCEPT ![c] = "check"]
                /\ UNCHANGED deliverTo
    /\ UNCHANGED <<nextSeq, pc, loaded, seq, attempts, result, pending,
                   replyCh, shutdown, reqs, serverVars>>

\* Read returns an error (closed socket, refused port): continue.
ReadError(c) ==
    /\ readPc[c] = "read"
    /\ readPc' = [readPc EXCEPT ![c] = "check"]
    /\ UNCHANGED <<nextSeq, pc, loaded, seq, attempts, result, pending,
                   replyCh, deliverTo, shutdown, reqs, acks, serverVars>>

\* ch <- reply, outside the lock and without a select: it waits while the
\* channel is full.
Deliver(c) ==
    /\ readPc[c] = "deliver"
    /\ ~replyCh[deliverTo[c]]
    /\ replyCh' = [replyCh EXCEPT ![deliverTo[c]] = TRUE]
    /\ deliverTo' = [deliverTo EXCEPT ![c] = NoLine]
    /\ readPc' = [readPc EXCEPT ![c] = "check"]
    /\ UNCHANGED <<nextSeq, pc, loaded, seq, attempts, result, pending,
                   shutdown, reqs, acks, serverVars>>

ReadLoop(c) == ReadCheck(c) \/ ReadAck(c) \/ ReadError(c) \/ Deliver(c)

\* The signal handler of the client's main: cancel(), then Conn.Close().
Shutdown(c) ==
    /\ shutdown[c] # "closed"
    /\ shutdown' = [shutdown EXCEPT ![c] =
                       IF @ = "up" THEN "cancelled" ELSE "closed"]
    /\ UNCHANGED <<nextSeq, pc, loaded, seq, attempts, result, pending,
                   replyCh, readPc, deliverTo, reqs, acks, serverVars>>

-----------------------------------------------------------------------------
(* Server.Read and Server.Write: one goroutine, one datagram at a time.    *)

\* A datagram is lost: in the network, or by the simulated request loss.
LoseRequest(r) ==
    /\ reqs' = reqs \ {r}
    /\ UNCHANGED <<clientVars, acks, serverVars>>

\* ParseMsg refuses the sequence number: the datagram is skipped.
RefuseRequest(r) ==
    /\ r.seq >= SeqLimit
    /\ reqs' \in Taken(reqs, r)
    /\ UNCHANGED <<clientVars, acks, serverVars>>

\* Mutant of Seen: no deduplication.
NeverSeen(c, n) == FALSE

\* The lookup in s.Msgs[key].
Seen(c, n) == n \in Msgs[c]

\* Processed when seen for the first time, acknowledged always; the ACK is
\* sent or lost (the simulated loss of Server.Write, or the network).
HandleRequest(r) ==
    /\ r.seq < SeqLimit
    /\ reqs' \in Taken(reqs, r)
    /\ Msgs' = [Msgs EXCEPT ![r.from] = @ \cup {r.seq}]
    /\ processed' = IF Seen(r.from, r.seq)
                      THEN processed
                      ELSE [processed EXCEPT ![r.text] = @ + 1]
    /\ acks' \in {acks, acks \cup {[to |-> r.from, seq |-> r.seq]}}
    /\ UNCHANGED <<clientVars, restarts>>

LoseAck(a) ==
    /\ acks' = acks \ {a}
    /\ UNCHANGED <<clientVars, reqs, serverVars>>

\* The server process stops and a new one is started on the same port:
\* NewServer begins with an empty Msgs.
RestartServer ==
    /\ restarts < MaxServerRestarts
    /\ restarts' = restarts + 1
    /\ Msgs' = [c \in Client |-> {}]
    /\ UNCHANGED <<clientVars, reqs, acks, processed>>

ServerRead == \E r \in reqs : RefuseRequest(r) \/ HandleRequest(r)

-----------------------------------------------------------------------------
Next ==
    \/ \E l \in Line : SpawnSend(l) \/ SendReliable(l)
    \/ \E c \in Client : ReadLoop(c) \/ Shutdown(c)
    \/ ServerRead
    \/ \E r \in reqs : LoseRequest(r)
    \/ \E a \in acks : LoseAck(a)
    \/ RestartServer

Spec == Init /\ [][Next]_vars

\* The Go scheduler runs every goroutine that can take a step, and time.After
\* fires: SendReliable goes on.  Nothing is assumed of the network.
FairSpec == Spec /\ \A l \in Line : WF_vars(SendReliable(l))

-----------------------------------------------------------------------------
TypeOK ==
    /\ nextSeq \in [Client -> Nat]
    /\ pc \in [Line -> PC]
    /\ loaded \in [Line -> Nat]
    /\ seq \in [Line -> Nat]
    /\ attempts \in [Line -> 0..MaxRetries]
    /\ result \in [Line -> Result]
    /\ pending \subseteq Entry
    /\ replyCh \in [Line -> BOOLEAN]
    /\ readPc \in [Client -> {"check", "read", "deliver", "done"}]
    /\ deliverTo \in [Client -> Line \cup {NoLine}]
    /\ \A c \in Client : readPc[c] = "deliver" => deliverTo[c] \in Line
    /\ shutdown \in [Client -> {"up", "cancelled", "closed"}]
    /\ reqs \subseteq Request
    /\ acks \subseteq Ack
    /\ Msgs \in [Client -> SUBSET Nat]
    /\ restarts \in 0..MaxServerRestarts
    /\ processed \in [Line -> Nat]

-----------------------------------------------------------------------------
(* The promise: ReliableDelivery, with the state each line shows outside.  *)

StatusOf(l) ==
    CASE pc[l] \in {"input", "load", "store", "return", "register"} -> "unsent"
      [] result[l] = "ok" -> "confirmed"
      [] result[l] \in {"failed", "cancelled", "error"} -> "failed"
      [] OTHER -> "sending"

\* NextSeq has returned line l's number.
Numbered(l) == pc[l] \notin {"input"} \cup InNextSeq

\* What the server's Msgs says of the lines.
Remembered == {l \in Line : Numbered(l) /\ seq[l] \in Msgs[Owner[l]]}

Promise == INSTANCE ReliableDelivery WITH
    status <- [l \in Line |-> StatusOf(l)],
    deliveries <- processed,
    remembered <- Remembered

\* The protocol implements the promise, server restarts included (client
\* main.go 118-158, server main.go 65-128).
ImplementsPromise == Promise!Spec

\* A SendReliable that returns nil was right: the server has processed that
\* very line, and not another one that happened to carry the same number
\* (main.go 145-148 on the client, main.go 100-108 on the server).
ConfirmedWasProcessed ==
    \A l \in Line : result[l] = "ok" => processed[l] >= 1

\* However often a datagram is retransmitted or duplicated, one run of the
\* server processes it at most once (main.go 100-104).
AtMostOncePerServerRun ==
    \A l \in Line : processed[l] <= 1 + restarts

\* A goroutine that waits for its ACK can be found by readLoop: its entry is
\* still in pending, no other goroutine has overwritten or deleted it
\* (main.go 130-138).
WaiterIsRegistered ==
    \A l \in Line : pc[l] \in {"write", "wait", "cleanup"} =>
        [client |-> Owner[l], seq |-> seq[l], line |-> l] \in pending

\* Two messages of one client never carry the same sequence number
\* (session.go 19-22).
SeqUnique ==
    \A l, m \in Line :
        /\ Owner[l] = Owner[m]
        /\ seq[l] # 0
        /\ seq[l] = seq[m]
        => l = m

\* SendReliable always returns, whatever the network does (main.go 140-157).
EverySendReturns ==
    \A l \in Line : pc[l] = "load" ~> pc[l] = "done"
-----------------------------------------------------------------------------
(* The inductive invariant of the runs in which NextSeq calls do not       *)
(* overlap.                                                                *)

\* What line l's number proves once the server has put it in Msgs: l itself
\* was processed.
Processed(c, n) ==
    \E l \in Line : Owner[l] = c /\ Numbered(l) /\ seq[l] = n /\ processed[l] >= 1

\* Numbers are handed out one at a time, each larger than all before it.
NumberInv ==
    /\ \A l, m \in Line :
          /\ Owner[l] = Owner[m]
          /\ pc[l] \in InNextSeq
          /\ pc[m] \in InNextSeq
          => l = m
    /\ \A l \in Line :
          /\ pc[l] = "store" => loaded[l] = nextSeq[Owner[l]]
          /\ pc[l] = "return" => nextSeq[Owner[l]] = loaded[l] + 1
          /\ Numbered(l) => seq[l] \in 1..nextSeq[Owner[l]]
          /\ ~Numbered(l) => seq[l] = 0
    /\ \A l, m \in Line :
          Owner[l] = Owner[m] /\ pc[l] = "return" => seq[m] < nextSeq[Owner[l]]

\* A datagram and an entry of pending carry the number of their line.
CarryInv ==
    /\ \A r \in reqs :
          /\ Numbered(r.text) /\ pc[r.text] # "register"
          /\ r.from = Owner[r.text] /\ r.seq = seq[r.text]
    /\ \A e \in pending :
          Numbered(e.line) /\ e.client = Owner[e.line] /\ e.seq = seq[e.line]

\* The evidence on its way from the server to the caller is never false.
EvidenceInv ==
    /\ \A c \in Client : \A n \in Msgs[c] : Processed(c, n)
    /\ \A a \in acks : Processed(a.to, a.seq)
    /\ \A c \in Client : readPc[c] = "deliver" => processed[deliverTo[c]] >= 1
    /\ \A l \in Line : replyCh[l] => processed[l] >= 1

\* A line is processed again only by a server that has forgotten it.
CountInv ==
    \A l \in Line :
        /\ processed[l] <= restarts + 1
        /\ processed[l] = restarts + 1 => seq[l] \in Msgs[Owner[l]]

OutcomeInv ==
    \A l \in Line : result[l] # "none" <=> pc[l] \in {"cleanup", "done"}

Inv ==
    /\ TypeOK
    /\ NumberInv
    /\ SeqUnique
    /\ CarryInv
    /\ WaiterIsRegistered
    /\ EvidenceInv
    /\ CountInv
    /\ OutcomeInv
    /\ ConfirmedWasProcessed

=============================================================================
