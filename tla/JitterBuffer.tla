----------------------------- MODULE JitterBuffer -----------------------------
(***************************************************************************)
(* 10-jitter_buffer_reordering/receptor: the receptor's read loop, the     *)
(* jitter buffer's release loop and the player, fed by a sender whose      *)
(* packets the network loses, delays, duplicates and reorders.             *)
(*                                                                         *)
(* A packet is its sequence number.  One unit of time is the interval of   *)
(* the sender, which stamps packet s at time s; the skip list is the       *)
(* ordered map that SkipList.tla is shown to implement: buffer is the set  *)
(* of its scores.                                                          *)
(***************************************************************************)
EXTENDS Integers, Sequences, FiniteSets, FiniteSetsExt

CONSTANTS
    MaxSeq,         \* bound: the sender sends packets 0..MaxSeq
    MaxCopies,      \* bound: how often a packet can arrive
    Deadline,       \* JitterBuffer.deadline
    MaxTime         \* bound on the clock

ASSUME JitterBufferAssumption ==
    /\ {MaxSeq, MaxCopies, Deadline, MaxTime} \subseteq Nat
    /\ MaxTime >= MaxSeq + Deadline

VARIABLES
    now,
    copies,         \* how often each packet has arrived
    \* Receptor
    initialized, LastSeqNum,
    Delayed,        \* len(Delayed)
    SeqGaps,        \* len(SeqGaps)
    \* JitterBuffer
    buffer, jbPc, held,
    \* Player
    expectedSeq, TotalPlayed, TotalLost,
    \* history
    played,         \* the packets in the order the player got them
    late            \* packets that arrived after a later one was released

receptorVars == <<initialized, LastSeqNum, Delayed, SeqGaps>>
playerVars == <<expectedSeq, TotalPlayed, TotalLost, played>>
vars == <<now, copies, receptorVars, buffer, jbPc, held,
          playerVars, late>>

Packet == 0..MaxSeq
NoPacket == -1

Init ==
    /\ now = 0
    /\ copies = [s \in Packet |-> 0]
    /\ initialized = FALSE
    /\ LastSeqNum = 0
    /\ Delayed = 0
    /\ SeqGaps = 0
    /\ buffer = {}
    /\ jbPc = "select"
    /\ held = NoPacket
    /\ expectedSeq = 0
    /\ TotalPlayed = 0
    /\ TotalLost = 0
    /\ played = <<>>
    /\ late = {}

-----------------------------------------------------------------------------
TimePasses ==
    /\ now < MaxTime
    /\ now' = now + 1
    /\ UNCHANGED <<copies, receptorVars, buffer, jbPc, held,
                   playerVars, late>>

Released == Range(played) \cup ({held} \ {NoPacket})

Gap(s) == s > LastSeqNum + 1

\* The bookkeeping under r.mu.
Classify(s) ==
    \/ /\ ~initialized
       /\ initialized' = TRUE
       /\ LastSeqNum' = s
       /\ UNCHANGED <<Delayed, SeqGaps>>
    \/ /\ initialized
       /\ Gap(s)
       /\ SeqGaps' = SeqGaps + 1
       /\ LastSeqNum' = s
       /\ UNCHANGED <<initialized, Delayed>>
    \/ /\ initialized
       /\ s <= LastSeqNum
       /\ Delayed' = Delayed + 1
       /\ UNCHANGED <<initialized, LastSeqNum, SeqGaps>>
    \/ /\ initialized
       /\ s > LastSeqNum /\ ~Gap(s)
       /\ LastSeqNum' = s
       /\ UNCHANGED <<initialized, Delayed, SeqGaps>>

\* Generate numbers the packets from 0, one at each tick of Send; what Send
\* leaves out (15 %), the network might as well have lost.
Sent(s) == s <= now

\* handleRead: a copy of packet s comes out of the socket, goes into the
\* skip list (where it replaces a packet of the same score) and is classified.
handleRead(s) ==
    /\ Sent(s)
    /\ copies[s] < MaxCopies
    /\ copies' = [copies EXCEPT ![s] = @ + 1]
    /\ buffer' = buffer \cup {s}
    /\ late' = IF \E r \in Released : r >= s THEN late \cup {s} ELSE late
    /\ Classify(s)
    /\ UNCHANGED <<now, jbPc, held, playerVars>>

-----------------------------------------------------------------------------
(* JitterBuffer.Bootstrap.                                                 *)

\* Mutant of Due: a gap is waited for.
DueInSequence(s) == now >= s + Deadline /\ s <= expectedSeq

\* !time.Now().Before(timestamp + deadline)
Due(s) == now >= s + Deadline

\* Mutant of Smallest: arrival order forgotten, the newest packet first.
Newest(S) == Max(S)

Smallest(S) == Min(S)

\* case <-ticker.C.  (Cancelling ctx ends main, and with it the process: a
\* behaviour that stops.)
Tick ==
    /\ jbPc = "select"
    /\ jbPc' = "drain"
    /\ UNCHANGED <<now, copies, receptorVars, buffer, held,
                   playerVars, late>>

\* PopFrontWithCond finds a packet that is due ...
ReleaseFront ==
    /\ jbPc = "drain"
    /\ \E s \in buffer :
          /\ s = Smallest(buffer)
          /\ Due(s)
          /\ held' = s
          /\ buffer' = buffer \ {s}
    /\ jbPc' = "send"
    /\ UNCHANGED <<now, copies, receptorVars, playerVars, late>>

\* Mutant of StopDraining: the node is removed before the condition is asked.
StopDrainingPopped ==
    /\ jbPc = "drain"
    /\ \A s \in buffer : s = Smallest(buffer) => ~Due(s)
    /\ jbPc' = "select"
    /\ buffer' = {s \in buffer : s # Smallest(buffer)}
    /\ UNCHANGED <<now, copies, receptorVars, held, playerVars, late>>

\* ... or none, and the loop waits for the next tick.
StopDraining ==
    /\ jbPc = "drain"
    /\ \A s \in buffer : s = Smallest(buffer) => ~Due(s)
    /\ jbPc' = "select"
    /\ UNCHANGED <<now, copies, receptorVars, buffer, held, playerVars, late>>

\* Mutant of Missed: the packet itself is counted.
MissedAndExpected(s) == IF s > expectedSeq THEN s - expectedSeq + 1 ELSE 0

Missed(s) == IF s > expectedSeq THEN s - expectedSeq ELSE 0

\* jb.out <- packet, received by Player.Bootstrap: the channel has no buffer.
Play ==
    /\ jbPc = "send"
    /\ jbPc' = "drain"
    /\ held' = NoPacket
    /\ TotalLost' = TotalLost + Missed(held)
    /\ TotalPlayed' = TotalPlayed + 1
    /\ expectedSeq' = held + 1
    /\ played' = Append(played, held)
    /\ UNCHANGED <<now, copies, receptorVars, buffer, late>>

Bootstrap == Tick \/ ReleaseFront \/ StopDraining \/ Play

Next ==
    \/ TimePasses
    \/ \E s \in Packet : handleRead(s)
    \/ Bootstrap

Spec == Init /\ [][Next]_vars

\* Time goes on, the ticker fires, and the goroutines run.
FairSpec == Spec /\ WF_vars(TimePasses) /\ WF_vars(Bootstrap)

-----------------------------------------------------------------------------
TypeOK ==
    /\ now \in 0..MaxTime
    /\ copies \in [Packet -> 0..MaxCopies]
    /\ initialized \in BOOLEAN
    /\ LastSeqNum \in Packet
    /\ Delayed \in Nat /\ SeqGaps \in Nat
    /\ TotalPlayed \in Nat /\ TotalLost \in Nat
    /\ buffer \subseteq Packet
    /\ jbPc \in {"select", "drain", "send"}
    /\ held \in Packet \cup {NoPacket}
    /\ jbPc = "send" <=> held # NoPacket
    /\ expectedSeq \in 0..(MaxSeq + 1)
    /\ played \in Seq(Packet)
    /\ late \subseteq Packet

\* Packets that wait in the buffer together come out in sequence order; only a
\* packet that arrived after a later one had been released can come out behind
\* it (jitterBuffer.go 44-54, skipList.go 244-262).
OnlyLateOutOfOrder ==
    \A i, j \in 1..Len(played) :
        i < j /\ played[i] >= played[j] => played[j] \in late

Arrived == {s \in Packet : copies[s] > 0}

\* The window: every packet that arrived is waiting, on its way to the player
\* or played, the release loop drops nothing; and nothing is released before
\* it has aged Deadline (jitterBuffer.go 43-55).
WindowKept ==
    /\ Arrived \subseteq buffer \cup Released
    /\ \A s \in Released : now >= s + Deadline

\* No hole in what arrived goes unreported: every one was revealed by a gap
\* event or split off by a packet that was reported late (receptor.go 76-90).
HolesReported ==
    Cardinality({s \in Arrived : s - 1 \notin Arrived /\ s # Min(Arrived)})
        <= SeqGaps + Delayed

\* As long as no packet is too late the loss count is exact: what was not
\* played below the newest played packet, and nothing else, is counted
\* (player.go 33-47).
LossCountExact ==
    late = {} =>
        TotalLost = Cardinality((0..(expectedSeq - 1)) \ Range(played))

\* The statistics that main prints, each within its own promise, and the type
\* of every variable (receptor.go 76-90, player.go 33-47).
ReportHolds == TypeOK /\ HolesReported /\ LossCountExact

\* What arrived is played in the end, although packets before it are missing
\* (jitterBuffer.go 43-55).
ArrivedIsPlayed ==
    \A s \in Packet : copies[s] > 0 ~> s \in Range(played)

=============================================================================
