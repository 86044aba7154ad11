------------------------------- MODULE UdpStreams -------------------------------
(***************************************************************************)
(* The two programs that stream packets over Framing: 09 (Rtp) and 11      *)
(* (Fec).  A behaviour is of one of them.                                  *)
(***************************************************************************)
EXTENDS Integers, Sequences, FiniteSets, SequencesExt

CONSTANTS
    GroupSize,
    MaxFaults,      \* bound: faults of the network, by program
    MaxTicks        \* bound: ticks of the sender, by program

VARIABLES
    program,        \* "rtp" or "fec"
    wire, reading, faults,
    senderSeq, initialized, LastSeqNum, Delayed, SeqGaps, arrived,
    groupID, groupStates, stats, verdicts,
    toSend,         \* what the sender has generated and not sent
    ticks,
    crashed,        \* handleRead has dereferenced a nil packet
    sent, handled   \* history: packets written, packets parsed

rtpVars == <<senderSeq, initialized, LastSeqNum, Delayed, SeqGaps, arrived>>
fecVars == <<groupID, groupStates, stats, verdicts>>
streamsVars == <<program, wire, reading, faults, rtpVars, fecVars, toSend, ticks, crashed, sent, handled>>

N == INSTANCE Framing
R == INSTANCE Rtp
F == INSTANCE Fec

ASSUME UdpStreamsAssumption == F!FecAssumption

StreamsInit ==
    /\ program \in {"rtp", "fec"}
    /\ N!Init /\ R!Init /\ F!Init
    /\ toSend = <<>>
    /\ ticks = 0
    /\ crashed = FALSE
    /\ sent = 0 /\ handled = 0

\* The sender's tick.
Generate ==
    /\ toSend = <<>>
    /\ ticks < MaxTicks[program]
    /\ ticks' = ticks + 1
    /\ \/ /\ program = "rtp"
          /\ toSend' = R!Generate
          /\ senderSeq' = senderSeq + 1
          /\ UNCHANGED groupID
       \/ /\ program = "fec"
          /\ toSend' = F!Generate
          /\ groupID' = groupID + 1
          /\ UNCHANGED senderSeq
    /\ UNCHANGED <<program, wire, reading, faults, initialized, LastSeqNum, Delayed, SeqGaps,
                   arrived, groupStates, stats, verdicts, crashed, sent, handled>>

\* The next packet is written, or the sender plays a loss and leaves it out.
Send ==
    /\ toSend # <<>>
    /\ toSend' = Tail(toSend)
    /\ \/ N!Write(Head(toSend)) /\ sent' = sent + 1
       \/ UNCHANGED <<wire, sent>>
    /\ UNCHANGED <<program, reading, faults, rtpVars, fecVars, ticks, crashed, handled>>

Network ==
    /\ N!Faults < MaxFaults[program]
    /\ \E i \in DOMAIN wire : N!Lose(i) \/ N!Copy(i) \/ N!Swap(i)
    /\ UNCHANGED <<program, rtpVars, fecVars, toSend, ticks, crashed, sent, handled>>

\* One datagram of handleRead, and what it does with the packet this completes.
\* 09 does not look whether Parse returned nil.
HandleRead ==
    /\ ~crashed
    /\ N!Read
    /\ IF N!Parses
         THEN /\ handled' = handled + 1
              /\ \/ program = "rtp" /\ R!Handle(Head(wire)[2]) /\ UNCHANGED fecVars
                 \/ program = "fec" /\ F!Handle(Head(wire)[2]) /\ UNCHANGED rtpVars
         ELSE UNCHANGED <<rtpVars, fecVars, handled>>
    /\ crashed' = (program = "rtp" /\ N!ParsesNot)
    /\ UNCHANGED <<program, toSend, ticks, sent>>

Monitor ==
    /\ program = "fec"
    /\ F!Monitor
    /\ UNCHANGED <<program, wire, reading, faults, rtpVars, toSend, ticks, crashed, sent, handled>>

StreamsNext == Generate \/ Send \/ Network \/ HandleRead \/ Monitor

StreamsSpec == StreamsInit /\ [][StreamsNext]_streamsVars

-----------------------------------------------------------------------------
StreamsTypeOK ==
    /\ reading \in {"size", "body", "junk", "endless"}
    /\ ToSet(SeqGaps) \cup ToSet(Delayed) \subseteq 0..senderSeq
    /\ Len(groupStates) <= groupID
    /\ handled \in Nat /\ sent \in Nat

\* The reads lose their place for good only by a lost, copied or swapped
\* datagram that makes a body come where a size should; a lost body costs 11
\* one packet more, the next, and is over (11 receptor 97-116).
LostBodyIsOver ==
    /\ StreamsTypeOK
    /\ faults.lostSize + faults.copied + faults.swapped = 0 =>
          /\ reading # "endless"
          /\ wire = <<>> /\ ~crashed => handled + 2 * faults.lostBody >= sent

\* What 09 reports is what happened to the packets it has handled, whatever the
\* network did: GapsAndLatesTellAll of Rtp.
ReportIsTrue == R!GapsAndLatesTellAll

\* 11 recovers nothing: while the network copies nothing, no group is complete,
\* and the ones it says it recovered had lost no packet: the payload it rebuilt
\* is that of none (sender 105-136 makes groups of three and the parity, receptor
\* 169-176 counts to four; README.md 35-37 and the tests have four and the parity).
RecoversNothing ==
    faults.copied = 0 =>
        /\ stats.Completed = 0
        /\ \A v \in verdicts :
              /\ v.verdict = "Recovered" <=> Len(v.packets) = GroupSize
              /\ v.verdict = "Recovered" => F!Rebuilt(v.packets) = {}

=============================================================================
