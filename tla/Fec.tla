----------------------------------- MODULE Fec -----------------------------------
(***************************************************************************)
(* 11-udp_fec_via_xor_seq_parity_packets: groups of data packets with the  *)
(* XOR of their payloads, and the receptor's monitor that judges a group   *)
(* some time after its first packet.                                       *)
(*                                                                         *)
(* The payload of a data packet is the set of its one number; XOR is the   *)
(* symmetric difference, so that a payload tells which packets it mixes.   *)
(***************************************************************************)
EXTENDS Integers, Sequences, FiniteSets, SequencesExt

CONSTANTS
    GroupSize       \* groupSize of both programs: 4 in their main functions

FecAssumption == GroupSize \in Nat \ {0}

VARIABLES
    groupID,        \* Sender.groupID
    groupStates,    \* the groups held, in the order of arrivedAt: <<id, groupSeqs>>
    stats,
    verdicts        \* history: the groups that were judged, and how

fecVars == <<groupID, groupStates, stats, verdicts>>

Xor(x, y) == (x \ y) \cup (y \ x)

Init ==
    /\ groupID = 0
    /\ groupStates = <<>>
    /\ stats = [Completed |-> 0, Recovered |-> 0, Lost |-> 0]
    /\ verdicts = {}

\* x mixed with the payloads of the packets at the given places.
Mixed(x, packets, places) ==
    FoldFunctionOnSet(Xor, x, [i \in places |-> packets[i].payload], places)

\* Mutant of DataInGroup: as many data packets as the receptor expects.
AllOfThem == GroupSize

\* The parity packet is one of the groupSize packets of a group.
DataInGroup == GroupSize - 1

\* Sender.Generate.
Generate ==
    LET first == groupID * DataInGroup
        data == [i \in 1..DataInGroup |->
                   [group |-> groupID, type |-> "data", payload |-> {first + i}]]
    IN Append(data, [group |-> groupID, type |-> "parity",
                     payload |-> Mixed({}, data, 1..DataInGroup)])

\* What handleRead does with a parsed packet: a group that is not held, be it
\* new or judged before, starts to wait.
Handle(packet) ==
    LET held == {i \in DOMAIN groupStates : groupStates[i][1] = packet.group} IN
    /\ groupStates' =
          IF held = {} THEN Append(groupStates, <<packet.group, <<packet>>>>)
          ELSE [i \in DOMAIN groupStates |->
                  IF i \in held
                    THEN <<packet.group, Append(groupStates[i][2], packet)>>
                    ELSE groupStates[i]]
    /\ UNCHANGED <<groupID, stats, verdicts>>

Data(packets) == {i \in DOMAIN packets : packets[i].type = "data"}
HaveParity(packets) == \E i \in DOMAIN packets : packets[i].type = "parity"
Parity(packets) == (CHOOSE p \in ToSet(packets) : p.type = "parity").payload
Missing(packets) == GroupSize - Cardinality(Data(packets))

Verdict(packets) ==
    CASE Missing(packets) = 0 -> "Completed"
      [] Missing(packets) = 1 /\ HaveParity(packets) -> "Recovered"
      [] OTHER -> "Lost"

\* The payload the monitor prints for a group it calls recovered.
Rebuilt(packets) == Mixed(Parity(packets), packets, Data(packets))

\* The monitor judges the group that has waited longest.  The tick that judges
\* several, under r.mu, is as many ticks that judge one each.
Monitor ==
    /\ groupStates # <<>>
    /\ LET packets == Head(groupStates)[2]
           verdict == Verdict(packets)
       IN /\ stats' = [stats EXCEPT ![verdict] = @ + 1]
          /\ verdicts' = verdicts \cup {[verdict |-> verdict, packets |-> packets]}
    /\ groupStates' = Tail(groupStates)
    /\ UNCHANGED groupID

=============================================================================
